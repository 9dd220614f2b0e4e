--------------------------- MODULE Daemon_proofs ----------------------------
(***************************************************************************)
(* For every set of pids: the pid file names the daemon, and the clean-up   *)
(* of a start touches orphans only and leaves none, unless two processes    *)
(* were inside acquireLock at once.                                         *)
(***************************************************************************)
EXTENDS Daemon, TLAPS

\* At most one process is about to write the file, and none while a daemon holds it.
OneInside ==
  ~raced => \A p, q \in Pids : place[p] = "read" /\ place[q] \in Claimed \cup {"read"} => p = q

\* Who works on a row has come past its clean-up and has not left.
WorkersRun == \A t \in Tasks, p \in Pids : row[t].by = p => place[p] \in Running

Inv == TypeOK /\ HolderUnlessRaced /\ OneInside /\ WorkersRun

-----------------------------------------------------------------------------
\* A step that moves one process p touches no other place.
LEMMA Moves ==
  ASSUME TypeOK, NEW p \in Pids, NEW from, NEW to, Goes(p, from, to)
  PROVE  /\ place[p] = from /\ place'[p] = to
         /\ \A q \in Pids : q # p => place'[q] = place[q]
BY DEF TypeOK, Goes

\* The end of a process frees its rows and leaves those of the others.
LEMMA EndFrees ==
  ASSUME TypeOK, WorkersRun, NEW p \in Pids, NEW from, Ends(p, from)
  PROVE  /\ WorkersRun'
         /\ \A t \in Tasks : row'[t].status = row[t].status
         /\ row' \in [Tasks -> [status : {"idle", "in_progress", "settled", "failed"}, by : Pids \cup {NoPid}]]
         /\ port' \in Pids \cup {NoPid} /\ lax' \subseteq Pids
<1>1. /\ \A t \in Tasks : row'[t].status = row[t].status /\ row'[t].by # p
      /\ \A t \in Tasks : row'[t].by = row[t].by \/ row'[t].by = NoPid
  BY DaemonAssumption DEF TypeOK, Ends, DaemonAssumption
<1>2. \A q \in Pids : q # p => place'[q] = place[q]
  BY Moves DEF Ends
<1>3. WorkersRun'
  BY <1>1, <1>2, DaemonAssumption DEF WorkersRun, DaemonAssumption
<1> QED BY <1>1, <1>3 DEF Ends, TypeOK

\* Who goes on under its claim keeps the file, and who leaves removes no other's.
LEMMA KeepsApart ==
  ASSUME Inv, raced' = raced, NEW p \in Pids, NEW from, NEW to, Goes(p, from, to),
         \/ from \in Claimed /\ to \in Claimed /\ lock' = lock
         \/ to \notin Claimed \cup {"read"} /\ lock' \in {lock, Released(p)}
  PROVE  HolderUnlessRaced' /\ OneInside'
<1>1. /\ place[p] = from /\ place'[p] = to
      /\ \A q \in Pids : q # p => place'[q] = place[q]
  BY Moves DEF Inv
<1>2. OneInside'
  BY <1>1 DEF Inv, OneInside, Claimed
<1>3. HolderUnlessRaced'
  BY <1>1, DaemonAssumption DEF Inv, HolderUnlessRaced, Released, DaemonAssumption
<1> QED BY <1>2, <1>3

LEMMA InitInv == ASSUME Init PROVE Inv
<1>1. \A p \in Pids : place[p] = "none"
  BY DEF Init
<1>2. \A t \in Tasks : row[t].by = NoPid
  BY DEF Init
<1>3. place \in [Pids -> Places] /\ raced \in BOOLEAN
  BY DEF Init, Places
<1>4. /\ row \in [Tasks -> [status : {"idle", "in_progress", "settled", "failed"}, by : Pids \cup {NoPid}]]
      /\ faults \in 0..MaxFaults /\ lax \subseteq Pids /\ lock = NoPid /\ port = NoPid
  BY DaemonAssumption DEF Init, DaemonAssumption
<1>5. TypeOK
  BY <1>3, <1>4 DEF TypeOK
<1>6. HolderUnlessRaced /\ OneInside
  BY <1>1 DEF HolderUnlessRaced, OneInside, Claimed
<1>7. WorkersRun
  BY <1>2, DaemonAssumption DEF WorkersRun, DaemonAssumption
<1> QED BY <1>5, <1>6, <1>7 DEF Inv

\* A process whose step touches no row keeps workers running, unless it leaves them.
LEMMA KeepsWorking ==
  ASSUME Inv, NEW p \in Pids, NEW from, NEW to, Goes(p, from, to), row' = row,
         to \in Running \/ from \notin Running
  PROVE  WorkersRun'
<1>1. /\ place[p] = from /\ place'[p] = to
      /\ \A q \in Pids : q # p => place'[q] = place[q]
  BY Moves DEF Inv
<1> QED BY <1>1 DEF Inv, WorkersRun

\* The places of a step are places.
LEMMA PlacesTyped ==
  ASSUME TypeOK, NEW p \in Pids, NEW from, NEW to \in Places, Goes(p, from, to)
  PROVE  place' \in [Pids -> Places]
BY DEF TypeOK, Goes

LEMMA FaultTyped == ASSUME TypeOK, Fault \/ NoFault PROVE faults' \in 0..MaxFaults
BY DaemonAssumption DEF TypeOK, Fault, NoFault, DaemonAssumption

\* Every step of a process that ends.
LEMMA EndInv ==
  ASSUME Inv, NEW p \in Pids, NEW from, Ends(p, from), Fault \/ NoFault,
         lock' \in {lock, Released(p)}, raced' = raced
  PROVE  Inv'
<1>1. Goes(p, from, "none")
  BY DEF Ends
<1>2. HolderUnlessRaced' /\ OneInside'
  BY <1>1, KeepsApart DEF Claimed
<1>3. place' \in [Pids -> Places]
  BY <1>1, PlacesTyped DEF Inv, Places
<1>4. lock' \in Pids \cup {NoPid} /\ raced' \in BOOLEAN
  BY DEF Inv, TypeOK, Released
<1> QED BY <1>2, <1>3, <1>4, EndFrees, FaultTyped DEF Inv, TypeOK

\* Every step that moves a process on and touches no row.
LEMMA MoveInv ==
  ASSUME Inv, NEW p \in Pids, NEW from, NEW to \in Places, Goes(p, from, to), Fault \/ NoFault,
         \/ from \in Claimed /\ to \in Claimed
         \/ from \notin Claimed /\ to \notin Claimed \cup {"read"},
         to \in Running \/ from \notin Running,
         UNCHANGED <<lock, row, raced>>, port' \in Pids \cup {NoPid}, lax' \subseteq Pids
  PROVE  Inv'
<1>1. HolderUnlessRaced' /\ OneInside'
  BY KeepsApart
<1>2. WorkersRun' /\ place' \in [Pids -> Places] /\ faults' \in 0..MaxFaults
  BY KeepsWorking, PlacesTyped, FaultTyped DEF Inv
<1> QED BY <1>1, <1>2 DEF Inv, TypeOK

-----------------------------------------------------------------------------
\* Inside acquireLock: the reader saw no live process, so nobody holds the file.
LEMMA ReadsInv == ASSUME Inv, NEW p \in Pids, Reads(p) PROVE Inv'
<1>1. /\ place[p] = "start" /\ place'[p] = "read"
      /\ \A q \in Pids : q # p => place'[q] = place[q]
  BY Moves DEF Inv, Reads
<1>2. place' \in [Pids -> Places]
  BY PlacesTyped DEF Inv, Reads, Places
<1>3. OneInside'
  <2> SUFFICES ASSUME ~raced', NEW q \in Pids, NEW r \in Pids,
                      place'[q] = "read", place'[r] \in Claimed \cup {"read"}
               PROVE  q = r
    BY DEF OneInside
  <2>1. ~raced /\ \A o \in Pids : place[o] # "read"
    BY DEF Reads
  <2>2. \A o \in Pids : place[o] \notin Claimed
    BY <2>1, DaemonAssumption DEF Inv, HolderUnlessRaced, Reads, LockAlive, Claimed, DaemonAssumption
  <2> QED BY <1>1, <2>1, <2>2
<1>4. HolderUnlessRaced'
  BY <1>1 DEF Inv, HolderUnlessRaced, Reads, Claimed
<1>5. WorkersRun'
  BY <1>1 DEF Inv, WorkersRun, Reads, Running
<1>6. raced' \in BOOLEAN
  BY DEF Reads
<1> QED BY <1>2, <1>3, <1>4, <1>5, <1>6, FaultTyped DEF Inv, TypeOK, Reads

LEMMA ClaimsInv == ASSUME Inv, NEW p \in Pids, Claims(p) PROVE Inv'
<1>1. /\ place[p] = "read" /\ place'[p] = "open"
      /\ \A q \in Pids : q # p => place'[q] = place[q]
  BY Moves DEF Inv, Claims
<1>2. place' \in [Pids -> Places]
  BY PlacesTyped DEF Inv, Claims, Places
<1>3. HolderUnlessRaced' /\ OneInside'
  BY <1>1 DEF Inv, OneInside, HolderUnlessRaced, Claims, Claimed
<1>4. WorkersRun'
  BY <1>1 DEF Inv, WorkersRun, Claims, Running
<1> QED BY <1>2, <1>3, <1>4, FaultTyped DEF Inv, TypeOK, Claims

LEMMA CleansUpInv == ASSUME Inv, NEW p \in Pids, CleansUp(p) PROVE Inv'
<1>1. /\ place[p] = "open" /\ place'[p] = "boot"
      /\ \A q \in Pids : q # p => place'[q] = place[q]
  BY Moves DEF Inv, CleansUp
<1>2. HolderUnlessRaced' /\ OneInside'
  BY KeepsApart DEF CleansUp, Claimed
<1>3. place' \in [Pids -> Places] /\ faults' \in 0..MaxFaults
  BY PlacesTyped, FaultTyped DEF Inv, CleansUp, Places
<1>4. /\ \A t \in Tasks : row'[t].by = row[t].by
      /\ row' \in [Tasks -> [status : {"idle", "in_progress", "settled", "failed"}, by : Pids \cup {NoPid}]]
  BY DEF Inv, TypeOK, CleansUp, OrphansFailed
<1>5. WorkersRun'
  BY <1>1, <1>4 DEF Inv, WorkersRun, Running
<1> QED BY <1>2, <1>3, <1>4, <1>5 DEF Inv, TypeOK, CleansUp

LEMMA WorksInv == ASSUME Inv, NEW p \in Pids, Works(p) PROVE Inv'
<1> PICK t \in Tasks : StartTask(p, t) \/ EndTask(p, t)
  BY DEF Works
<1>1. UNCHANGED <<place, lock, port, lax, raced, faults>>
  BY DEF StartTask, EndTask, NoFault
<1>2. /\ row' \in [Tasks -> [status : {"idle", "in_progress", "settled", "failed"}, by : Pids \cup {NoPid}]]
      /\ row'[t].by = NoPid \/ (row'[t].by = p /\ place[p] \in Running)
      /\ \A u \in Tasks : u # t => row'[u] = row[u]
  BY DEF Inv, TypeOK, StartTask, EndTask
<1>3. WorkersRun'
  BY <1>1, <1>2, DaemonAssumption DEF Inv, WorkersRun, DaemonAssumption
<1> QED BY <1>1, <1>2, <1>3 DEF Inv, TypeOK, HolderUnlessRaced, OneInside

LEMMA StepInv == ASSUME Inv, [Next]_vars PROVE Inv'
<1>1. CASE UNCHANGED vars
  BY <1>1 DEF Inv, TypeOK, HolderUnlessRaced, OneInside, WorkersRun, vars
<1> SUFFICES ASSUME NEW p \in Pids,
                    Launch(p) \/ Starts(p) \/ Stops(p) \/ Works(p) \/ PidTaken(p) \/ PidFreed(p)
             PROVE  Inv'
  BY <1>1 DEF Next
<1>2. port \in Pids \cup {NoPid} /\ lax \subseteq Pids
  BY DEF Inv, TypeOK
<1> USE DEF Places, Claimed, Running
<1>3. CASE Launch(p)
  BY <1>2, <1>3, MoveInv DEF Launch
<1>4. CASE Refused(p)
  BY <1>2, <1>4, MoveInv DEF Refused
<1>5. CASE Reads(p) \/ Claims(p) \/ CleansUp(p)
  BY <1>5, ReadsInv, ClaimsInv, CleansUpInv
<1>6. CASE Binds(p)
  BY <1>2, <1>6, MoveInv DEF Binds
<1>7. CASE BindFails(p)
  BY <1>7, EndInv DEF BindFails
<1>8. CASE Readies(p)
  BY <1>2, <1>8, MoveInv DEF Readies
<1>9. CASE ShutsDown(p)
  BY <1>2, <1>9, MoveInv DEF ShutsDown
<1>10. CASE Exits(p)
  BY <1>10, EndInv DEF Exits
<1>11. CASE Dies(p) \/ Replaced(p)
  <2>1. PICK from \in Places : Ends(p, from)
    BY <1>11 DEF Dies, Replaced
  <2> QED BY <1>11, <2>1, EndInv DEF Dies, Replaced
<1>12. CASE Works(p)
  BY <1>12, WorksInv
<1>13. CASE PidTaken(p)
  BY <1>2, <1>13, MoveInv DEF PidTaken
<1>14. CASE PidFreed(p)
  BY <1>2, <1>14, MoveInv DEF PidFreed
<1> QED BY <1>3, <1>4, <1>5, <1>6, <1>7, <1>8, <1>9, <1>10, <1>11, <1>12, <1>13, <1>14 DEF Starts, Stops

-----------------------------------------------------------------------------
\* The daemon between its claim and its exit is the one daemon.pid names, for every number
\* of processes (acquireLock, releaseLock), unless two were inside acquireLock at once.
THEOREM Safety == Spec => [](TypeOK /\ HolderUnlessRaced)
<1>1. Init => Inv
  BY InitInv
<1>2. Inv /\ [Next]_vars => Inv'
  BY StepInv
<1>3. Inv => TypeOK /\ HolderUnlessRaced
  BY DEF Inv
<1> QED BY <1>1, <1>2, <1>3, PTL DEF Spec

\* A row is failed by the clean-up only, and then by a process that holds the file and has
\* not begun to work: whoever worked on it is gone (init.ts).
THEOREM Orphans == Spec => OnlyOrphansAreFailed
<1> DEFINE Step == \A t \in Tasks :
                     row'[t].status = "failed" /\ row[t].status # "failed" => raced \/ row[t].by = NoPid
<1>1. Inv /\ [Next]_vars => [Step]_vars
  <2> SUFFICES ASSUME Inv, Next, NEW t \in Tasks,
                      row'[t].status = "failed", row[t].status # "failed", ~raced
               PROVE  row[t].by = NoPid
    BY Zenon
  <2> PICK p \in Pids : Launch(p) \/ Starts(p) \/ Stops(p) \/ Works(p) \/ PidTaken(p) \/ PidFreed(p)
    BY DEF Next
  <2>1. ASSUME NEW from, Ends(p, from)
        PROVE  FALSE
    BY <2>1, EndFrees DEF Inv
  <2>2. ~Works(p)
    BY DEF Works, StartTask, EndTask, Inv, TypeOK
  <2>3. ~(Stops(p) \/ BindFails(p))
    BY <2>1 DEF Stops, BindFails, Exits, Dies, Replaced, ShutsDown
  <2>4. CleansUp(p)
    BY <2>2, <2>3 DEF Launch, Starts, Refused, Reads, Claims, Binds, Readies, PidTaken, PidFreed
  <2>5. place[p] = "open" /\ lock = p
    BY <2>4 DEF CleansUp, Goes, Inv, HolderUnlessRaced, Claimed
  <2>6. \A q \in Pids : row[t].by # q
    BY <2>5 DEF Inv, HolderUnlessRaced, WorkersRun, Running, Claimed
  <2> QED BY <2>6 DEF Inv, TypeOK
<1>2. Init => Inv
  BY InitInv
<1>3. Inv /\ [Next]_vars => Inv'
  BY StepInv
<1> QED BY <1>1, <1>2, <1>3, PTL DEF Spec, OnlyOrphansAreFailed
-----------------------------------------------------------------------------
\* Of two daemons between claim and exit, the file names one.
LEMMA OneClaimed ==
  ASSUME Inv, ~raced, NEW p \in Pids, NEW q \in Pids, place[p] \in Claimed, place[q] \in Claimed
  PROVE  p = q
BY DEF Inv, HolderUnlessRaced

\* A process whose step touches no row, and that does not begin to work.
LEMMA MoveOwn ==
  ASSUME Inv, NoOrphanBesideADaemon, NEW p \in Pids, NEW from, NEW to, Goes(p, from, to),
         to \in Running => from \in Running, UNCHANGED <<row, lax>>, raced => raced'
  PROVE  NoOrphanBesideADaemon'
<1>1. /\ place[p] = from /\ place'[p] = to
      /\ \A q \in Pids : q # p => place'[q] = place[q]
  BY Moves DEF Inv
<1>2. \A q \in Pids : place'[q] \in Running => place[q] \in Running
  BY <1>1
<1> QED BY <1>2 DEF NoOrphanBesideADaemon, Inv, TypeOK

\* A process that ends leaves its rows to nobody, and no other daemon is at work beside it.
LEMMA EndOwn ==
  ASSUME Inv, NoOrphanBesideADaemon, NEW p \in Pids, NEW from, Ends(p, from), raced' = raced
  PROVE  NoOrphanBesideADaemon'
<1> SUFFICES ASSUME NEW q \in Pids, NEW t \in Tasks,
                    ~raced', place'[q] \in Running, q \notin lax', row'[t].status = "in_progress"
             PROVE  row'[t].by = q
  BY DEF NoOrphanBesideADaemon
<1>1. place'[p] = "none" /\ \A o \in Pids : o # p => place'[o] = place[o]
  BY Moves DEF Inv, Ends
<1>2. q # p /\ place[q] \in Running /\ q \notin lax /\ ~raced
  BY <1>1 DEF Ends, Running
<1>3. row[t].status = "in_progress"
  BY EndFrees DEF Inv
<1>4. row[t].by = q
  BY <1>2, <1>3 DEF NoOrphanBesideADaemon
<1> QED BY <1>2, <1>4 DEF Ends, Inv, TypeOK

LEMMA WorksOwn ==
  ASSUME Inv, NoOrphanBesideADaemon, NEW p \in Pids, Works(p)
  PROVE  NoOrphanBesideADaemon'
<1> PICK t \in Tasks : StartTask(p, t) \/ EndTask(p, t)
  BY DEF Works
<1>1. UNCHANGED <<place, lax, raced>>
  BY DEF StartTask, EndTask
<1>2. /\ row'[t].status = "settled" \/ (row'[t].by = p /\ place[p] \in Running)
      /\ \A u \in Tasks : u # t => row'[u] = row[u]
  BY DEF Inv, TypeOK, StartTask, EndTask
<1>3. ~raced => \A q \in Pids : place[p] \in Running /\ place[q] \in Running => p = q
  BY OneClaimed DEF Running, Claimed
<1> QED BY <1>1, <1>2, <1>3 DEF NoOrphanBesideADaemon

LEMMA CleansUpOwn ==
  ASSUME Inv, NoOrphanBesideADaemon, NEW p \in Pids, CleansUp(p)
  PROVE  NoOrphanBesideADaemon'
<1>1. /\ place[p] = "open" /\ place'[p] = "boot" /\ raced' = raced
      /\ \A q \in Pids : q # p => place'[q] = place[q]
  BY Moves DEF Inv, CleansUp
<1>2. CASE row' = OrphansFailed
  <2>1. \A t \in Tasks : row'[t].status # "in_progress"
    BY <1>2 DEF OrphansFailed, Inv, TypeOK
  <2> QED BY <2>1 DEF NoOrphanBesideADaemon
<1>3. CASE lax' = lax \cup {p}
  <2>1. ~raced => \A q \in Pids : place'[q] \in Running => q = p
    BY <1>1, OneClaimed DEF Running, Claimed
  <2> QED BY <1>1, <1>3, <2>1 DEF NoOrphanBesideADaemon
<1> QED BY <1>2, <1>3 DEF CleansUp

LEMMA StepOwn == ASSUME Inv, NoOrphanBesideADaemon, [Next]_vars PROVE NoOrphanBesideADaemon'
<1>1. CASE UNCHANGED vars
  BY <1>1 DEF NoOrphanBesideADaemon, vars
<1> SUFFICES ASSUME NEW p \in Pids,
                    Launch(p) \/ Starts(p) \/ Stops(p) \/ Works(p) \/ PidTaken(p) \/ PidFreed(p)
             PROVE  NoOrphanBesideADaemon'
  BY <1>1 DEF Next
<1>2. CASE \/ Launch(p) \/ Refused(p) \/ Reads(p) \/ Claims(p) \/ Binds(p) \/ Readies(p)
           \/ ShutsDown(p) \/ PidTaken(p) \/ PidFreed(p)
  <2>1. UNCHANGED <<row, lax>>
    BY <1>2
    DEF Launch, Refused, Reads, Claims, Binds, Readies, ShutsDown, PidTaken, PidFreed
  <2>3. raced => raced'
    <3>1. CASE Reads(p)
      BY <3>1, Zenon DEF Reads
    <3>2. CASE ~Reads(p)
      BY <1>2, <3>2 DEF Launch, Refused, Claims, Binds, Readies, ShutsDown, PidTaken, PidFreed
    <3> QED BY <3>1, <3>2
  <2>2. \/ Goes(p, "none", "start") \/ Goes(p, "start", "none") \/ Goes(p, "start", "read")
        \/ Goes(p, "read", "open") \/ Goes(p, "boot", "bound") \/ Goes(p, "bound", "ready")
        \/ Goes(p, "ready", "closing") \/ Goes(p, "none", "other") \/ Goes(p, "other", "none")
    BY <1>2
    DEF Launch, Refused, Reads, Claims, Binds, Readies, ShutsDown, PidTaken, PidFreed
  <2> QED BY <2>1, <2>2, <2>3, MoveOwn DEF Running
<1>3. CASE CleansUp(p)
  BY <1>3, CleansUpOwn
<1>4. CASE BindFails(p) \/ Exits(p) \/ Dies(p) \/ Replaced(p)
  <2>1. PICK from : Ends(p, from) /\ raced' = raced
    BY <1>4 DEF BindFails, Exits, Dies, Replaced
  <2> QED BY <2>1, EndOwn
<1>5. CASE Works(p)
  BY <1>5, WorksOwn
<1> QED BY <1>2, <1>3, <1>4, <1>5 DEF Starts, Stops

\* Beside a daemon that has begun to work, every row in progress is its own, for every number of
\* processes and rows (init.ts, the clean-up), unless its clean-up failed or two processes were
\* inside acquireLock at once.
THEOREM NoneLeft == Spec => []NoOrphanBesideADaemon
<1>1. Init => Inv /\ NoOrphanBesideADaemon
  <2>1. Init => NoOrphanBesideADaemon
    BY DEF Init, NoOrphanBesideADaemon, Running
  <2> QED BY <2>1, InitInv
<1>2. Inv /\ NoOrphanBesideADaemon /\ [Next]_vars => Inv' /\ NoOrphanBesideADaemon'
  BY StepInv, StepOwn
<1> QED BY <1>1, <1>2, PTL DEF Spec
=============================================================================

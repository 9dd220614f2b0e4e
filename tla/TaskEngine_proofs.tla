-------------------------- MODULE TaskEngine_proofs -------------------------
(***************************************************************************)
(* Tasks through executeTask, for every number of tasks, calls and slots:   *)
(* no slot leaks, a task has one call or one retry timer, a pending row is  *)
(* in the backlog or owned, and without the CLI path the engine implements  *)
(* the specification of its semaphore.                                      *)
(***************************************************************************)
EXTENDS TaskEngine, FiniteSetTheorems, TLAPS

(* What every method of the semaphore keeps of its record *)

Record == [current : 0..Concurrency, queue : Seq(Runs), entry : [Runs -> Sem!Entries]]

Good(s) ==
  /\ s \in Record
  /\ \A i, j \in 1..Len(s.queue) : s.queue[i] = s.queue[j] => i = j
  /\ \A r \in Runs : Sem!InQueue(s, r) <=> s.entry[r] = "waiting"
  /\ s.queue # <<>> => s.current = Concurrency

\* What a method does to the promise of a caller other than its own.
Shift(e, f) == f = e \/ (e = "waiting" /\ f \in {"granted", "rejected"})

Holders(s) == {r \in Runs : s.entry[r] = "granted"}
Counted(s) == Cardinality(Holders(s)) = s.current

LEMMA HoldersAreFinite ==
  ASSUME NEW s
  PROVE  /\ IsFiniteSet(Holders(s)) /\ Cardinality(Holders(s)) \in Nat
         /\ \A r \in Holders(s) : Cardinality(Holders(s)) # 0
  BY TaskEngineAssumption, FS_Subset, FS_CardinalityType, FS_EmptySet DEF Holders

LEMMA TwoFields ==
  ASSUME NEW s \in Record, NEW q, NEW e
  PROVE  [s EXCEPT !.queue = q, !.entry = e] = [current |-> s.current, queue |-> q, entry |-> e]
  <1> DEFINE one == [s EXCEPT !.queue = q]
  <1>1. one = [current |-> s.current, queue |-> q, entry |-> s.entry]
    BY DEF Record
  <1>2. [s EXCEPT !.queue = q, !.entry = e] = [one EXCEPT !.entry = e]
    OBVIOUS
  <1> HIDE DEF one
  <1>3. [one EXCEPT !.entry = e] = [current |-> s.current, queue |-> q, entry |-> e]
    BY <1>1
  <1> QED
    BY <1>2, <1>3

LEMMA IdleKeeps == Good(Sem!Idle) /\ Counted(Sem!Idle)
  <1>1. Good(Sem!Idle)
    BY TaskEngineAssumption DEF Good, Record, Sem!Idle, Sem!Entries, Sem!InQueue
  <1>2. Holders(Sem!Idle) = {}
    BY DEF Holders, Sem!Idle
  <1>3. Sem!Idle.current = 0
    BY DEF Sem!Idle
  <1> QED
    BY <1>1, <1>2, <1>3, FS_EmptySet DEF Counted

LEMMA AcquiredKeeps ==
  ASSUME NEW s, Good(s), NEW r \in Runs, s.entry[r] = "none"
  PROVE  /\ Good(Sem!Acquired(s, r))
         /\ Sem!Acquired(s, r).entry[r] \in {"granted", "waiting"}
         /\ \A q \in Runs \ {r} : Sem!Acquired(s, r).entry[q] = s.entry[q]
         /\ Counted(s) => Counted(Sem!Acquired(s, r))
  <1> DEFINE u == Sem!Acquired(s, r)
  <1>1. CASE s.current < Concurrency
    <2>1. u = [current |-> s.current + 1, queue |-> s.queue,
               entry |-> [s.entry EXCEPT ![r] = "granted"]]
      BY <1>1 DEF Sem!Acquired, Good, Record
    <2>2. s.queue = <<>>
      BY <1>1, TaskEngineAssumption DEF Good, Record
    <2>3. Good(u)
      BY <1>1, <2>1, <2>2, TaskEngineAssumption DEF Good, Record, Sem!Entries, Sem!InQueue
    <2>4. Holders(u) = Holders(s) \cup {r} /\ r \notin Holders(s)
      BY <2>1 DEF Holders, Good, Record
    <2>5. Counted(s) => Counted(u)
      BY <2>1, <2>4, HoldersAreFinite, FS_AddElement DEF Counted
    <2> QED
      BY <2>1, <2>3, <2>5 DEF Good, Record
  <1>2. CASE ~(s.current < Concurrency)
    <2>1. u = [current |-> s.current, queue |-> Append(s.queue, r),
               entry |-> [s.entry EXCEPT ![r] = "waiting"]]
      BY <1>2 DEF Sem!Acquired, Good, Record
    <2>2. s.current = Concurrency /\ ~Sem!InQueue(s, r)
      BY <1>2, TaskEngineAssumption DEF Good, Record
    <2>3. /\ Len(u.queue) = Len(s.queue) + 1
          /\ u.queue[Len(s.queue) + 1] = r
          /\ \A i \in 1..Len(s.queue) : u.queue[i] = s.queue[i] /\ s.queue[i] # r
      BY <2>1, <2>2 DEF Good, Record, Sem!InQueue
    <2>4. \A i, j \in 1..Len(u.queue) : u.queue[i] = u.queue[j] => i = j
      <3> HIDE DEF u
      <3> QED
        BY <2>3 DEF Good, Record
    <2>5. \A q \in Runs : Sem!InQueue(u, q) <=> Sem!InQueue(s, q) \/ q = r
      BY <2>3 DEF Good, Record, Sem!InQueue
    <2>6. \A q \in Runs : u.entry[q] = "waiting" <=> s.entry[q] = "waiting" \/ q = r
      BY <2>1 DEF Good, Record
    <2>7. u \in Record
      BY <2>1 DEF Good, Record, Sem!Entries
    <2>8. u.current = Concurrency
      BY <2>1, <2>2
    <2>9. Good(u)
      BY <2>4, <2>5, <2>6, <2>7, <2>8 DEF Good, Record
    <2>10. Holders(u) = Holders(s)
      BY <2>1 DEF Holders, Good, Record
    <2>11. u.entry[r] \in {"granted", "waiting"} /\ \A q \in Runs \ {r} : u.entry[q] = s.entry[q]
      BY <2>1 DEF Good, Record
    <2>12. Counted(s) => Counted(u)
      BY <2>1, <2>10 DEF Counted
    <2> QED
      BY <2>9, <2>11, <2>12
  <1> QED
    BY <1>1, <1>2

LEMMA ForgottenKeeps ==
  ASSUME NEW s, Good(s), NEW r \in Runs, s.entry[r] # "waiting"
  PROVE  /\ Good(Sem!Forgotten(s, r))
         /\ Sem!Forgotten(s, r).current = s.current
         /\ Sem!Forgotten(s, r).entry = [s.entry EXCEPT ![r] = "none"]
         /\ Holders(Sem!Forgotten(s, r)) = Holders(s) \ {r}
  <1>1. Sem!Forgotten(s, r) = [current |-> s.current, queue |-> s.queue,
                               entry |-> [s.entry EXCEPT ![r] = "none"]]
    BY DEF Sem!Forgotten, Good, Record
  <1> QED
    BY <1>1 DEF Good, Record, Sem!Entries, Sem!InQueue, Holders

Once(q) == \A j, k \in 1..Len(q) : q[j] = q[k] => j = k
In(q, r) == \E j \in 1..Len(q) : q[j] = r

\* u is the queue q without its i-th element.
Without(u, q, i) ==
  /\ u \in Seq(Runs) /\ q \in Seq(Runs) /\ i \in 1..Len(q)
  /\ Len(u) = Len(q) - 1
  /\ \A j \in 1..Len(u) : u[j] = IF j < i THEN q[j] ELSE q[j + 1]

LEMMA Removed ==
  ASSUME NEW u, NEW q, NEW i, Without(u, q, i), Once(q)
  PROVE  Once(u) /\ \A r \in Runs : In(u, r) <=> In(q, r) /\ r # q[i]
  <1> USE DEF Without, Once, In
  <1>1. ASSUME NEW j \in 1..Len(u), NEW k \in 1..Len(u), u[j] = u[k] PROVE j = k
    <2> DEFINE a == IF j < i THEN j ELSE j + 1
               b == IF k < i THEN k ELSE k + 1
    <2>1. a \in 1..Len(q) /\ b \in 1..Len(q) /\ q[a] = q[b]
      BY <1>1
    <2>2. a = b
      BY <2>1
    <2> QED
      BY <2>2
  <1>2. ASSUME NEW r \in Runs, NEW j \in 1..Len(u), u[j] = r
        PROVE  In(q, r) /\ r # q[i]
    <2> DEFINE a == IF j < i THEN j ELSE j + 1
    <2>1. a \in 1..Len(q) /\ a # i /\ q[a] = r
      BY <1>2
    <2> QED
      BY <2>1
  <1>3. ASSUME NEW r \in Runs, NEW k \in 1..Len(q), q[k] = r, r # q[i]
        PROVE  In(u, r)
    <2> DEFINE b == IF k < i THEN k ELSE k - 1
    <2>1. k # i
      BY <1>3
    <2>2. b \in 1..Len(u) /\ u[b] = r
      BY <1>3, <2>1
    <2> QED
      BY <2>2
  <1> QED
    BY <1>1, <1>2, <1>3

LEMMA ReleasedKeeps ==
  ASSUME NEW s, Good(s)
  PROVE  /\ Good(Sem!Released(s))
         /\ \A q \in Runs : Shift(s.entry[q], Sem!Released(s).entry[q])
         /\ s.current # 0 /\ Cardinality(Holders(s)) = s.current - 1 => Counted(Sem!Released(s))
  <1> DEFINE u == Sem!Released(s)
  <1>1. CASE s.current = 0
    BY <1>1 DEF Sem!Released, Shift
  <1>2. CASE s.current # 0 /\ s.queue = <<>>
    <2>1. u = [current |-> s.current - 1, queue |-> <<>>, entry |-> s.entry]
      BY <1>2 DEF Sem!Released, Good, Record
    <2>2. Good(u)
      BY <1>2, <2>1, TaskEngineAssumption DEF Good, Record, Sem!InQueue
    <2>3. Holders(u) = Holders(s)
      BY <2>1 DEF Holders
    <2> QED
      BY <2>1, <2>2, <2>3 DEF Shift, Counted
  <1>3. CASE s.current # 0 /\ s.queue # <<>>
    <2> DEFINE h == Head(s.queue)
    <2>1. u = [current |-> s.current, queue |-> Tail(s.queue),
               entry |-> [s.entry EXCEPT ![h] = "granted"]]
      BY <1>3 DEF Sem!Released, Good, Record
    <2>2. /\ h \in Runs /\ h = s.queue[1] /\ 1 \in 1..Len(s.queue)
          /\ s.entry[h] = "waiting"
      BY <1>3 DEF Good, Record, Sem!InQueue
    <2>3. /\ u.queue \in Seq(Runs) /\ Len(u.queue) = Len(s.queue) - 1
          /\ \A j \in 1..Len(u.queue) : u.queue[j] = s.queue[j + 1]
      BY <1>3, <2>1 DEF Good, Record
    <2>4. Without(u.queue, s.queue, 1)
      <3>1. s.queue \in Seq(Runs)
        BY DEF Good, Record
      <3> HIDE DEF u, h
      <3> QED
        BY <2>2, <2>3, <3>1 DEF Without
    <2>5. Once(s.queue)
      BY DEF Good, Once
    <2>6. Once(u.queue) /\ \A r \in Runs : In(u.queue, r) <=> In(s.queue, r) /\ r # s.queue[1]
      BY <2>4, <2>5, Removed
    <2>7. \A r \in Runs : Sem!InQueue(u, r) <=> Sem!InQueue(s, r) /\ r # h
      BY <2>2, <2>6 DEF Sem!InQueue, In
    <2>8. \A r \in Runs : u.entry[r] = "waiting" <=> s.entry[r] = "waiting" /\ r # h
      BY <2>1, <2>2 DEF Good, Record
    <2>9. u \in Record
      BY <2>1, <2>2, <2>3 DEF Good, Record, Sem!Entries
    <2>10. u.current = Concurrency
      BY <1>3, <2>1 DEF Good, Record
    <2>11. Good(u)
      BY <2>6, <2>7, <2>8, <2>9, <2>10 DEF Good, Once
    <2>12. \A q \in Runs : Shift(s.entry[q], u.entry[q])
      BY <2>1, <2>2 DEF Shift, Good, Record
    <2>13. Holders(u) = Holders(s) \cup {h} /\ h \notin Holders(s)
      BY <2>1, <2>2 DEF Holders, Good, Record
    <2>14. Cardinality(Holders(u)) = Cardinality(Holders(s)) + 1
      BY <2>13, HoldersAreFinite, FS_AddElement
    <2>15. Cardinality(Holders(s)) = s.current - 1 => Counted(u)
      BY <2>1, <2>14 DEF Counted, Good, Record
    <2> QED
      BY <2>11, <2>12, <2>15
  <1> QED
    BY <1>1, <1>2, <1>3

LEMMA TimedOutKeeps ==
  ASSUME NEW s, Good(s), NEW i \in 1..Len(s.queue)
  PROVE  /\ Good(Sem!TimedOut(s, i))
         /\ \A q \in Runs : Shift(s.entry[q], Sem!TimedOut(s, i).entry[q])
         /\ Sem!TimedOut(s, i).current = s.current
         /\ Holders(Sem!TimedOut(s, i)) = Holders(s)
         /\ Counted(s) => Counted(Sem!TimedOut(s, i))
  <1> DEFINE u == Sem!TimedOut(s, i)
             h == s.queue[i]
  <1>0. s \in Record
    BY DEF Good, Record
  <1>1. u = [current |-> s.current, queue |-> Sem!Spliced(s.queue, i),
             entry |-> [s.entry EXCEPT ![h] = "rejected"]]
    BY <1>0, TwoFields DEF Sem!TimedOut
  <1>2. h \in Runs /\ s.entry[h] = "waiting" /\ s.queue # <<>>
    BY DEF Good, Record, Sem!InQueue
  <1>3. /\ u.queue \in Seq(Runs) /\ Len(u.queue) = Len(s.queue) - 1
        /\ \A j \in 1..Len(u.queue) : u.queue[j] = IF j < i THEN s.queue[j] ELSE s.queue[j + 1]
    BY <1>1 DEF Good, Record, Sem!Spliced
  <1>4. Without(u.queue, s.queue, i) /\ Once(s.queue)
    <2>1. s.queue \in Seq(Runs) /\ Once(s.queue)
      BY DEF Good, Once, Record
    <2> HIDE DEF u
    <2> QED
      BY <1>3, <2>1 DEF Without
  <1>5. Once(u.queue) /\ \A r \in Runs : In(u.queue, r) <=> In(s.queue, r) /\ r # s.queue[i]
    BY <1>4, Removed
  <1>6. \A r \in Runs : Sem!InQueue(u, r) <=> Sem!InQueue(s, r) /\ r # h
    BY <1>5 DEF Sem!InQueue, In
  <1>7. \A r \in Runs : u.entry[r] = "waiting" <=> s.entry[r] = "waiting" /\ r # h
    BY <1>1, <1>2 DEF Good, Record
  <1>8. u \in Record
    BY <1>1, <1>2, <1>3 DEF Good, Record, Sem!Entries
  <1>9. u.current = Concurrency
    BY <1>1, <1>2 DEF Good, Record
  <1>10. Good(u)
    BY <1>5, <1>6, <1>7, <1>8, <1>9 DEF Good, Once
  <1>11. \A q \in Runs : Shift(s.entry[q], u.entry[q])
    BY <1>1, <1>2 DEF Shift, Good, Record
  <1>12. Holders(u) = Holders(s)
    BY <1>1, <1>2 DEF Holders, Good, Record
  <1> QED
    BY <1>1, <1>10, <1>11, <1>12 DEF Counted

LEMMA DrainedKeeps ==
  ASSUME NEW s, Good(s)
  PROVE  /\ Good(Sem!Drained(s))
         /\ \A q \in Runs : Shift(s.entry[q], Sem!Drained(s).entry[q])
         /\ Sem!Drained(s).current = s.current /\ Holders(Sem!Drained(s)) = Holders(s)
         /\ Counted(s) => Counted(Sem!Drained(s))
         /\ s.queue = <<>> => Sem!Drained(s) = s
  <1> DEFINE u == Sem!Drained(s)
  <1>0. s \in Record
    BY DEF Good, Record
  <1>1. u = [current |-> s.current, queue |-> <<>>,
             entry |-> [r \in Runs |-> IF Sem!InQueue(s, r) THEN "rejected" ELSE s.entry[r]]]
    BY <1>0, TwoFields DEF Sem!Drained
  <1>2. u \in Record
    BY <1>1 DEF Good, Record, Sem!Entries
  <1>3. \A r \in Runs : u.entry[r] # "waiting" /\ ~Sem!InQueue(u, r)
    BY <1>1 DEF Good, Record, Sem!InQueue
  <1>4. Good(u)
    BY <1>1, <1>2, <1>3 DEF Good, Record
  <1>5. \A q \in Runs : Shift(s.entry[q], u.entry[q])
    BY <1>1 DEF Shift, Good, Record
  <1>6. Holders(u) = Holders(s)
    BY <1>1 DEF Holders, Good, Record
  <1>7. s.queue = <<>> => u = s
    BY <1>1 DEF Good, Record, Sem!InQueue
  <1> QED
    BY <1>1, <1>4, <1>5, <1>6, <1>7 DEF Counted

-----------------------------------------------------------------------------
(* Types, places and slots *)

RowType == [Tasks -> [status : Status, retries : 0..MaxRetries]]
RunType == [Runs -> [task : Tasks \cup {NoTask}, at : Places, read : 0..MaxRetries]]
CancelType == [Tasks -> {"no", "read", "done"}]

\* A call that runs has a task; one that is to retry has a retry left.
Placed ==
  \A r \in Runs : /\ run[r].at = "free" <=> run[r].task = NoTask
                  /\ run[r].at = "retry" => run[r].read < MaxRetries

\* A call executes only under a promise that was granted, a promise is of a call that asked for
\* it, and calls queue only while every slot is counted taken.
SlotsAreKept ==
  /\ \A r \in Runs : At(r, Executing) => sem.entry[r] = "granted"
  /\ \A r \in Runs : sem.entry[r] # "none" => At(r, Executing \cup {"slot"})
  /\ sem.queue # <<>> => sem.current = Concurrency

IInv == TypeOK /\ Placed /\ Good(sem) /\ SlotsAreKept

\* What SlotsAreKept says of one call.
Kept(at, entry) ==
  /\ at \in Executing => entry = "granted"
  /\ entry # "none" => at \in Executing \cup {"slot"}

\* Only the call r moves, others keep their place and at most stop waiting.
LEMMA OneCallMoves ==
  ASSUME IInv, NEW r \in Runs, Good(sem'),
         \A q \in Runs \ {r} : run'[q].at = run[q].at /\ Shift(sem.entry[q], sem'.entry[q]),
         Kept(run'[r].at, sem'.entry[r])
  PROVE  SlotsAreKept'
  BY DEF IInv, SlotsAreKept, Kept, Good, At, Shift

LEMMA TypeParts ==
  TypeOK <=> /\ row \in RowType /\ run \in RunType /\ timers \in [Tasks -> Nat]
             /\ sem \in Record /\ stale \subseteq Tasks /\ cancel \in CancelType
             /\ faults \in 0..MaxFaults /\ restarts \in 0..MaxRestarts /\ sweeps \in 0..MaxSweeps
  BY DEF TypeOK, RowType, RunType, Record, CancelType, Sem!TypeOK

\* Where a call that moves leads it, and which rows a write leaves alone.
LEMMA GoesTo ==
  ASSUME TypeOK, NEW r \in Runs, NEW p \in Places, Goes(r, p)
  PROVE  /\ run' \in RunType /\ run'[r] = [run[r] EXCEPT !.at = p]
         /\ run'[r].at = p /\ run'[r].task = run[r].task /\ run'[r].read = run[r].read
         /\ \A q \in Runs \ {r} : run'[q] = run[q]
  BY TypeParts DEF Goes, RunType

LEMMA ReturnsTo ==
  ASSUME TypeOK, NEW r \in Runs, Returns(r)
  PROVE  /\ run' \in RunType
         /\ run'[r].at = "free" /\ run'[r].task = NoTask
         /\ \A q \in Runs \ {r} : run'[q] = run[q]
  BY TypeParts, TaskEngineAssumption DEF Returns, RunType, FreeRun, Places

LEMMA WritesRow ==
  ASSUME TypeOK, NEW r \in Runs, NEW s \in Status, Writes(r, s)
  PROVE  /\ row' \in RowType
         /\ \A t \in Tasks : row'[t].status = IF t = run[r].task THEN s ELSE row[t].status
  BY TypeParts DEF Writes, RowType

LEMMA CallsFrom ==
  ASSUME TypeOK, NEW t \in Tasks, Calls(t)
  PROVE  /\ run' \in RunType
         /\ \E r \in Runs : /\ run[r].at = "free" /\ sem.entry[r] = "none"
                            /\ run'[r].at = "call" /\ run'[r].task = t
                            /\ \A q \in Runs \ {r} : run'[q] = run[q]
  <1>1. PICK r \in Runs : /\ At(r, {"free"}) /\ sem.entry[r] = "none"
                          /\ run' = [run EXCEPT ![r] = [task |-> t, at |-> "call", read |-> 0]]
    BY DEF Calls
  <1>2. run' \in RunType
    BY <1>1, TypeParts, TaskEngineAssumption DEF RunType, Places
  <1>3. /\ run'[r].at = "call" /\ run'[r].task = t
        /\ \A q \in Runs \ {r} : run'[q] = run[q]
    BY <1>1, TypeParts DEF RunType
  <1> QED
    BY <1>1, <1>2, <1>3 DEF At

LEMMA GivesBackKeeps ==
  ASSUME IInv, NEW r \in Runs, sem.entry[r] = "granted", GivesBack(r)
  PROVE  Good(sem') /\ SlotsAreKept'
  <1> DEFINE u == Sem!Forgotten(sem, r)
  <1>1. Good(sem)
    BY DEF IInv
  <1>2. Good(u) /\ u.entry = [sem.entry EXCEPT ![r] = "none"]
    BY <1>1, ForgottenKeeps
  <1>3. sem' = Sem!Released(u) /\ Returns(r)
    BY DEF GivesBack
  <1> HIDE DEF u
  <1>4. Good(sem') /\ \A q \in Runs : Shift(u.entry[q], sem'.entry[q])
    BY <1>2, <1>3, ReleasedKeeps
  <1>5. sem.entry \in [Runs -> Sem!Entries]
    BY <1>1 DEF Good, Record
  <1>6. /\ sem'.entry[r] = "none"
        /\ \A q \in Runs \ {r} : Shift(sem.entry[q], sem'.entry[q])
    BY <1>2, <1>4, <1>5 DEF Shift
  <1>7. run'[r].at = "free" /\ \A q \in Runs \ {r} : run'[q] = run[q]
    BY <1>3, ReturnsTo DEF IInv
  <1>8. Kept(run'[r].at, sem'.entry[r])
    BY <1>6, <1>7 DEF Kept, Executing
  <1> QED
    BY <1>4, <1>6, <1>7, <1>8, OneCallMoves

\* A step of r that leaves the semaphore alone.
LEMMA SemStays ==
  ASSUME IInv, NEW r \in Runs, UNCHANGED sem,
         \A q \in Runs \ {r} : run'[q] = run[q],
         Kept(run'[r].at, sem.entry[r])
  PROVE  Good(sem') /\ SlotsAreKept'
  <1>1. Good(sem')
    BY DEF IInv
  <1> QED
    BY <1>1, OneCallMoves DEF Shift

\* Whose calls stay where they are, however the promises of the waiting are settled.
LEMMA OnlySettles ==
  ASSUME IInv, UNCHANGED run, Good(sem'), \A q \in Runs : Shift(sem.entry[q], sem'.entry[q])
  PROVE  SlotsAreKept'
  BY DEF IInv, SlotsAreKept, Good, At, Shift

LEMMA CallStep ==
  ASSUME IInv, NEW r \in Runs,
         row' \in RowType, run' \in RunType, timers' \in [Tasks -> Nat],
         stale' \subseteq Tasks, UNCHANGED cancel,
         Fault \/ NoFault,
         \A q \in Runs \ {r} : run'[q] = run[q],
         run'[r].at = "free" <=> run'[r].task = NoTask,
         run'[r].at = "retry" => run'[r].read < MaxRetries,
         Good(sem'), SlotsAreKept'
  PROVE  IInv'
  <1>1. /\ faults' \in 0..MaxFaults /\ restarts' \in 0..MaxRestarts /\ sweeps' \in 0..MaxSweeps
        /\ cancel' \in CancelType
    BY TypeParts, TaskEngineAssumption DEF IInv, Fault, NoFault, bounds
  <1>2. sem' \in Record
    BY DEF Good
  <1>3. TypeOK'
    BY <1>1, <1>2 DEF TypeOK, RowType, RunType, Record, CancelType, Sem!TypeOK
  <1>4. Placed'
    BY DEF IInv, Placed
  <1> QED
    BY <1>3, <1>4 DEF IInv

\* A call goes on to a place where it keeps what it holds.
LEMMA GoesOn ==
  ASSUME IInv, NEW r \in Runs, NEW p \in Places \ {"free", "retry"}, run[r].at # "free",
         Goes(r, p), row' \in RowType, UNCHANGED <<timers, stale, cancel>>, Fault \/ NoFault,
         Good(sem'), SlotsAreKept'
  PROVE  IInv'
  <1>1. /\ run' \in RunType /\ run'[r].at = p /\ run'[r].task = run[r].task
        /\ \A q \in Runs \ {r} : run'[q] = run[q]
    BY GoesTo DEF IInv
  <1>2. timers' \in [Tasks -> Nat] /\ stale' \subseteq Tasks
    BY TypeParts DEF IInv
  <1>3. run[r].task # NoTask
    BY DEF IInv, Placed
  <1> QED
    BY <1>1, <1>2, <1>3, CallStep

LEMMA ReturnsKeeps ==
  ASSUME IInv, NEW r \in Runs, Returns(r), row' \in RowType, timers' \in [Tasks -> Nat],
         UNCHANGED <<stale, cancel>>, Fault \/ NoFault, Good(sem'), SlotsAreKept'
  PROVE  IInv'
  <1>1. /\ run' \in RunType /\ run'[r].at = "free" /\ run'[r].task = NoTask
        /\ \A q \in Runs \ {r} : run'[q] = run[q]
    BY ReturnsTo DEF IInv
  <1>2. stale' \subseteq Tasks
    BY TypeParts DEF IInv
  <1> QED
    BY <1>1, <1>2, CallStep

LEMMA SameRows == ASSUME IInv, UNCHANGED row PROVE row' \in RowType
  BY TypeParts DEF IInv

LEMMA NoSlotYet ==
  ASSUME IInv, NEW r \in Runs, run[r].at \notin Executing \cup {"slot"}
  PROVE  sem.entry[r] = "none"
  BY DEF IInv, SlotsAreKept, At

LEMMA HoldsSlot ==
  ASSUME IInv, NEW r \in Runs, run[r].at \in Executing
  PROVE  sem.entry[r] = "granted"
  BY DEF IInv, SlotsAreKept, At

\* A call that leaves with no promise leaves the slots alone.
LEMMA ReturnsUnheld ==
  ASSUME IInv, NEW r \in Runs, UNCHANGED sem, Returns(r), sem.entry[r] = "none"
  PROVE  Good(sem') /\ SlotsAreKept'
  <1>1. run'[r].at = "free" /\ \A q \in Runs \ {r} : run'[q] = run[q]
    BY ReturnsTo DEF IInv
  <1>2. Kept(run'[r].at, sem.entry[r])
    BY <1>1 DEF Kept, Executing
  <1> QED
    BY <1>1, <1>2, SemStays

LEMMA GoesHolding ==
  ASSUME IInv, NEW r \in Runs, NEW p \in Places, UNCHANGED sem, Goes(r, p),
         Kept(p, sem.entry[r])
  PROVE  Good(sem') /\ SlotsAreKept'
  <1>1. run'[r].at = p /\ \A q \in Runs \ {r} : run'[q] = run[q]
    BY GoesTo DEF IInv
  <1> QED
    BY <1>1, SemStays

LEMMA NoProviderKeeps == ASSUME IInv, NEW r \in Runs, NoProvider(r) PROVE IInv'
  <1>1. run[r].at = "call" /\ Writes(r, "failed") /\ Returns(r) /\ Fault /\ UNCHANGED <<timers, sem, stale, cancel>>
    BY DEF NoProvider, At
  <1>2. sem.entry[r] = "none"
    BY <1>1, NoSlotYet DEF Executing
  <1>3. Good(sem') /\ SlotsAreKept'
    BY <1>1, <1>2, ReturnsUnheld
  <1>4. row' \in RowType
    BY <1>1, WritesRow DEF IInv, Status, Ended
  <1>5. timers' \in [Tasks -> Nat]
    BY <1>1, TypeParts DEF IInv
  <1> QED
    BY <1>1, <1>3, <1>4, <1>5, ReturnsKeeps

LEMMA DelegateKeeps == ASSUME IInv, NEW r \in Runs, Delegate(r) PROVE IInv'
  <1>1. /\ run[r].at = "call" /\ Writes(r, "in_progress") /\ Goes(r, "peer") /\ NoFault
        /\ UNCHANGED <<timers, sem, stale, cancel>>
    BY DEF Delegate, At, NoFault
  <1>2. sem.entry[r] = "none"
    BY <1>1, NoSlotYet DEF Executing
  <1>3. "peer" \in Places \ {"free", "retry"} /\ Kept("peer", sem.entry[r])
    BY <1>2 DEF Kept, Executing, Places
  <1>4. Good(sem') /\ SlotsAreKept'
    BY <1>1, <1>3, GoesHolding
  <1>5. row' \in RowType
    BY <1>1, WritesRow DEF IInv, Status
  <1> QED
    BY <1>1, <1>3, <1>4, <1>5, GoesOn

LEMMA PeerAnswersKeeps == ASSUME IInv, NEW r \in Runs, PeerAnswers(r) PROVE IInv'
  <1>1. run[r].at = "peer" /\ Returns(r) /\ UNCHANGED <<timers, sem, stale, cancel>>
    BY DEF PeerAnswers, At
  <1>2. row' \in RowType /\ (Fault \/ NoFault)
    <2>1. CASE \E s \in {"completed", "failed"} : Writes(r, s) /\ NoFault
      BY <2>1, WritesRow DEF IInv, Status, Ended
    <2>2. CASE UNCHANGED row /\ Fault
      BY <2>2, SameRows
    <2> QED
      BY <2>1, <2>2 DEF PeerAnswers
  <1>3. sem.entry[r] = "none"
    BY <1>1, NoSlotYet DEF Executing
  <1>4. Good(sem') /\ SlotsAreKept'
    BY <1>1, <1>3, ReturnsUnheld
  <1>5. timers' \in [Tasks -> Nat]
    BY <1>1, TypeParts DEF IInv
  <1> QED
    BY <1>1, <1>2, <1>4, <1>5, ReturnsKeeps

LEMMA AskForSlotKeeps == ASSUME IInv, NEW r \in Runs, AskForSlot(r) PROVE IInv'
  <1>1. /\ run[r].at = "call" /\ sem' = Sem!Acquired(sem, r) /\ Goes(r, "slot") /\ NoFault
        /\ UNCHANGED <<row, timers, stale, cancel>>
    BY DEF AskForSlot, At, NoFault
  <1>2. sem.entry[r] = "none" /\ Good(sem)
    BY <1>1, NoSlotYet DEF Executing, IInv
  <1>3. /\ Good(sem') /\ sem'.entry[r] \in {"granted", "waiting"}
        /\ \A q \in Runs \ {r} : sem'.entry[q] = sem.entry[q]
    BY <1>1, <1>2, AcquiredKeeps
  <1>4. "slot" \in Places \ {"free", "retry"}
    BY DEF Places
  <1>5. run'[r].at = "slot" /\ \A q \in Runs \ {r} : run'[q] = run[q]
    BY <1>1, <1>4, GoesTo DEF IInv
  <1>6. Kept(run'[r].at, sem'.entry[r])
    BY <1>3, <1>5 DEF Kept, Executing
  <1>7. SlotsAreKept'
    BY <1>3, <1>5, <1>6, OneCallMoves DEF Shift
  <1> QED
    BY <1>1, <1>3, <1>4, <1>7, SameRows, GoesOn

LEMMA RefusedKeeps == ASSUME IInv, NEW r \in Runs, Refused(r) PROVE IInv'
  <1>1. /\ sem.entry[r] = "rejected" /\ sem' = Sem!Forgotten(sem, r) /\ Returns(r)
        /\ UNCHANGED <<timers, stale, cancel>> /\ NoFault
    BY DEF Refused, NoFault
  <1>2. row' \in RowType
    BY SameRows, WritesRow DEF Refused, IInv, Status, Ended
  <1>3. Good(sem') /\ sem'.entry = [sem.entry EXCEPT ![r] = "none"]
    BY <1>1, ForgottenKeeps DEF IInv
  <1>4. run'[r].at = "free" /\ \A q \in Runs \ {r} : run'[q] = run[q]
    BY <1>1, ReturnsTo DEF IInv
  <1>5. sem'.entry[r] = "none" /\ \A q \in Runs \ {r} : sem'.entry[q] = sem.entry[q]
    BY <1>3 DEF IInv, Good, Record
  <1>6. SlotsAreKept'
    BY <1>3, <1>4, <1>5, OneCallMoves DEF Kept, Executing, Shift
  <1>7. timers' \in [Tasks -> Nat]
    BY <1>1, TypeParts DEF IInv
  <1> QED
    BY <1>1, <1>2, <1>3, <1>6, <1>7, ReturnsKeeps

LEMMA StartWorkKeeps == ASSUME IInv, NEW r \in Runs, StartWork(r) PROVE IInv'
  <1> DEFINE p == IF run[r].task \in CliTasks THEN "cli" ELSE "work"
  <1>1. /\ run[r].at = "slot" /\ sem.entry[r] = "granted" /\ Writes(r, "in_progress")
        /\ Goes(r, p) /\ UNCHANGED <<timers, sem, stale, cancel>> /\ NoFault
    BY DEF StartWork, At, NoFault
  <1>2. p \in Places \ {"free", "retry"} /\ Kept(p, sem.entry[r])
    BY <1>1 DEF Kept, Executing, Places
  <1> HIDE DEF p
  <1>3. Good(sem') /\ SlotsAreKept'
    BY <1>1, <1>2, GoesHolding
  <1>4. row' \in RowType
    BY <1>1, WritesRow DEF IInv, Status
  <1> QED
    BY <1>1, <1>2, <1>3, <1>4, GoesOn

\* The CLI path releases twice: the slot handed on first may be another's, never one's own.
LEMMA CliReturnsKeeps == ASSUME IInv, NEW r \in Runs, CliReturns(r) PROVE IInv'
  <1> DEFINE u == Sem!Forgotten(sem, r)
             v == Sem!Released(u)
  <1>1. /\ run[r].at = "cli" /\ sem' = Sem!Released(v) /\ Returns(r)
        /\ UNCHANGED <<timers, stale, cancel>> /\ NoFault
    BY DEF CliReturns, At, NoFault
  <1>2. sem.entry[r] = "granted" /\ Good(sem) /\ sem.entry \in [Runs -> Sem!Entries]
    BY <1>1, HoldsSlot DEF Executing, IInv, Good, Record
  <1>3. Good(u) /\ u.entry = [sem.entry EXCEPT ![r] = "none"]
    BY <1>2, ForgottenKeeps
  <1> HIDE DEF u
  <1>4. Good(v) /\ \A q \in Runs : Shift(u.entry[q], v.entry[q])
    BY <1>3, ReleasedKeeps
  <1> HIDE DEF v
  <1>5. Good(sem') /\ \A q \in Runs : Shift(v.entry[q], sem'.entry[q])
    BY <1>1, <1>4, ReleasedKeeps
  <1>6. sem'.entry[r] = "none" /\ \A q \in Runs \ {r} : Shift(sem.entry[q], sem'.entry[q])
    BY <1>2, <1>3, <1>4, <1>5 DEF Shift
  <1>7. run'[r].at = "free" /\ \A q \in Runs \ {r} : run'[q] = run[q]
    BY <1>1, ReturnsTo DEF IInv
  <1>8. SlotsAreKept'
    BY <1>5, <1>6, <1>7, OneCallMoves DEF Kept, Executing
  <1>9. row' \in RowType
    BY WritesRow DEF CliReturns, IInv, Status
  <1>10. timers' \in [Tasks -> Nat]
    BY <1>1, TypeParts DEF IInv
  <1> QED
    BY <1>1, <1>5, <1>8, <1>9, <1>10, ReturnsKeeps

LEMMA CliThrowsKeeps == ASSUME IInv, NEW r \in Runs, CliThrows(r) PROVE IInv'
  <1>1. /\ run[r].at = "cli" /\ Goes(r, "work") /\ Fault /\ UNCHANGED <<row, timers, sem, stale, cancel>>
    BY DEF CliThrows, At
  <1>2. "work" \in Places \ {"free", "retry"} /\ Kept("work", sem.entry[r])
    BY <1>1, HoldsSlot DEF Kept, Executing, Places
  <1>3. Good(sem') /\ SlotsAreKept'
    BY <1>1, <1>2, GoesHolding
  <1> QED
    BY <1>1, <1>2, <1>3, SameRows, GoesOn

LEMMA WorkReturnsKeeps == ASSUME IInv, NEW r \in Runs, WorkReturns(r) PROVE IInv'
  <1>1. /\ run[r].at = "work" /\ GivesBack(r) /\ Returns(r)
        /\ UNCHANGED <<timers, stale, cancel>> /\ NoFault
    BY DEF WorkReturns, At, NoFault, GivesBack
  <1>2. Good(sem') /\ SlotsAreKept'
    BY <1>1, HoldsSlot, GivesBackKeeps DEF Executing
  <1>3. row' \in RowType
    BY WritesRow DEF WorkReturns, IInv, Status
  <1>4. timers' \in [Tasks -> Nat]
    BY <1>1, TypeParts DEF IInv
  <1> QED
    BY <1>1, <1>2, <1>3, <1>4, ReturnsKeeps

LEMMA WorkThrowsKeeps == ASSUME IInv, NEW r \in Runs, WorkThrows(r) PROVE IInv'
  <1>1. PICK p \in {"failing", "failed"} :
          Goes(r, p) /\ (UNCHANGED row \/ Writes(r, "failed"))
    BY DEF WorkThrows
  <1>2. run[r].at # "free" /\ sem.entry[r] = "granted" /\ Fault /\ UNCHANGED <<timers, sem, stale, cancel>>
    BY HoldsSlot DEF WorkThrows, At, Executing
  <1>3. p \in Places \ {"free", "retry"} /\ Kept(p, sem.entry[r])
    BY <1>2 DEF Kept, Executing, Places
  <1>4. Good(sem') /\ SlotsAreKept'
    BY <1>1, <1>2, <1>3, GoesHolding
  <1>5. row' \in RowType
    BY <1>1, SameRows, WritesRow DEF IInv, Status, Ended
  <1> QED
    BY <1>1, <1>2, <1>3, <1>4, <1>5, GoesOn

LEMMA ReadRetriesKeeps == ASSUME IInv, NEW r \in Runs, ReadRetries(r) PROVE IInv'
  <1>1. /\ run[r].at = "failing" /\ UNCHANGED <<timers, sem, stale, cancel>> /\ NoFault
        /\ sem.entry[r] = "granted" /\ run[r].task # NoTask
    BY HoldsSlot DEF ReadRetries, At, NoFault, Executing, IInv, Placed
  <1>2. CASE row[run[r].task].retries < MaxRetries
    <2> DEFINE n == row[run[r].task].retries
    <2>1. run' = [run EXCEPT ![r].at = "retry", ![r].read = n] /\ UNCHANGED row
      BY <1>2 DEF ReadRetries
    <2>2. run \in RunType /\ row \in RowType
      BY TypeParts DEF IInv
    <2>3. run[r].task \in Tasks
      BY <1>1, <2>2 DEF RunType
    <2>4. n \in 0..MaxRetries /\ n < MaxRetries
      BY <1>2, <2>2, <2>3 DEF RowType
    <2> HIDE DEF n
    <2>5. run' \in RunType
      BY <2>1, <2>2, <2>4 DEF RunType, Places
    <2>6. /\ run'[r].at = "retry" /\ run'[r].read = n /\ run'[r].task = run[r].task
          /\ \A q \in Runs \ {r} : run'[q] = run[q]
      BY <2>1, <2>2 DEF RunType
    <2>7. Kept(run'[r].at, sem.entry[r])
      BY <1>1, <2>6 DEF Kept, Executing
    <2>8. Good(sem') /\ SlotsAreKept'
      BY <1>1, <2>6, <2>7, SemStays
    <2>9. timers' \in [Tasks -> Nat] /\ stale' \subseteq Tasks /\ row' \in RowType
      BY <1>1, <2>1, TypeParts DEF IInv
    <2>10. run'[r].at = "free" <=> run'[r].task = NoTask
      BY <1>1, <2>6
    <2>11. run'[r].at = "retry" => run'[r].read < MaxRetries
      BY <2>4, <2>6
    <2> QED
      BY <1>1, <2>5, <2>6, <2>8, <2>9, <2>10, <2>11, CallStep
  <1>3. CASE ~(row[run[r].task].retries < MaxRetries)
    <2>1. Goes(r, "failed") /\ Writes(r, "failed")
      BY <1>3 DEF ReadRetries
    <2>2. "failed" \in Places \ {"free", "retry"} /\ Kept("failed", sem.entry[r])
      BY <1>1 DEF Kept, Executing, Places
    <2>3. Good(sem') /\ SlotsAreKept'
      BY <1>1, <2>1, <2>2, GoesHolding
    <2>4. row' \in RowType
      BY <2>1, WritesRow DEF IInv, Status, Ended
    <2> QED
      BY <1>1, <2>1, <2>2, <2>3, <2>4, GoesOn
  <1> QED
    BY <1>2, <1>3

LEMMA ScheduleRetryKeeps == ASSUME IInv, NEW r \in Runs, ScheduleRetry(r) PROVE IInv'
  <1> DEFINE t == run[r].task
  <1>1. /\ run[r].at = "retry" /\ GivesBack(r) /\ Returns(r) /\ UNCHANGED <<stale, cancel>> /\ NoFault
        /\ row' = [row EXCEPT ![t] = [status |-> "pending", retries |-> run[r].read + 1]]
        /\ timers' = [timers EXCEPT ![t] = @ + 1]
    BY DEF ScheduleRetry, At, NoFault, GivesBack
  <1>2. Good(sem') /\ SlotsAreKept'
    BY <1>1, HoldsSlot, GivesBackKeeps DEF Executing
  <1>3. run[r].read + 1 \in 0..MaxRetries
    BY <1>1, TypeParts, TaskEngineAssumption DEF IInv, Placed, RunType
  <1>4. row' \in RowType
    BY <1>1, <1>3, TypeParts DEF IInv, RowType, Status
  <1>5. timers' \in [Tasks -> Nat]
    <2>1. timers \in [Tasks -> Nat]
      BY TypeParts DEF IInv
    <2>2. t \in Tasks
      BY <1>1, TypeParts DEF IInv, Placed, RunType
    <2> HIDE DEF t
    <2>3. timers' = [timers EXCEPT ![t] = timers[t] + 1] /\ timers[t] + 1 \in Nat
      BY <1>1, <2>1, <2>2
    <2> QED
      BY <2>1, <2>2, <2>3
  <1> QED
    BY <1>1, <1>2, <1>4, <1>5, ReturnsKeeps

LEMMA DrainQueueKeeps == ASSUME IInv, NEW r \in Runs, DrainQueue(r) PROVE IInv'
  <1>1. /\ run[r].at = "failed" /\ sem' = Sem!Drained(sem) /\ Goes(r, "drained") /\ Fault
        /\ UNCHANGED <<row, timers, stale, cancel>>
    BY DEF DrainQueue, At
  <1>2. sem.entry[r] = "granted"
    BY <1>1, HoldsSlot DEF Executing
  <1>3. Good(sem') /\ \A q \in Runs : Shift(sem.entry[q], sem'.entry[q])
    BY <1>1, DrainedKeeps DEF IInv
  <1>4. "drained" \in Places \ {"free", "retry"}
    BY DEF Places
  <1>5. run'[r].at = "drained" /\ \A q \in Runs \ {r} : run'[q] = run[q]
    BY <1>1, <1>4, GoesTo DEF IInv
  <1>6. Kept(run'[r].at, sem'.entry[r])
    BY <1>2, <1>3, <1>5 DEF Kept, Executing, Shift
  <1>7. SlotsAreKept'
    BY <1>3, <1>5, <1>6, OneCallMoves
  <1> QED
    BY <1>1, <1>3, <1>4, <1>7, SameRows, GoesOn

LEMMA FailedReturnsKeeps == ASSUME IInv, NEW r \in Runs, FailedReturns(r) PROVE IInv'
  <1>1. /\ run[r].at \in {"failed", "drained"} /\ GivesBack(r) /\ Returns(r)
        /\ UNCHANGED <<row, timers, stale, cancel>> /\ NoFault
    BY DEF FailedReturns, At, NoFault, GivesBack
  <1>2. Good(sem') /\ SlotsAreKept'
    BY <1>1, HoldsSlot, GivesBackKeeps DEF Executing
  <1>3. timers' \in [Tasks -> Nat]
    BY <1>1, TypeParts DEF IInv
  <1> QED
    BY <1>1, <1>2, <1>3, SameRows, ReturnsKeeps

LEMMA CallKeeps ==
  ASSUME IInv, NEW t \in Tasks, Calls(t), UNCHANGED <<sem, stale, cancel>>,
         row' \in RowType, timers' \in [Tasks -> Nat], Fault \/ NoFault
  PROVE  IInv'
  <1>1. PICK r \in Runs : /\ run[r].at = "free" /\ sem.entry[r] = "none"
                          /\ run'[r].at = "call" /\ run'[r].task = t
                          /\ \A q \in Runs \ {r} : run'[q] = run[q]
    BY CallsFrom DEF IInv
  <1>2. run' \in RunType /\ t # NoTask /\ stale' \subseteq Tasks
    BY CallsFrom, TypeParts, TaskEngineAssumption DEF IInv
  <1>3. Kept(run'[r].at, sem.entry[r])
    BY <1>1 DEF Kept, Executing
  <1>4. Good(sem') /\ SlotsAreKept'
    BY <1>1, <1>3, SemStays
  <1> QED
    BY <1>1, <1>2, <1>4, CallStep

LEMMA TaskStepKeeps ==
  ASSUME IInv, NEW t \in Tasks,
         \/ Create(t) \/ QueueTask(t) \/ ExecuteAgain(t) \/ TimerFires(t)
         \/ CancelReads(t) \/ CancelWrites(t) \/ SweepRow(t)
  PROVE  IInv'
  <1>1. row \in RowType /\ timers \in [Tasks -> Nat] /\ stale \subseteq Tasks /\ cancel \in CancelType
    BY TypeParts DEF IInv
  <1>2. CASE Create(t)
    <2>1. row' \in RowType /\ UNCHANGED <<timers, sem, stale, cancel>> /\ NoFault /\ Calls(t)
      BY <1>1, <1>2 DEF Create, RowType, Status, NoFault
    <2> QED
      BY <1>1, <2>1, CallKeeps
  <1>3. CASE ExecuteAgain(t)
    BY <1>1, <1>3, CallKeeps DEF ExecuteAgain
  <1>4. CASE TimerFires(t)
    <2>1. timers' \in [Tasks -> Nat] /\ UNCHANGED <<row, sem, stale, cancel>> /\ NoFault /\ Calls(t)
      BY <1>1, <1>4 DEF TimerFires, NoFault
    <2> QED
      BY <1>1, <2>1, CallKeeps
  <1>5. CASE QueueTask(t) \/ CancelReads(t) \/ CancelWrites(t) \/ SweepRow(t)
    <2>1. /\ row' \in RowType /\ stale' \subseteq Tasks /\ cancel' \in CancelType
          /\ UNCHANGED <<run, timers, sem, bounds>>
      BY <1>1, <1>5
      DEF QueueTask, CancelReads, CancelWrites, SweepRow, RowType, CancelType, Status, Ended
    <2>2. TypeOK'
      BY <2>1, TypeParts
      DEF IInv, bounds, TypeOK, RowType, RunType, Record, CancelType, Sem!TypeOK
    <2> QED
      BY <2>1, <2>2 DEF IInv, Placed, SlotsAreKept, At, Good
  <1> QED
    BY <1>2, <1>3, <1>4, <1>5

LEMMA QueueTimeoutKeeps == ASSUME IInv, QueueTimeout PROVE IInv'
  <1>1. PICK i \in 1..Len(sem.queue) : sem' = Sem!TimedOut(sem, i)
    BY DEF QueueTimeout
  <1>2. Good(sem') /\ \A q \in Runs : Shift(sem.entry[q], sem'.entry[q])
    BY <1>1, TimedOutKeeps DEF IInv
  <1>3. Fault /\ UNCHANGED <<row, run, timers, stale, cancel>>
    BY DEF QueueTimeout
  <1>4. SlotsAreKept'
    BY <1>2, <1>3, OnlySettles
  <1>5. faults' \in 0..MaxFaults /\ restarts' = restarts /\ sweeps' = sweeps
    BY <1>3, TypeParts, TaskEngineAssumption DEF IInv, Fault
  <1>6. sem' \in Record
    BY <1>2 DEF Good
  <1>7. TypeOK'
    BY <1>3, <1>5, <1>6, TypeParts DEF IInv, TypeOK, RowType, RunType, Record, CancelType, Sem!TypeOK
  <1> QED
    BY <1>2, <1>3, <1>4, <1>7 DEF IInv, Placed

LEMMA SweepProbeKeeps == ASSUME IInv, SweepProbe PROVE IInv'
  <1>1. /\ stale' \subseteq Tasks /\ sweeps' = sweeps + 1 /\ sweeps < MaxSweeps
        /\ UNCHANGED <<row, run, timers, sem, cancel, faults, restarts>>
    BY DEF SweepProbe
  <1>2. TypeOK'
    <2>1. sweeps' \in 0..MaxSweeps
      BY <1>1, TypeParts, TaskEngineAssumption DEF IInv
    <2> QED
      BY <1>1, <2>1, TypeParts DEF IInv, TypeOK, RowType, RunType, Record, CancelType, Sem!TypeOK
  <1> QED
    BY <1>1, <1>2 DEF IInv, Placed, SlotsAreKept, At, Good

\* Where every call is free and the semaphore is new.
LEMMA AllFree ==
  /\ [r \in Runs |-> FreeRun] \in RunType
  /\ Good(Sem!Idle) /\ Sem!Idle \in Record /\ Sem!Idle.queue = <<>>
  /\ \A r \in Runs : Sem!Idle.entry[r] = "none"
  BY IdleKeeps, TaskEngineAssumption DEF RunType, FreeRun, Places, Good, Sem!Idle

LEMMA RestartKeeps == ASSUME IInv, Restart PROVE IInv'
  <1>1. row' \in RowType
    BY TypeParts DEF IInv, Restart, RowType, Status, Ended
  <1>2. Placed' /\ Good(sem') /\ SlotsAreKept' /\ run' \in RunType /\ sem' \in Record
    BY AllFree DEF Restart, Placed, SlotsAreKept, FreeRun, At, Executing
  <1>3. /\ timers' \in [Tasks -> Nat] /\ stale' \subseteq Tasks /\ restarts' \in 0..MaxRestarts
        /\ UNCHANGED <<faults, sweeps>> /\ cancel' \in CancelType
    BY TypeParts, TaskEngineAssumption DEF IInv, Restart, CancelType
  <1>4. TypeOK'
    BY <1>1, <1>2, <1>3, TypeParts DEF IInv, TypeOK, RowType, RunType, Record, CancelType, Sem!TypeOK
  <1> QED
    BY <1>2, <1>4 DEF IInv

LEMMA InitIInv == Init => IInv
  <1> SUFFICES ASSUME Init PROVE IInv
    OBVIOUS
  <1>1. Placed /\ Good(sem) /\ SlotsAreKept /\ run \in RunType /\ sem \in Record
    BY AllFree DEF Init, Placed, SlotsAreKept, FreeRun, At, Executing
  <1>2. row \in RowType /\ cancel \in CancelType
    BY TaskEngineAssumption DEF Init, RowType, CancelType, Status
  <1>3. TypeOK
    BY <1>1, <1>2, TypeParts, TaskEngineAssumption DEF Init
  <1> QED
    BY <1>1, <1>3 DEF IInv

LEMMA NextIInv == IInv /\ [Next]_vars => IInv'
  <1> SUFFICES ASSUME IInv, [Next]_vars PROVE IInv'
    OBVIOUS
  <1>1. ASSUME NEW r \in Runs, RunStep(r) PROVE IInv'
    BY <1>1, NoProviderKeeps, DelegateKeeps, PeerAnswersKeeps, AskForSlotKeeps, RefusedKeeps,
       StartWorkKeeps, CliReturnsKeeps, CliThrowsKeeps, WorkReturnsKeeps, WorkThrowsKeeps,
       ReadRetriesKeeps, ScheduleRetryKeeps, DrainQueueKeeps, FailedReturnsKeeps
    DEF RunStep
  <1>2. CASE UNCHANGED vars
    BY <1>2, TypeParts
    DEF vars, bounds, IInv, TypeOK, RowType, RunType, Record, CancelType, Sem!TypeOK, Placed, Good,
        SlotsAreKept, At
  <1> QED
    BY <1>1, <1>2, TaskStepKeeps, QueueTimeoutKeeps, SweepProbeKeeps, RestartKeeps DEF Next

-----------------------------------------------------------------------------
(* No slot leaks *)

\* What is counted taken is held by calls.  (The CLI path's double release may count fewer.)
Backed(s) == s.current <= Cardinality(Holders(s))

\* One holder has just forgotten its promise, or none has.
LEMMA ReleasedBacked ==
  ASSUME NEW s, Good(s), s.current <= Cardinality(Holders(s)) + 1
  PROVE  Backed(Sem!Released(s))
  <1> DEFINE u == Sem!Released(s)
  <1>1. s.current \in Nat /\ Cardinality(Holders(s)) \in Nat
    BY HoldersAreFinite, TaskEngineAssumption DEF Good, Record
  <1>2. CASE s.current = 0
    BY <1>1, <1>2 DEF Sem!Released, Backed
  <1>3. CASE s.current # 0 /\ s.queue = <<>>
    <2>1. u.current = s.current - 1 /\ u.entry = s.entry
      BY <1>3 DEF Sem!Released, Good, Record
    <2>2. Holders(u) = Holders(s)
      BY <2>1 DEF Holders
    <2> HIDE DEF u
    <2> QED
      BY <1>1, <2>1, <2>2 DEF Backed, u
  <1>4. CASE s.current # 0 /\ s.queue # <<>>
    <2> DEFINE h == Head(s.queue)
    <2>1. u.current = s.current /\ u.entry = [s.entry EXCEPT ![h] = "granted"]
      BY <1>4 DEF Sem!Released, Good, Record
    <2>2. h \in Runs /\ s.entry[h] = "waiting"
      BY <1>4 DEF Good, Record, Sem!InQueue
    <2>3. Holders(u) = Holders(s) \cup {h} /\ h \notin Holders(s)
      BY <2>1, <2>2 DEF Holders, Good, Record
    <2>4. Cardinality(Holders(u)) = Cardinality(Holders(s)) + 1
      BY <2>3, HoldersAreFinite, FS_AddElement
    <2> HIDE DEF u, h
    <2> QED
      BY <1>1, <2>1, <2>4 DEF Backed, u
  <1> QED
    BY <1>2, <1>3, <1>4

LEMMA AcquiredBacked ==
  ASSUME NEW s, Good(s), Backed(s), NEW r \in Runs, s.entry[r] = "none"
  PROVE  Backed(Sem!Acquired(s, r))
  <1> DEFINE u == Sem!Acquired(s, r)
  <1>1. s.current \in Nat /\ Cardinality(Holders(s)) \in Nat
    BY HoldersAreFinite, TaskEngineAssumption DEF Good, Record
  <1>2. CASE s.current < Concurrency
    <2>1. u.current = s.current + 1 /\ u.entry = [s.entry EXCEPT ![r] = "granted"]
      BY <1>2 DEF Sem!Acquired, Good, Record
    <2>2. Holders(u) = Holders(s) \cup {r} /\ r \notin Holders(s)
      BY <2>1 DEF Holders, Good, Record
    <2>3. Cardinality(Holders(u)) = Cardinality(Holders(s)) + 1
      BY <2>2, HoldersAreFinite, FS_AddElement
    <2> HIDE DEF u
    <2> QED
      BY <1>1, <2>1, <2>3 DEF Backed, u
  <1>3. CASE ~(s.current < Concurrency)
    <2>1. u.current = s.current /\ u.entry = [s.entry EXCEPT ![r] = "waiting"]
      BY <1>3 DEF Sem!Acquired, Good, Record
    <2>2. Holders(u) = Holders(s)
      BY <2>1 DEF Holders, Good, Record
    <2> HIDE DEF u
    <2> QED
      BY <2>1, <2>2 DEF Backed, u
  <1> QED
    BY <1>2, <1>3

LEMMA ForgottenBacked ==
  ASSUME NEW s, Good(s), Backed(s), NEW r \in Runs, s.entry[r] # "waiting"
  PROVE  LET u == Sem!Forgotten(s, r) IN
           /\ Good(u) /\ u.current <= Cardinality(Holders(u)) + 1
           /\ s.entry[r] # "granted" => Backed(u)
  <1> DEFINE u == Sem!Forgotten(s, r)
  <1>1. Good(u) /\ u.current = s.current /\ Holders(u) = Holders(s) \ {r}
    BY ForgottenKeeps
  <1>2. s.current \in Nat /\ Cardinality(Holders(s)) \in Nat /\ Cardinality(Holders(u)) \in Nat
    BY HoldersAreFinite, TaskEngineAssumption DEF Good, Record
  <1> HIDE DEF u
  <1>3. Cardinality(Holders(u)) = Cardinality(Holders(s)) - (IF r \in Holders(s) THEN 1 ELSE 0)
    <2>1. CASE r \in Holders(s)
      BY <1>1, <2>1, HoldersAreFinite, FS_RemoveElement
    <2>2. CASE r \notin Holders(s)
      <3>1. Holders(u) = Holders(s)
        BY <1>1, <2>2
      <3> QED
        BY <1>2, <2>2, <3>1
    <2> QED
      BY <2>1, <2>2
  <1>4. r \in Holders(s) <=> s.entry[r] = "granted"
    BY DEF Holders
  <1> QED
    BY <1>1, <1>2, <1>3, <1>4 DEF Backed, u

LEMMA GivesBackBacked ==
  ASSUME IInv, Backed(sem), NEW r \in Runs, run[r].at \in Executing, GivesBack(r)
  PROVE  Backed(sem')
  <1> DEFINE u == Sem!Forgotten(sem, r)
  <1>1. Good(sem) /\ sem.entry[r] # "waiting" /\ sem' = Sem!Released(u)
    BY HoldsSlot DEF IInv, GivesBack
  <1>2. Good(u) /\ u.current <= Cardinality(Holders(u)) + 1
    BY <1>1, ForgottenBacked
  <1> HIDE DEF u
  <1> QED
    BY <1>1, <1>2, ReleasedBacked

LEMMA CliReturnsBacked ==
  ASSUME IInv, Backed(sem), NEW r \in Runs, CliReturns(r)
  PROVE  Backed(sem')
  <1> DEFINE u == Sem!Forgotten(sem, r)
             v == Sem!Released(u)
  <1>1. run[r].at = "cli" /\ Good(sem) /\ sem' = Sem!Released(v)
    BY DEF IInv, CliReturns, At
  <1>2. sem.entry[r] # "waiting"
    BY <1>1, HoldsSlot DEF Executing
  <1>3. Good(u) /\ u.current <= Cardinality(Holders(u)) + 1
    BY <1>1, <1>2, ForgottenBacked
  <1> HIDE DEF u
  <1>4. Good(v) /\ Backed(v)
    BY <1>3, ReleasedKeeps, ReleasedBacked
  <1> HIDE DEF v
  <1>5. v.current \in Nat /\ Cardinality(Holders(v)) \in Nat
    BY <1>4, HoldersAreFinite, TaskEngineAssumption DEF Good, Record
  <1>6. v.current <= Cardinality(Holders(v)) + 1
    BY <1>4, <1>5 DEF Backed
  <1> QED
    BY <1>1, <1>4, <1>6, ReleasedBacked

LEMMA RunStepBacked ==
  ASSUME IInv, Backed(sem), NEW r \in Runs, RunStep(r)
  PROVE  Backed(sem')
  <1>0. Good(sem)
    BY DEF IInv
  <1>1. CASE NoProvider(r) \/ Delegate(r) \/ PeerAnswers(r) \/ StartWork(r) \/ CliThrows(r)
             \/ WorkThrows(r) \/ ReadRetries(r)
    BY <1>1 DEF NoProvider, Delegate, PeerAnswers, StartWork, CliThrows, WorkThrows, ReadRetries
  <1>2. CASE AskForSlot(r)
    <2>1. sem.entry[r] = "none" /\ sem' = Sem!Acquired(sem, r)
      BY <1>2, NoSlotYet DEF AskForSlot, At, Executing
    <2> QED
      BY <1>0, <2>1, AcquiredBacked
  <1>3. CASE Refused(r)
    <2>1. sem.entry[r] = "rejected" /\ sem' = Sem!Forgotten(sem, r)
      BY <1>3 DEF Refused
    <2> QED
      BY <1>0, <2>1, ForgottenBacked
  <1>4. CASE CliReturns(r)
    BY <1>4, CliReturnsBacked
  <1>5. CASE WorkReturns(r) \/ ScheduleRetry(r) \/ FailedReturns(r)
    BY <1>5, GivesBackBacked DEF WorkReturns, ScheduleRetry, FailedReturns, At, Executing
  <1>6. CASE DrainQueue(r)
    <2>1. sem' = Sem!Drained(sem)
      BY <1>6 DEF DrainQueue
    <2> QED
      BY <1>0, <2>1, DrainedKeeps DEF Backed
  <1> QED
    BY <1>1, <1>2, <1>3, <1>4, <1>5, <1>6 DEF RunStep

LEMMA NextBacked ==
  ASSUME IInv, Backed(sem), [Next]_vars PROVE Backed(sem')
  <1>1. ASSUME NEW r \in Runs, RunStep(r) PROVE Backed(sem')
    BY <1>1, RunStepBacked
  <1>2. ASSUME NEW t \in Tasks,
               \/ Create(t) \/ QueueTask(t) \/ ExecuteAgain(t) \/ TimerFires(t)
               \/ CancelReads(t) \/ CancelWrites(t) \/ SweepRow(t)
        PROVE  UNCHANGED sem
    BY <1>2 DEF Create, QueueTask, ExecuteAgain, TimerFires, CancelReads, CancelWrites, SweepRow
  <1>3. CASE QueueTimeout
    <2>1. PICK i \in 1..Len(sem.queue) : sem' = Sem!TimedOut(sem, i)
      BY <1>3 DEF QueueTimeout
    <2> QED
      BY <2>1, TimedOutKeeps DEF IInv, Backed
  <1>4. CASE Restart
    BY <1>4, IdleKeeps, TaskEngineAssumption DEF Restart, Backed, Counted, Good, Record
  <1>5. CASE SweepProbe \/ UNCHANGED vars
    BY <1>5 DEF SweepProbe, vars
  <1> QED
    BY <1>1, <1>2, <1>3, <1>4, <1>5 DEF Next

LEMMA BackedTells == ASSUME IInv, Backed(sem) PROVE NoSlotLeaks
  <1>1. Holding = Holders(sem)
    BY DEF Holding, Holders, IInv, SlotsAreKept
  <1>2. sem.queue # <<>> => sem.current = Concurrency
    BY DEF IInv, SlotsAreKept
  <1> QED
    BY <1>1, <1>2 DEF NoSlotLeaks, Backed

\* On every way out of executeTask - refusals, failures, retries, drains, the CLI path's own
\* release beside the finally, a restart - what the semaphore counts as taken is held by a live
\* call, and a call queues only while that many calls hold the slots (engine.ts, executeTask;
\* semaphore.ts).
THEOREM Slots == Spec => []NoSlotLeaks
  <1>1. Init => IInv /\ Backed(sem)
    BY InitIInv, IdleKeeps, TaskEngineAssumption DEF Init, Backed, Counted, Good, Record
  <1>2. IInv /\ Backed(sem) /\ [Next]_vars => IInv' /\ Backed(sem)'
    <2>1. Backed(sem') => Backed(sem)'
      BY DEF Backed, Holders
    <2> QED
      BY <2>1, NextIInv, NextBacked
  <1>3. IInv /\ Backed(sem) => NoSlotLeaks
    BY BackedTells
  <1> QED
    BY <1>1, <1>2, <1>3, PTL DEF Spec

-----------------------------------------------------------------------------
(* One run per task, and who owns a pending row *)

\* Where a call is once the row no longer waits for it.
Settled == {"peer", "failed", "drained"}

Written(t) == row'[t].status \notin {"none", "pending"}

\* What a step of a call does to its task: the call goes on, or returns, or leaves a timer.
GoesAhead(r, t) ==
  /\ run'[r].task = t /\ UNCHANGED timers
  /\ row'[t].status = row[t].status \/ Written(t)
  /\ run'[r].at \in Settled => run[r].at \in Settled \/ Written(t)

Leaves(r, t) ==
  /\ run'[r].task = NoTask /\ UNCHANGED timers
  /\ Written(t) \/ (row'[t].status = row[t].status
                      /\ (run[r].at \in Settled \/ t \notin Catching))

LeavesTimer(r, t) ==
  /\ run'[r].task = NoTask /\ timers' = [timers EXCEPT ![t] = @ + 1]
  /\ row'[t].status = "pending"

Effect(r, t) ==
  /\ t \in Tasks /\ run[r].task = t
  /\ \A q \in Runs \ {r} : run'[q] = run[q]
  /\ \A u \in Tasks \ {t} : row'[u].status = row[u].status
  /\ GoesAhead(r, t) \/ Leaves(r, t) \/ LeavesTimer(r, t)

LEMMA HasTask ==
  ASSUME IInv, NEW r \in Runs, run[r].at # "free"
  PROVE  run[r].task \in Tasks
  BY TypeParts DEF IInv, Placed, RunType

LEMMA GoesEffect ==
  ASSUME IInv, NEW r \in Runs, run[r].at # "free", NEW p \in Places, Goes(r, p), UNCHANGED timers,
         \/ UNCHANGED row /\ (p \in Settled => run[r].at \in Settled)
         \/ \E s \in Status \ {"none", "pending"} : Writes(r, s)
  PROVE  Effect(r, run[r].task)
  <1> DEFINE t == run[r].task
  <1>1. t \in Tasks
    BY HasTask
  <1>2. run'[r].at = p /\ run'[r].task = t /\ \A q \in Runs \ {r} : run'[q] = run[q]
    BY GoesTo DEF IInv
  <1>3. CASE UNCHANGED row /\ (p \in Settled => run[r].at \in Settled)
    BY <1>1, <1>2, <1>3 DEF Effect, GoesAhead
  <1>4. CASE \E s \in Status \ {"none", "pending"} : Writes(r, s)
    <2>1. Written(t) /\ \A u \in Tasks \ {t} : row'[u].status = row[u].status
      BY <1>1, <1>4, WritesRow DEF IInv, Written
    <2> QED
      BY <1>1, <1>2, <2>1 DEF Effect, GoesAhead
  <1> QED
    BY <1>3, <1>4

LEMMA ReturnsEffect ==
  ASSUME IInv, NEW r \in Runs, run[r].at # "free", Returns(r), UNCHANGED timers,
         \/ UNCHANGED row /\ (run[r].at \in Settled \/ run[r].task \notin Catching)
         \/ \E s \in Status \ {"none", "pending"} : Writes(r, s)
  PROVE  Effect(r, run[r].task)
  <1> DEFINE t == run[r].task
  <1>1. t \in Tasks
    BY HasTask
  <1>2. run'[r].task = NoTask /\ \A q \in Runs \ {r} : run'[q] = run[q]
    BY ReturnsTo DEF IInv
  <1>3. CASE UNCHANGED row /\ (run[r].at \in Settled \/ run[r].task \notin Catching)
    BY <1>1, <1>2, <1>3 DEF Effect, Leaves
  <1>4. CASE \E s \in Status \ {"none", "pending"} : Writes(r, s)
    <2>1. Written(t) /\ \A u \in Tasks \ {t} : row'[u].status = row[u].status
      BY <1>1, <1>4, WritesRow DEF IInv, Written
    <2> QED
      BY <1>1, <1>2, <2>1 DEF Effect, Leaves
  <1> QED
    BY <1>3, <1>4

LEMMA RetryEffect ==
  ASSUME IInv, NEW r \in Runs, ScheduleRetry(r) PROVE Effect(r, run[r].task)
  <1> DEFINE t == run[r].task
  <1>1. /\ run[r].at = "retry" /\ Returns(r)
        /\ row' = [row EXCEPT ![t] = [status |-> "pending", retries |-> run[r].read + 1]]
        /\ timers' = [timers EXCEPT ![t] = @ + 1]
    BY DEF ScheduleRetry, At, GivesBack
  <1>2. t \in Tasks
    BY <1>1, HasTask
  <1>3. run'[r].task = NoTask /\ \A q \in Runs \ {r} : run'[q] = run[q]
    BY <1>1, ReturnsTo DEF IInv
  <1>4. row'[t].status = "pending" /\ \A u \in Tasks \ {t} : row'[u].status = row[u].status
    BY <1>1, <1>2, TypeParts DEF IInv, RowType
  <1> QED
    BY <1>1, <1>2, <1>3, <1>4 DEF Effect, LeavesTimer

LEMMA ReadEffect ==
  ASSUME IInv, NEW r \in Runs, ReadRetries(r) PROVE Effect(r, run[r].task)
  <1> DEFINE n == row[run[r].task].retries
  <1>1. run[r].at = "failing" /\ UNCHANGED timers
    BY DEF ReadRetries, At
  <1>2. CASE n < MaxRetries
    <2>1. run' = [run EXCEPT ![r].at = "retry", ![r].read = n] /\ UNCHANGED row
      BY <1>2 DEF ReadRetries
    <2> HIDE DEF n
    <2>2. /\ run'[r].at = "retry" /\ run'[r].task = run[r].task
          /\ \A q \in Runs \ {r} : run'[q] = run[q]
      BY <2>1, TypeParts DEF IInv, RunType
    <2> QED
      BY <1>1, <2>1, <2>2, HasTask DEF Effect, GoesAhead, Settled
  <1>3. CASE ~(n < MaxRetries)
    <2>1. Goes(r, "failed") /\ Writes(r, "failed")
      BY <1>3 DEF ReadRetries
    <2> QED
      BY <1>1, <2>1, GoesEffect DEF Places, Status, Ended
  <1> QED
    BY <1>2, <1>3

LEMMA RunStepEffect ==
  ASSUME IInv, NEW r \in Runs, RunStep(r) PROVE Effect(r, run[r].task)
  <1> DEFINE ToWrite == Status \ {"none", "pending"}
  <1>1. Ended \cup {"paused", "in_progress"} \subseteq ToWrite
    BY DEF Status, Ended
  <1>2. CASE NoProvider(r)
    BY <1>1, <1>2, ReturnsEffect DEF NoProvider, At, Ended
  <1>3. CASE Delegate(r)
    <2>1. "peer" \in Places
      BY DEF Places
    <2> QED
      BY <1>1, <1>3, <2>1, GoesEffect DEF Delegate, At
  <1>4. CASE PeerAnswers(r)
    BY <1>1, <1>4, ReturnsEffect DEF PeerAnswers, At, Ended, Settled
  <1>5. CASE AskForSlot(r)
    BY <1>5, GoesEffect DEF AskForSlot, At, Places, Settled
  <1>6. CASE Refused(r)
    BY <1>1, <1>6, ReturnsEffect DEF Refused, At, Ended
  <1>7. CASE StartWork(r)
    <2> DEFINE p == IF run[r].task \in CliTasks THEN "cli" ELSE "work"
    <2>1. p \in Places
      BY DEF Places
    <2>2. Goes(r, p)
      BY <1>7 DEF StartWork
    <2> HIDE DEF p
    <2> QED
      BY <1>1, <1>7, <2>1, <2>2, GoesEffect DEF StartWork, At
  <1>8. CASE CliReturns(r)
    BY <1>1, <1>8, ReturnsEffect DEF CliReturns, At
  <1>9. CASE CliThrows(r)
    BY <1>9, GoesEffect DEF CliThrows, At, Places, Settled
  <1>10. CASE WorkReturns(r)
    BY <1>1, <1>10, ReturnsEffect DEF WorkReturns, At, GivesBack
  <1>11. CASE WorkThrows(r)
    <2>1. run[r].at # "free" /\ UNCHANGED timers /\ {"failing", "failed"} \subseteq Places
      BY <1>11 DEF WorkThrows, At, Places
    <2>2. CASE Goes(r, "failing") /\ UNCHANGED row
      BY <2>1, <2>2, GoesEffect DEF Settled
    <2>3. CASE Goes(r, "failed") /\ Writes(r, "failed")
      BY <1>1, <2>1, <2>3, GoesEffect DEF Ended
    <2> QED
      BY <1>11, <2>2, <2>3 DEF WorkThrows
  <1>12. CASE DrainQueue(r)
    BY <1>12, GoesEffect DEF DrainQueue, At, Places, Settled
  <1>13. CASE FailedReturns(r)
    BY <1>13, ReturnsEffect DEF FailedReturns, At, GivesBack, Settled
  <1> QED
    BY <1>2, <1>3, <1>4, <1>5, <1>6, <1>7, <1>8, <1>9, <1>10, <1>11, <1>12, <1>13, ReadEffect,
       RetryEffect DEF RunStep

\* Of tasks nobody executes by hand: one call, or one timer and no call, and neither before
\* the row was created.
Single ==
  /\ \A q, r \in Runs : run[q].task # NoTask /\ run[q].task = run[r].task => q = r
  /\ \A t \in Tasks :
       /\ timers[t] <= 1
       /\ timers[t] = 1 \/ row[t].status = "none" => \A r \in Runs : run[r].task # t
       /\ row[t].status = "none" => timers[t] = 0

LEMMA InitSingle == Init => Single
  BY TaskEngineAssumption DEF Init, Single, FreeRun

LEMMA CallSingle ==
  ASSUME IInv, Single, Reexecute = FALSE, NEW t \in Tasks, Create(t) \/ TimerFires(t)
  PROVE  Single'
  <1>1. PICK r \in Runs : /\ run[r].at = "free" /\ run'[r].task = t
                          /\ \A q \in Runs \ {r} : run'[q] = run[q]
    BY CallsFrom DEF IInv, Create, TimerFires
  <1>2. timers \in [Tasks -> Nat] /\ row \in RowType /\ t # NoTask
    BY TypeParts, TaskEngineAssumption DEF IInv
  <1>3. \A q \in Runs : run[q].task # t
    BY <1>2 DEF Create, TimerFires, Single
  <1>4. timers'[t] = 0 /\ row'[t].status # "none"
        /\ \A u \in Tasks \ {t} : timers'[u] = timers[u] /\ row'[u].status = row[u].status
    <2>1. CASE Create(t)
      BY <1>2, <2>1 DEF Create, RowType, Single
    <2>2. CASE TimerFires(t)
      BY <1>2, <2>2 DEF TimerFires, Single
    <2> QED
      BY <2>1, <2>2
  <1>5. \A q, u \in Runs : run'[q].task # NoTask /\ run'[q].task = run'[u].task => q = u
    BY <1>1, <1>3 DEF Single
  <1>6. ASSUME NEW u \in Tasks
        PROVE  /\ timers'[u] <= 1
               /\ timers'[u] = 1 \/ row'[u].status = "none" => \A q \in Runs : run'[q].task # u
               /\ row'[u].status = "none" => timers'[u] = 0
    BY <1>1, <1>4 DEF Single
  <1> QED
    BY <1>5, <1>6 DEF Single

LEMMA RunStepSingle ==
  ASSUME IInv, Single, NEW r \in Runs, RunStep(r) PROVE Single'
  <1> DEFINE t == run[r].task
  <1>1. Effect(r, t) /\ t \in Tasks /\ t # NoTask
    BY RunStepEffect, TaskEngineAssumption DEF Effect
  <1>2. timers \in [Tasks -> Nat] /\ timers[t] = 0 /\ row[t].status # "none"
    BY <1>1, TypeParts DEF IInv, Single
  <1>3. run'[r].task \in {t, NoTask} /\ \A q \in Runs \ {r} : run'[q].task = run[q].task
    BY <1>1 DEF Effect, GoesAhead, Leaves, LeavesTimer
  <1>4. \A q, u \in Runs : run'[q].task # NoTask /\ run'[q].task = run'[u].task => q = u
    BY <1>1, <1>3 DEF Single
  <1>5. /\ row'[t].status # "none"
        /\ timers'[t] = 0 \/ (timers'[t] = 1 /\ run'[r].task = NoTask)
        /\ \A u \in Tasks \ {t} : timers'[u] = timers[u] /\ row'[u].status = row[u].status
    BY <1>1, <1>2 DEF Effect, GoesAhead, Leaves, LeavesTimer, Written
  <1>6. \A q \in Runs \ {r} : run'[q].task # t
    BY <1>1, <1>3 DEF Single
  <1> HIDE DEF t
  <1>7. ASSUME NEW u \in Tasks
        PROVE  /\ timers'[u] <= 1
               /\ timers'[u] = 1 \/ row'[u].status = "none" => \A q \in Runs : run'[q].task # u
               /\ row'[u].status = "none" => timers'[u] = 0
    <2>1. CASE u = t
      BY <1>1, <1>5, <1>6, <2>1
    <2>2. CASE u # t
      <3>1. timers'[u] = timers[u] /\ row'[u].status = row[u].status
        BY <1>5, <2>2
      <3>2. \A q \in Runs : run[q].task # u => run'[q].task # u
        BY <1>3, <2>2, TaskEngineAssumption
      <3> QED
        BY <3>1, <3>2 DEF Single
    <2> QED
      BY <2>1, <2>2
  <1> QED
    BY <1>4, <1>7 DEF Single

\* Whoever writes a row, no row becomes "none" again, a row that is only queued gets no call, and
\* the restart frees every call.
LEMMA OthersSingle ==
  ASSUME IInv, Single, SweepProbe \/ QueueTimeout \/ Restart \/ UNCHANGED vars
                         \/ \E t \in Tasks : QueueTask(t) \/ CancelReads(t)
                                               \/ CancelWrites(t) \/ SweepRow(t)
  PROVE  Single'
  <1>0. row \in RowType
    BY TypeParts DEF IInv
  <1>1. CASE SweepProbe \/ QueueTimeout \/ UNCHANGED vars
    BY <1>1 DEF SweepProbe, QueueTimeout, vars, Single
  <1>2. CASE Restart
    <2>1. /\ \A r \in Runs : run'[r].task = NoTask
          /\ \A t \in Tasks : timers'[t] = 0
      BY <1>2 DEF Restart, FreeRun
    <2> QED
      BY <2>1, TaskEngineAssumption DEF Single
  <1>3. CASE \E t \in Tasks : QueueTask(t) \/ CancelReads(t) \/ CancelWrites(t) \/ SweepRow(t)
    <2>1. PICK t \in Tasks : QueueTask(t) \/ CancelReads(t) \/ CancelWrites(t) \/ SweepRow(t)
      BY <1>3
    <2>2. UNCHANGED <<run, timers>> /\ \A u \in Tasks : row'[u].status = "none" => row[u].status = "none"
      BY <1>0, <2>1 DEF QueueTask, CancelReads, CancelWrites, SweepRow, RowType
    <2> QED
      BY <2>2 DEF Single
  <1> QED
    BY <1>1, <1>2, <1>3

LEMMA NextSingle ==
  ASSUME IInv, Single, Reexecute = FALSE, [Next]_vars PROVE Single'
  <1>1. ASSUME NEW r \in Runs, RunStep(r) PROVE Single'
    BY <1>1, RunStepSingle
  <1>2. ASSUME NEW t \in Tasks, Create(t) \/ TimerFires(t) PROVE Single'
    BY <1>2, CallSingle
  <1>3. ASSUME NEW t \in Tasks, ExecuteAgain(t) PROVE FALSE
    BY <1>3 DEF ExecuteAgain
  <1> QED
    BY <1>1, <1>2, <1>3, OthersSingle DEF Next

LEMMA SingleTells == ASSUME IInv, Single PROVE OneRunPerTask
  <1> SUFFICES ASSUME NEW t \in Tasks PROVE Cardinality(RunsOf(t)) + timers[t] <= 1
    BY DEF OneRunPerTask
  <1>1. timers[t] \in Nat /\ timers[t] <= 1 /\ t # NoTask
    BY TypeParts, TaskEngineAssumption DEF IInv, Single
  <1>2. CASE RunsOf(t) = {}
    BY <1>1, <1>2, FS_EmptySet
  <1>3. CASE RunsOf(t) # {}
    <2>1. PICK r \in Runs : run[r].task = t
      BY <1>3 DEF RunsOf
    <2>2. RunsOf(t) = {r}
      BY <1>1, <2>1 DEF RunsOf, Single
    <2>3. Cardinality(RunsOf(t)) = 1
      BY <2>2, FS_Singleton
    <2>4. timers[t] # 1
      BY <2>1 DEF Single
    <2> QED
      BY <1>1, <2>3, <2>4
  <1> QED
    BY <1>2, <1>3

\* Unless POST /api/tasks/:id/execute is used, a task never has two calls, two timers, or a
\* timer beside a call, whatever is refused, fails, is swept or dies (engine.ts, executeTask;
\* task-failure.ts, the retry).
THEOREM OneRun ==
  ASSUME Reexecute = FALSE
  PROVE  Spec => []OneRunPerTask
  <1>1. Init => IInv /\ Single
    BY InitIInv, InitSingle
  <1>2. IInv /\ Single /\ [Next]_vars => IInv' /\ Single'
    BY NextIInv, NextSingle
  <1>3. IInv /\ Single => OneRunPerTask
    BY SingleTells
  <1> QED
    BY <1>1, <1>2, <1>3, PTL DEF Spec

\* With callers that catch, and neither sweeps nor restarts.
Owned ==
  /\ stale = {} /\ PendingIsOwned
  /\ \A r \in Runs : run[r].at \in Settled => row[run[r].task].status # "pending"

Undisturbed == Reexecute = FALSE /\ Catching = Tasks /\ MaxRestarts = 0 /\ MaxSweeps = 0

LEMMA InitOwned == Init => Owned
  BY DEF Init, Owned, PendingIsOwned, FreeRun, Settled

LEMMA CallOwned ==
  ASSUME IInv, Single, Owned, Undisturbed, NEW t \in Tasks, Create(t) \/ TimerFires(t)
  PROVE  Owned'
  <1>1. PICK r \in Runs : /\ run[r].at = "free" /\ run'[r].at = "call" /\ run'[r].task = t
                          /\ \A q \in Runs \ {r} : run'[q] = run[q]
    BY CallsFrom DEF IInv, Create, TimerFires
  <1>2. timers \in [Tasks -> Nat] /\ row \in RowType /\ t # NoTask
    BY TypeParts, TaskEngineAssumption DEF IInv
  <1>3. \A q \in Runs : run[q].task # t
    BY <1>2 DEF Create, TimerFires, Single
  <1>4. /\ timers'[t] = 0 /\ UNCHANGED <<stale, cancel>>
        /\ \A u \in Tasks \ {t} : timers'[u] = timers[u] /\ row'[u] = row[u]
    <2>1. CASE Create(t)
      BY <1>2, <2>1 DEF Create, RowType, Single
    <2>2. CASE TimerFires(t)
      BY <1>2, <2>2 DEF TimerFires, Single
    <2> QED
      BY <2>1, <2>2
  <1>5. \A u \in Tasks \ {t}, q \in Runs : run[q].task = u => run'[q].task = u
    <2>1. run[r].task = NoTask
      BY <1>1 DEF IInv, Placed
    <2> QED
      BY <1>1, <2>1, TaskEngineAssumption
  <1>6. ASSUME NEW u \in Tasks
        PROVE  /\ row'[u].status = "pending" /\ u \notin Backlog => RunsOf(u)' # {} \/ timers'[u] > 0
               /\ timers'[u] > 0 => row'[u].status = "pending" \/ cancel'[u] = "done"
    <2>1. CASE u = t
      BY <1>1, <1>4, <2>1 DEF RunsOf
    <2>2. CASE u # t
      BY <1>4, <1>5, <2>2 DEF RunsOf, Owned, PendingIsOwned
    <2> QED
      BY <2>1, <2>2
  <1>7. ASSUME NEW q \in Runs, run'[q].at \in Settled
        PROVE  row'[run'[q].task].status # "pending"
    <2>1. q # r /\ run'[q] = run[q] /\ run[q].at \in Settled
      BY <1>1, <1>7 DEF Settled
    <2>2. run[q].task \in Tasks \ {t}
      BY <1>3, <2>1, HasTask DEF Settled
    <2> QED
      BY <1>4, <2>1, <2>2 DEF Owned
  <1> QED
    BY <1>4, <1>6, <1>7 DEF Owned, PendingIsOwned

LEMMA RunStepOwned ==
  ASSUME IInv, IInv', Single, Owned, Undisturbed, NEW r \in Runs, RunStep(r),
         UNCHANGED <<stale, cancel>>
  PROVE  Owned'
  <1> DEFINE t == run[r].task
  <1>1. Effect(r, t) /\ t \in Tasks /\ t # NoTask
    BY RunStepEffect, TaskEngineAssumption DEF Effect
  <1>2. timers \in [Tasks -> Nat] /\ timers[t] = 0
    BY <1>1, TypeParts DEF IInv, Single
  <1>3. run'[r].task \in {t, NoTask} /\ \A q \in Runs \ {r} : run'[q] = run[q]
    BY <1>1 DEF Effect, GoesAhead, Leaves, LeavesTimer
  <1>4. \A u \in Tasks \ {t} : timers'[u] = timers[u] /\ row'[u].status = row[u].status
    BY <1>1, <1>2 DEF Effect, GoesAhead, Leaves, LeavesTimer
  <1>5. /\ row'[t].status = "pending" => run'[r].task = t \/ timers'[t] > 0
        /\ timers'[t] > 0 => row'[t].status = "pending"
        /\ run'[r].task = t /\ run'[r].at \in Settled => row'[t].status # "pending"
    <2>1. CASE GoesAhead(r, t)
      BY <1>2, <2>1 DEF GoesAhead, Written, Owned
    <2>2. CASE Leaves(r, t)
      BY <1>1, <1>2, <2>2 DEF Leaves, Written, Owned, Undisturbed
    <2>3. CASE LeavesTimer(r, t)
      BY <1>1, <1>2, <2>3 DEF LeavesTimer
    <2> QED
      BY <1>1, <2>1, <2>2, <2>3 DEF Effect
  <1>6. \A q \in Runs \ {r} : run[q].task # t
    BY <1>1 DEF Single
  <1> HIDE DEF t
  <1>7. ASSUME NEW u \in Tasks
        PROVE  /\ row'[u].status = "pending" /\ u \notin Backlog => RunsOf(u)' # {} \/ timers'[u] > 0
               /\ timers'[u] > 0 => row'[u].status = "pending" \/ cancel'[u] = "done"
    <2>1. CASE u = t
      BY <1>5, <2>1 DEF RunsOf
    <2>2. CASE u # t
      <3>1. \A q \in Runs : run[q].task = u => run'[q].task = u
        BY <1>3, <2>2 DEF t
      <3> QED
        BY <1>4, <2>2, <3>1 DEF RunsOf, Owned, PendingIsOwned
    <2> QED
      BY <2>1, <2>2
  <1>8. ASSUME NEW q \in Runs, run'[q].at \in Settled
        PROVE  row'[run'[q].task].status # "pending"
    <2>1. run'[q].task # NoTask
      BY <1>8 DEF IInv, Placed, Settled
    <2>2. CASE q = r
      BY <1>3, <1>5, <1>8, <2>1, <2>2
    <2>3. CASE q # r
      <3>1. run'[q] = run[q] /\ run[q].at \in Settled
        BY <1>3, <1>8, <2>3
      <3>2. run[q].task \in Tasks \ {t}
        BY <1>6, <2>3, <3>1, HasTask DEF Settled
      <3> QED
        BY <1>4, <3>1, <3>2 DEF Owned
    <2> QED
      BY <2>2, <2>3
  <1> QED
    BY <1>7, <1>8 DEF Owned, PendingIsOwned

\* The backlog, and a cancellation, which may leave a timer behind.
LEMMA UserWritesOwned ==
  ASSUME IInv, Single, Owned, NEW t \in Tasks, QueueTask(t) \/ CancelReads(t) \/ CancelWrites(t)
  PROVE  Owned'
  <1>1. /\ row \in RowType /\ cancel \in CancelType
        /\ \A r \in Runs : run[r].at # "free" => run[r].task \in Tasks
    BY TypeParts, HasTask DEF IInv
  <1>2. UNCHANGED <<run, timers, stale>>
    BY DEF QueueTask, CancelReads, CancelWrites
  <1>3. CASE QueueTask(t)
    <2>1. /\ t \in Backlog /\ timers[t] = 0 /\ \A r \in Runs : run[r].task # t
          /\ \A u \in Tasks \ {t} : row'[u] = row[u]
          /\ UNCHANGED cancel
      BY <1>1, <1>3 DEF QueueTask, RowType, Single
    <2> QED
      BY <1>1, <1>2, <2>1 DEF Owned, PendingIsOwned, RunsOf, Settled
  <1>4. CASE CancelReads(t)
    <2>1. UNCHANGED row /\ \A u \in Tasks : cancel[u] = "done" => cancel'[u] = "done"
      BY <1>1, <1>4 DEF CancelReads, CancelType
    <2> QED
      BY <1>2, <2>1 DEF Owned, PendingIsOwned, RunsOf
  <1>5. CASE CancelWrites(t)
    <2>1. /\ row'[t].status = "failed" /\ \A u \in Tasks \ {t} : row'[u] = row[u]
          /\ cancel'[t] = "done" /\ \A u \in Tasks \ {t} : cancel'[u] = cancel[u]
      BY <1>1, <1>5 DEF CancelWrites, RowType, CancelType
    <2>2. \A u \in Tasks : row'[u].status = "pending" => u # t
      BY <2>1
    <2> QED
      BY <1>1, <1>2, <2>1, <2>2 DEF Owned, PendingIsOwned, RunsOf, Settled
  <1> QED
    BY <1>3, <1>4, <1>5

LEMMA NextOwned ==
  ASSUME IInv, IInv', Single, Owned, Undisturbed, [Next]_vars PROVE Owned'
  <1>1. ASSUME NEW r \in Runs, RunStep(r) PROVE Owned'
    <2>1. UNCHANGED <<stale, cancel>>
      BY <1>1
      DEF RunStep, NoProvider, Delegate, PeerAnswers, AskForSlot, Refused, StartWork, CliReturns,
          CliThrows, WorkReturns, WorkThrows, ReadRetries, ScheduleRetry, DrainQueue, FailedReturns
    <2> QED
      BY <1>1, <2>1, RunStepOwned
  <1>2. ASSUME NEW t \in Tasks, Create(t) \/ TimerFires(t) PROVE Owned'
    BY <1>2, CallOwned
  <1>3. ASSUME NEW t \in Tasks, ExecuteAgain(t) \/ SweepRow(t) PROVE FALSE
    BY <1>3 DEF ExecuteAgain, SweepRow, Undisturbed, Owned
  <1>6. ASSUME NEW t \in Tasks, QueueTask(t) \/ CancelReads(t) \/ CancelWrites(t) PROVE Owned'
    BY <1>6, UserWritesOwned
  <1>4. ~SweepProbe /\ ~Restart
    BY TypeParts DEF IInv, SweepProbe, Restart, Undisturbed
  <1>5. CASE QueueTimeout \/ UNCHANGED vars
    BY <1>5 DEF QueueTimeout, vars, Owned, PendingIsOwned, RunsOf
  <1> QED
    BY <1>1, <1>2, <1>3, <1>4, <1>5, <1>6 DEF Next

\* Where the callers catch, and no sweep or restart disturbs the rows, a pending row is in the
\* backlog or has a call or a retry timer, and a timer is only for a pending row or a task its
\* user cancelled (task-failure.ts, the retry; the catch of the routes that execute; tasks.ts,
\* scheduleTask and cancelTask).
THEOREM Ownership ==
  ASSUME Undisturbed
  PROVE  Spec => []PendingIsOwned
  <1>1. Init => IInv /\ Single /\ Owned
    BY InitIInv, InitSingle, InitOwned
  <1>2. IInv /\ Single /\ Owned /\ [Next]_vars => IInv' /\ Single' /\ Owned'
    BY NextIInv, NextSingle, NextOwned DEF Undisturbed
  <1>3. Owned => PendingIsOwned
    BY DEF Owned
  <1> QED
    BY <1>1, <1>2, <1>3, PTL DEF Spec

-----------------------------------------------------------------------------
(* Without the CLI path, the engine is a client of its semaphore *)

Native == \A r \in Runs : run[r].at # "cli"

LEMMA SemNextCounts ==
  ASSUME Good(sem), Counted(sem), Sem!Next
  PROVE  Counted(sem')
  <1>1. ASSUME NEW r \in Runs, Sem!Acquire(r) PROVE Counted(sem')
    BY <1>1, AcquiredKeeps DEF Sem!Acquire
  <1>2. ASSUME NEW r \in Runs, Sem!Release(r) PROVE Counted(sem')
    <2> DEFINE u == Sem!Forgotten(sem, r)
    <2>1. r \in Holders(sem) /\ sem.entry[r] # "waiting"
      BY <1>2 DEF Sem!Release, Holders
    <2>2. Good(u) /\ u.current = sem.current /\ Holders(u) = Holders(sem) \ {r}
      BY <2>1, ForgottenKeeps
    <2>3. sem' = Sem!Released(u)
      BY <1>2 DEF Sem!Release
    <2> HIDE DEF u
    <2>4. u.current # 0 /\ Cardinality(Holders(u)) = u.current - 1
      <3>1. Cardinality(Holders(sem) \ {r}) = Cardinality(Holders(sem)) - 1
        BY <2>1, HoldersAreFinite, FS_RemoveElement
      <3>2. Cardinality(Holders(sem)) # 0
        BY <2>1, HoldersAreFinite
      <3> QED
        BY <2>2, <3>1, <3>2 DEF Counted
    <2> QED
      BY <2>2, <2>3, <2>4, ReleasedKeeps
  <1>3. ASSUME NEW r \in Runs, Sem!Notice(r) PROVE Counted(sem')
    <2>1. sem.entry[r] = "rejected" /\ sem' = Sem!Forgotten(sem, r)
      BY <1>3 DEF Sem!Notice
    <2>2. sem'.current = sem.current /\ Holders(sem') = Holders(sem) \ {r}
      BY <2>1, ForgottenKeeps
    <2>3. r \notin Holders(sem)
      BY <2>1 DEF Holders
    <2>4. Holders(sem') = Holders(sem)
      BY <2>2, <2>3
    <2> QED
      BY <2>2, <2>4 DEF Counted
  <1>4. CASE Sem!Timeout
    BY <1>4, TimedOutKeeps DEF Sem!Timeout
  <1>5. CASE Sem!RejectAll
    BY <1>5, DrainedKeeps DEF Sem!RejectAll
  <1> QED
    BY <1>1, <1>2, <1>3, <1>4, <1>5 DEF Sem!Next

LEMMA GivesBackReleases ==
  ASSUME IInv, NEW r \in Runs, run[r].at \in Executing, GivesBack(r)
  PROVE  Sem!Next
  BY HoldsSlot DEF GivesBack, Sem!Next, Sem!Release

LEMMA RunStepSem ==
  ASSUME IInv, Native, NEW r \in Runs, RunStep(r)
  PROVE  Sem!Next \/ UNCHANGED sem
  <1>1. CASE NoProvider(r) \/ Delegate(r) \/ PeerAnswers(r) \/ StartWork(r) \/ CliThrows(r)
             \/ WorkThrows(r) \/ ReadRetries(r)
    BY <1>1 DEF NoProvider, Delegate, PeerAnswers, StartWork, CliThrows, WorkThrows, ReadRetries
  <1>2. CASE AskForSlot(r)
    <2>1. sem.entry[r] = "none" /\ sem' = Sem!Acquired(sem, r)
      BY <1>2, NoSlotYet DEF AskForSlot, At, Executing
    <2> QED
      BY <2>1 DEF Sem!Next, Sem!Acquire
  <1>3. CASE Refused(r)
    BY <1>3 DEF Refused, Sem!Next, Sem!Notice
  <1>4. CASE CliReturns(r)
    BY <1>4 DEF CliReturns, At, Native
  <1>5. CASE WorkReturns(r)
    BY <1>5, GivesBackReleases DEF WorkReturns, At, Executing
  <1>6. CASE ScheduleRetry(r)
    BY <1>6, GivesBackReleases DEF ScheduleRetry, At, Executing
  <1>7. CASE FailedReturns(r)
    BY <1>7, GivesBackReleases DEF FailedReturns, At, Executing
  <1>8. CASE DrainQueue(r)
    <2>1. sem' = Sem!Drained(sem) /\ Good(sem)
      BY <1>8 DEF DrainQueue, IInv
    <2>2. CASE sem.queue = <<>>
      BY <2>1, <2>2, DrainedKeeps
    <2>3. CASE sem.queue # <<>>
      BY <2>1, <2>3 DEF Sem!Next, Sem!RejectAll
    <2> QED
      BY <2>2, <2>3
  <1> QED
    BY <1>1, <1>2, <1>3, <1>4, <1>5, <1>6, <1>7, <1>8 DEF RunStep

LEMMA NextSem ==
  ASSUME IInv, Native, [Next]_vars, ~Restart
  PROVE  Sem!Next \/ UNCHANGED sem
  <1>1. ASSUME NEW r \in Runs, RunStep(r) PROVE Sem!Next \/ UNCHANGED sem
    BY <1>1, RunStepSem
  <1>2. ASSUME NEW t \in Tasks,
               \/ Create(t) \/ QueueTask(t) \/ ExecuteAgain(t) \/ TimerFires(t)
               \/ CancelReads(t) \/ CancelWrites(t) \/ SweepRow(t)
        PROVE  UNCHANGED sem
    BY <1>2 DEF Create, QueueTask, ExecuteAgain, TimerFires, CancelReads, CancelWrites, SweepRow
  <1>3. CASE QueueTimeout
    BY <1>3 DEF QueueTimeout, Sem!Next, Sem!Timeout
  <1>4. CASE SweepProbe \/ UNCHANGED vars
    BY <1>4 DEF SweepProbe, vars
  <1> QED
    BY <1>1, <1>2, <1>3, <1>4 DEF Next

LEMMA NextNative ==
  ASSUME IInv, IInv', Native, CliTasks = {}, [Next]_vars
  PROVE  Native'
  <1>1. ASSUME NEW r \in Runs, RunStep(r) PROVE Native'
    <2>1. \A q \in Runs \ {r} : run'[q] = run[q]
      BY <1>1, RunStepEffect DEF Effect
    <2>2. run'[r].at # "cli"
      <3>1. ASSUME NEW p \in Places \ {"cli"}, Goes(r, p) PROVE run'[r].at # "cli"
        BY <3>1, GoesTo DEF IInv
      <3>2. ASSUME Returns(r) PROVE run'[r].at # "cli"
        BY <3>2, ReturnsTo DEF IInv
      <3>3. CASE ReadRetries(r)
        <4>1. ASSUME NEW n, run' = [run EXCEPT ![r].at = "retry", ![r].read = n]
              PROVE  run'[r].at # "cli"
          BY <4>1, TypeParts DEF IInv, RunType
        <4> QED
          BY <3>1, <3>3, <4>1 DEF ReadRetries, Places
      <3>4. CASE NoProvider(r) \/ PeerAnswers(r) \/ Refused(r) \/ CliReturns(r) \/ WorkReturns(r)
                 \/ ScheduleRetry(r) \/ FailedReturns(r)
        BY <3>2, <3>4 DEF NoProvider, PeerAnswers, Refused, CliReturns, WorkReturns,
                          ScheduleRetry, FailedReturns, GivesBack
      <3>5. CASE Delegate(r) \/ AskForSlot(r) \/ CliThrows(r) \/ WorkThrows(r) \/ DrainQueue(r)
        BY <3>1, <3>5 DEF Delegate, AskForSlot, CliThrows, WorkThrows, DrainQueue, Places
      <3>6. CASE StartWork(r)
        <4>1. Goes(r, "work")
          BY <3>6 DEF StartWork
        <4> QED
          BY <3>1, <4>1 DEF Places
      <3> QED
        BY <1>1, <3>3, <3>4, <3>5, <3>6 DEF RunStep
    <2> QED
      BY <2>1, <2>2 DEF Native
  <1>2. ASSUME NEW t \in Tasks, Calls(t) PROVE Native'
    BY <1>2, CallsFrom DEF IInv, Native
  <1>3. CASE Restart
    BY <1>3 DEF Restart, FreeRun, Native
  <1>4. CASE \/ QueueTimeout \/ SweepProbe \/ UNCHANGED vars
             \/ \E t \in Tasks : QueueTask(t) \/ CancelReads(t) \/ CancelWrites(t) \/ SweepRow(t)
    BY <1>4
    DEF QueueTimeout, SweepProbe, vars, QueueTask, CancelReads, CancelWrites, SweepRow, Native
  <1> QED
    BY <1>1, <1>2, <1>3, <1>4 DEF Next, Create, ExecuteAgain, TimerFires

LEMMA InitNative == Init => Native /\ Counted(sem)
  BY IdleKeeps DEF Init, Native, FreeRun

LEMMA NextCounted ==
  ASSUME IInv, Native, Counted(sem), [Next]_vars
  PROVE  Counted(sem)'
  <1>1. CASE Restart
    BY <1>1, IdleKeeps DEF Restart, Counted, Holders
  <1>2. CASE ~Restart
    <2>1. Sem!Next \/ UNCHANGED sem
      BY <1>2, NextSem
    <2>2. CASE Sem!Next
      BY <2>2, SemNextCounts DEF IInv, Counted, Holders
    <2> QED
      BY <2>1, <2>2 DEF Counted, Holders
  <1> QED
    BY <1>1, <1>2

LEMMA CountedTells ==
  ASSUME IInv, Counted(sem) PROVE RunningWithinSlots
  <1> DEFINE E == {r \in Runs : At(r, Executing)}
  <1>1. E \subseteq Holders(sem)
    BY HoldsSlot DEF At, Holders
  <1>2. Cardinality(E) <= Cardinality(Holders(sem))
    BY <1>1, HoldersAreFinite, FS_Subset
  <1>3. sem.current <= Concurrency /\ sem.current \in Nat
    BY TaskEngineAssumption DEF IInv, Good, Record
  <1>4. Cardinality(E) \in Nat
    BY <1>1, HoldersAreFinite, FS_Subset, FS_CardinalityType
  <1> HIDE DEF E
  <1>5. Cardinality(E) <= Concurrency
    BY <1>2, <1>3, <1>4, TaskEngineAssumption DEF Counted
  <1> QED
    BY <1>5 DEF E, RunningWithinSlots

\* Without an agent on the CLI path, no more tasks execute than there are slots, through
\* restarts, drains, sweeps and second calls (semaphore.ts).
THEOREM Bounded ==
  ASSUME CliTasks = {}
  PROVE  Spec => []RunningWithinSlots
  <1>1. Init => IInv /\ Native /\ Counted(sem)
    BY InitIInv, InitNative
  <1>2. IInv /\ Native /\ Counted(sem) /\ [Next]_vars => IInv' /\ Native' /\ Counted(sem)'
    BY NextIInv, NextNative, NextCounted
  <1>3. IInv /\ Counted(sem) => RunningWithinSlots
    BY CountedTells
  <1> QED
    BY <1>1, <1>2, <1>3, PTL DEF Spec

\* Without the CLI path and between restarts, every step of the engine is a step of a client
\* that the semaphore's specification allows, or leaves the semaphore alone (engine.ts).
THEOREM Releases ==
  ASSUME CliTasks = {}, MaxRestarts = 0
  PROVE  Spec => ReleasesOnce
  <1>1. Init => IInv /\ Native /\ Sem!Init
    BY InitIInv, InitNative DEF Init, Sem!Init
  <1>2. IInv /\ Native /\ [Next]_vars => IInv' /\ Native'
    BY NextIInv, NextNative
  <1>3. IInv => ~Restart
    BY TypeParts DEF IInv, Restart
  <1>4. IInv /\ Native /\ [Next]_vars => [Sem!Next]_sem
    BY <1>3, NextSem
  <1> QED
    BY <1>1, <1>2, <1>4, PTL DEF Spec, ReleasesOnce, Sem!Spec
=============================================================================

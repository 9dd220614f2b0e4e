------------------------------- MODULE Daemon -------------------------------
(***************************************************************************)
(* The processes that want to be the daemon of one workspace, from launch   *)
(* to exit (src/daemon/start.ts, init.ts, http.ts, shutdown.ts), the pid    *)
(* file that keeps them apart (src/lib/instance-lock.ts), and whoever       *)
(* launches and stops them (src/daemon/lifecycle.ts, the terminal client).  *)
(*                                                                         *)
(* What they share are a file, a port and a database.  The file is read,    *)
(* the pid in it probed, and the file written, by separate system calls of  *)
(* separate processes; the clean-up of orphaned rows trusts it alone, long  *)
(* before the port is bound.                                               *)
(***************************************************************************)
EXTENDS Naturals

CONSTANTS
  Pids,       \* process ids; one may be taken again once its process is gone
  Tasks,      \* rows a daemon works on: tasks, and likewise busy agents and conversations
  MaxFaults,  \* bound: deaths, failed clean-ups, taken ports and reused pids in one run
  NoPid

ASSUME DaemonAssumption == NoPid \notin Pids /\ MaxFaults \in Nat

VARIABLES
  place,   \* per pid: where its process is
  lock,    \* the pid in daemon.pid, NoPid without the file
  port,    \* who listens
  row,     \* per task: status, and (history) the live process that works on it
  lax,     \* history: processes whose clean-up failed
  raced,   \* history: a process read the file while another was about to write it
  faults

vars == <<place, lock, port, row, lax, raced, faults>>

-----------------------------------------------------------------------------
\* "none": no process has this pid; "other": a process of another program has it.
Places == {"none", "other", "start", "read", "open", "boot", "bound", "ready", "closing"}
Gone == {"none", "other"}
\* The lock was written and the process has not left.
Claimed == {"open", "boot", "bound", "ready", "closing"}
\* There is an engine: the cloud is polled, and tasks run, before the port is bound.
Running == {"boot", "bound", "ready", "closing"}

TypeOK ==
  /\ place \in [Pids -> Places]
  /\ lock \in Pids \cup {NoPid} /\ port \in Pids \cup {NoPid}
  /\ row \in [Tasks -> [status : {"idle", "in_progress", "settled", "failed"}, by : Pids \cup {NoPid}]]
  /\ lax \subseteq Pids /\ raced \in BOOLEAN /\ faults \in 0..MaxFaults

Init ==
  /\ place = [p \in Pids |-> "none"]
  /\ lock = NoPid /\ port = NoPid
  /\ row = [t \in Tasks |-> [status |-> "idle", by |-> NoPid]]
  /\ lax = {} /\ raced = FALSE /\ faults = 0

Fault == faults < MaxFaults /\ faults' = faults + 1
NoFault == UNCHANGED faults

Goes(p, from, to) == place[p] = from /\ place' = [place EXCEPT ![p] = to]

-----------------------------------------------------------------------------
(* The pid file *)

\* Mutant: whatever the file says is stale.
NeverAlive == FALSE

\* isProcessAlive(lock.pid): any process will do, the reader's own included.
LockAlive == lock # NoPid /\ place[lock] # "none"

\* releaseLock: only the file of this pid is removed.
Released(p) == IF lock = p THEN NoPid ELSE lock

-----------------------------------------------------------------------------
(* Starting: startDaemon *)

\* The CLI, an MCP client, a service manager or a terminal client that lost its connection
\* launches a daemon, whatever it knows.
Launch(p) ==
  /\ Goes(p, "none", "start")
  /\ UNCHANGED <<lock, port, row, lax, raced>> /\ NoFault

\* acquireLock finds a live process: "Daemon already running", exit(1).
Refused(p) ==
  /\ LockAlive
  /\ Goes(p, "start", "none")
  /\ UNCHANGED <<lock, port, row, lax, raced>> /\ NoFault

\* acquireLock finds no file, or a stale one, which it leaves in place as it is not its own.
Reads(p) ==
  /\ ~LockAlive
  /\ Goes(p, "start", "read")
  /\ raced' = (raced \/ \E q \in Pids : place[q] = "read")
  /\ UNCHANGED <<lock, port, row, lax>> /\ NoFault

\* acquireLock writes the file.
Claims(p) ==
  /\ Goes(p, "read", "open")
  /\ lock' = p
  /\ UNCHANGED <<port, row, lax, raced>> /\ NoFault

\* Mutant: WHERE status = 'running', which is a status of conversations.
OrphansMissed == row

\* The rows after UPDATE ... SET status = 'failed' WHERE status = 'in_progress'.
OrphansFailed ==
  [t \in Tasks |-> IF row[t].status = "in_progress" THEN [row[t] EXCEPT !.status = "failed"] ELSE row[t]]

\* initDaemon: every row in progress is taken for an orphan; a failure is logged.
CleansUp(p) ==
  /\ Goes(p, "open", "boot")
  /\ \/ row' = OrphansFailed /\ NoFault /\ UNCHANGED lax
     \/ UNCHANGED row /\ Fault /\ lax' = lax \cup {p}
  /\ UNCHANGED <<lock, port, raced>>

\* app.listen
Binds(p) ==
  /\ port = NoPid
  /\ Goes(p, "boot", "bound")
  /\ port' = p
  /\ UNCHANGED <<lock, row, lax, raced>> /\ NoFault

\* The end of process p: its port and its work are free.
Ends(p, from) ==
  /\ Goes(p, from, "none")
  /\ port' = IF port = p THEN NoPid ELSE port
  /\ row' = [t \in Tasks |-> IF row[t].by = p THEN [row[t] EXCEPT !.by = NoPid] ELSE row[t]]
  /\ lax' = lax \ {p}

\* The port is taken, by a daemon or by another program: the lock goes, and the process exits.
BindFails(p) ==
  /\ \/ port # NoPid /\ NoFault
     \/ port = NoPid /\ Fault
  /\ Ends(p, "boot")
  /\ lock' = Released(p)
  /\ UNCHANGED raced

\* The rest of the start; the signal handlers are installed last.
Readies(p) ==
  /\ Goes(p, "bound", "ready")
  /\ UNCHANGED <<lock, port, row, lax, raced>> /\ NoFault

-----------------------------------------------------------------------------
(* Working *)

StartTask(p, t) ==
  /\ place[p] \in Running /\ row[t].status = "idle"
  /\ row' = [row EXCEPT ![t] = [status |-> "in_progress", by |-> p]]
  /\ UNCHANGED <<place, lock, port, lax, raced>> /\ NoFault

\* The run writes its outcome, whatever the row says by then.
EndTask(p, t) ==
  /\ row[t].by = p
  /\ row' = [row EXCEPT ![t] = [status |-> "settled", by |-> NoPid]]
  /\ UNCHANGED <<place, lock, port, lax, raced>> /\ NoFault

-----------------------------------------------------------------------------
(* Stopping *)

\* Mutant: the lock is given back before the work is over.
ShutsDownUnlocked(p) ==
  /\ Goes(p, "ready", "closing")
  /\ port' = IF port = p THEN NoPid ELSE port
  /\ lock' = Released(p)
  /\ UNCHANGED <<row, lax, raced>> /\ NoFault

\* SIGTERM, SIGINT or POST /shutdown: the port closes; tasks in flight run on.
ShutsDown(p) ==
  /\ Goes(p, "ready", "closing")
  /\ port' = IF port = p THEN NoPid ELSE port
  /\ UNCHANGED <<lock, row, lax, raced>> /\ NoFault

\* server.close is done, or five seconds are over.
Exits(p) ==
  /\ Ends(p, "closing")
  /\ lock' = Released(p)
  /\ UNCHANGED raced /\ NoFault

\* A crash, a signal before the handlers are installed, or a start that throws: the file stays.
Dies(p) ==
  /\ \E from \in Places \ Gone : Ends(p, from)
  /\ Fault
  /\ UNCHANGED <<lock, raced>>

\* handleReplaced: no callback is wired, so the process exits on the spot, and the file stays.
Replaced(p) ==
  /\ \E from \in Running : Ends(p, from)
  /\ Fault
  /\ UNCHANGED <<lock, raced>>

-----------------------------------------------------------------------------
(* The operating system *)

PidTaken(p) ==
  /\ Goes(p, "none", "other")
  /\ Fault
  /\ UNCHANGED <<lock, port, row, lax, raced>>

\* The other program ends, by itself or by the SIGTERM of a stopDaemon that trusts the file.
PidFreed(p) ==
  /\ Goes(p, "other", "none")
  /\ UNCHANGED <<lock, port, row, lax, raced>> /\ NoFault

-----------------------------------------------------------------------------
Starts(p) == Refused(p) \/ Reads(p) \/ Claims(p) \/ CleansUp(p) \/ Binds(p) \/ BindFails(p) \/ Readies(p)
Stops(p) == ShutsDown(p) \/ Exits(p) \/ Dies(p) \/ Replaced(p)
Works(p) == \E t \in Tasks : StartTask(p, t) \/ EndTask(p, t)

Next == \E p \in Pids : Launch(p) \/ Starts(p) \/ Stops(p) \/ Works(p) \/ PidTaken(p) \/ PidFreed(p)

Spec == Init /\ [][Next]_vars

-----------------------------------------------------------------------------
\* Mutual exclusion rests on the file: unless two processes were inside acquireLock at
\* once, whoever is between its claim and its exit is the one the file names - through
\* crashes, stale files, failed binds and pids taken again.
HolderUnlessRaced == ~raced => \A p \in Pids : place[p] \in Claimed => lock = p

\* The clean-up of a start fails no row that a live daemon is working on (init.ts: "orphaned
\* tasks from previous crash"), unless two processes were inside acquireLock at once.
OnlyOrphansAreFailed ==
  [][\A t \in Tasks : row'[t].status = "failed" /\ row[t].status # "failed" => raced \/ row[t].by = NoPid]_vars

\* And it misses none: beside a daemon that has begun to work, a row in progress is its own - no
\* row of a process that died, exited or was replaced is still there - unless its clean-up
\* failed or two processes were inside acquireLock at once.
NoOrphanBesideADaemon ==
  \A p \in Pids, t \in Tasks :
    ~raced /\ place[p] \in Running /\ p \notin lax /\ row[t].status = "in_progress" => row[t].by = p
=============================================================================

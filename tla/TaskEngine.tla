----------------------------- MODULE TaskEngine -----------------------------
(***************************************************************************)
(* The life of an agent task through RuntimeEngine.executeTask             *)
(* (src/execution/engine.ts, task-failure.ts, task-completion.ts), the     *)
(* semaphore it runs under (module Semaphore), the peer it may be delegated *)
(* to (src/peers/task-distributor.ts), the sweep of stale rows             *)
(* (src/self-bench/experiments/stale-task-cleanup.ts) and the clean-up of a *)
(* restart (src/daemon/init.ts).                                           *)
(*                                                                         *)
(* A run is one call of executeTask.  Nothing but the semaphore keeps two   *)
(* runs apart: they share the task rows, and so do the sweep, the retry     *)
(* timers and the route that executes an existing task.                     *)
(***************************************************************************)
EXTENDS Naturals, Sequences, FiniteSets

CONSTANTS
  Tasks,        \* agent_workforce_tasks rows
  Backlog,      \* rows that are only inserted: queue_task, a heartbeat, the outreach trigger
  Cancels,      \* bound: tasks whose cancellation is asked for, once each
  Runs,         \* ids of executeTask calls; a returned call frees its id
  Concurrency,  \* 3 with an Anthropic key, 1 without
  MaxRetries,   \* max_retries
  CliTasks,     \* tasks whose agent runs on the Claude Code CLI
  Catching,     \* tasks whose caller writes the row when executeTask rejects (API routes)
  Peers,        \* TRUE: a task distributor with a connected peer
  OllamaOnly,   \* TRUE: no Anthropic key, a model router
  Reexecute,    \* TRUE: POST /api/tasks/:id/execute is used
  MaxFaults,    \* bound: refusals, failures, timeouts, drains and lost peers in one run
  MaxRestarts,  \* bound: restarts in one run
  MaxSweeps,    \* bound: probes of the sweep that find a stale row
  NoTask

ASSUME TaskEngineAssumption ==
  /\ IsFiniteSet(Runs) /\ Concurrency \in Nat \ {0}
  /\ NoTask \notin Tasks
  /\ Backlog \subseteq Tasks /\ Cancels \subseteq Tasks
  /\ CliTasks \subseteq Tasks /\ Catching \subseteq Tasks
  /\ {Peers, OllamaOnly, Reexecute} \subseteq BOOLEAN
  /\ MaxRetries \in Nat /\ MaxFaults \in Nat /\ MaxRestarts \in Nat /\ MaxSweeps \in Nat

VARIABLES
  row,       \* agent_workforce_tasks: status and retry_count
  run,       \* the running calls: task, where it is, the retry count it read
  timers,    \* setTimeouts of handleTaskFailure not yet fired, per task
  sem,       \* the engine's semaphore
  stale,     \* rows the last probe of the sweep listed
  cancel,    \* cancel_task, per task: not asked for, its check passed, its row written
  faults, restarts, sweeps

Sem == INSTANCE Semaphore WITH Callers <- Runs, Max <- Concurrency

bounds == <<faults, restarts, sweeps>>
vars == <<row, run, timers, sem, stale, cancel, bounds>>

-----------------------------------------------------------------------------
Ended == {"completed", "needs_approval", "failed"}
Status == {"none", "pending", "in_progress", "paused"} \cup Ended
Places == {"free", "call", "peer", "slot", "cli", "work", "failing", "retry", "failed", "drained"}
Executing == {"cli", "work", "failing", "retry", "failed", "drained"}

TypeOK ==
  /\ row \in [Tasks -> [status : Status, retries : 0..MaxRetries]]
  /\ run \in [Runs -> [task : Tasks \cup {NoTask}, at : Places, read : 0..MaxRetries]]
  /\ timers \in [Tasks -> Nat]
  /\ Sem!TypeOK
  /\ stale \subseteq Tasks
  /\ cancel \in [Tasks -> {"no", "read", "done"}]
  /\ faults \in 0..MaxFaults /\ restarts \in 0..MaxRestarts /\ sweeps \in 0..MaxSweeps

FreeRun == [task |-> NoTask, at |-> "free", read |-> 0]

Init ==
  /\ row = [t \in Tasks |-> [status |-> "none", retries |-> 0]]
  /\ run = [r \in Runs |-> FreeRun]
  /\ timers = [t \in Tasks |-> 0]
  /\ sem = Sem!Idle
  /\ stale = {}
  /\ cancel = [t \in Tasks |-> "no"]
  /\ faults = 0 /\ restarts = 0 /\ sweeps = 0

Fault == faults < MaxFaults /\ faults' = faults + 1 /\ UNCHANGED <<restarts, sweeps>>
NoFault == UNCHANGED bounds

At(r, places) == run[r].at \in places
Goes(r, place) == run' = [run EXCEPT ![r].at = place]
Returns(r) == run' = [run EXCEPT ![r] = FreeRun]
Writes(r, status) == row' = [row EXCEPT ![run[r].task].status = status]

\* Mutant: the slot goes back on the way out and in the finally.
GivesBackTwice(r) ==
  sem' = Sem!Released(Sem!Released(Sem!Forgotten(sem, r))) /\ Returns(r)

\* Mutant: the call returns and the slot stays taken.
KeepsSlot(r) == sem' = Sem!Forgotten(sem, r) /\ Returns(r)

\* The finally of executeTask: the slot goes back and the call returns.
GivesBack(r) == sem' = Sem!Released(Sem!Forgotten(sem, r)) /\ Returns(r)

\* A call of executeTask(agent, t).
Calls(t) ==
  \E r \in Runs : /\ At(r, {"free"}) /\ sem.entry[r] = "none"
                  /\ run' = [run EXCEPT ![r] = [task |-> t, at |-> "call", read |-> 0]]

-----------------------------------------------------------------------------
(* Who calls executeTask *)

\* A route, a schedule or a trigger inserts a pending row and executes it.
Create(t) ==
  /\ t \notin Backlog /\ row[t].status = "none"
  /\ row' = [row EXCEPT ![t].status = "pending"]
  /\ Calls(t)
  /\ UNCHANGED <<timers, sem, stale, cancel, bounds>>

\* queue_task (scheduleTask) inserts a pending row, the backlog, and executes nothing.
QueueTask(t) ==
  /\ t \in Backlog /\ row[t].status = "none"
  /\ row' = [row EXCEPT ![t].status = "pending"]
  /\ UNCHANGED <<run, timers, sem, stale, cancel, bounds>>

\* POST /api/tasks/:id/execute, whatever the row says.
ExecuteAgain(t) ==
  /\ Reexecute /\ row[t].status # "none"
  /\ Calls(t)
  /\ Fault
  /\ UNCHANGED <<row, timers, sem, stale, cancel>>

\* The backoff of a retry is over.
TimerFires(t) ==
  /\ timers[t] > 0
  /\ timers' = [timers EXCEPT ![t] = @ - 1]
  /\ Calls(t)
  /\ UNCHANGED <<row, sem, stale, cancel, bounds>>

-----------------------------------------------------------------------------
(* executeTask *)

\* Without a key and with no provider up, the row fails and no slot is asked for.
NoProvider(r) ==
  /\ At(r, {"call"}) /\ OllamaOnly
  /\ Writes(r, "failed") /\ Returns(r)
  /\ Fault
  /\ UNCHANGED <<timers, sem, stale, cancel>>

\* Every slot is taken and a peer takes the task.
Delegate(r) ==
  /\ At(r, {"call"})
  /\ Peers /\ sem.current >= Concurrency
  /\ Writes(r, "in_progress") /\ Goes(r, "peer")
  /\ UNCHANGED <<timers, sem, stale, cancel, bounds>>

\* pollDelegatedTask: the peer's answer is written; an unreachable peer leaves the row as it is.
PeerAnswers(r) ==
  /\ At(r, {"peer"})
  /\ \/ \E s \in {"completed", "failed"} : Writes(r, s) /\ NoFault
     \/ UNCHANGED row /\ Fault
  /\ Returns(r)
  /\ UNCHANGED <<timers, sem, stale, cancel>>

\* await semaphore.acquire()
AskForSlot(r) ==
  /\ At(r, {"call"})
  /\ sem' = Sem!Acquired(sem, r) /\ Goes(r, "slot")
  /\ UNCHANGED <<row, timers, stale, cancel, bounds>>

\* Five minutes in the queue.
QueueTimeout ==
  /\ \E i \in 1..Len(sem.queue) : sem' = Sem!TimedOut(sem, i)
  /\ Fault
  /\ UNCHANGED <<row, run, timers, stale, cancel>>

\* Mutant: a refusal is only logged, whoever called.
RefusedAndLogged(r) ==
  /\ At(r, {"slot"}) /\ sem.entry[r] = "rejected"
  /\ sem' = Sem!Forgotten(sem, r) /\ Returns(r)
  /\ UNCHANGED <<row, timers, stale, cancel, bounds>>

\* acquire() rejects before the try: only the caller's catch, if it has one, writes the row.
Refused(r) ==
  /\ At(r, {"slot"}) /\ sem.entry[r] = "rejected"
  /\ sem' = Sem!Forgotten(sem, r) /\ Returns(r)
  /\ IF run[r].task \in Catching THEN Writes(r, "failed") ELSE UNCHANGED row
  /\ UNCHANGED <<timers, stale, cancel, bounds>>

\* 1, 2, 2.5: the slot is granted and the row is in progress.
StartWork(r) ==
  /\ At(r, {"slot"}) /\ sem.entry[r] = "granted"
  /\ Writes(r, "in_progress")
  /\ Goes(r, IF run[r].task \in CliTasks THEN "cli" ELSE "work")
  /\ UNCHANGED <<timers, sem, stale, cancel, bounds>>

\* The CLI path saves its result and releases the slot; returning, the finally releases again.
CliReturns(r) ==
  /\ At(r, {"cli"})
  /\ \E s \in Ended : Writes(r, s)
  /\ sem' = Sem!Released(Sem!Released(Sem!Forgotten(sem, r))) /\ Returns(r)
  /\ UNCHANGED <<timers, stale, cancel, bounds>>

\* The CLI throws: the native path takes over.
CliThrows(r) ==
  /\ At(r, {"cli"})
  /\ Goes(r, "work")
  /\ Fault
  /\ UNCHANGED <<row, timers, sem, stale, cancel>>

\* The model loop is done (its output saved, or a narrated failure), out of budget, paused, or
\* stopped at a file it may not touch.
WorkReturns(r) ==
  /\ At(r, {"work"})
  /\ \E s \in Ended \cup {"paused"} : Writes(r, s)
  /\ GivesBack(r)
  /\ UNCHANGED <<timers, stale, cancel, bounds>>

\* Loading the task or the model loop throws: a transient error is retried, any other fails the
\* row.
WorkThrows(r) ==
  /\ \/ At(r, {"work"})
     \/ At(r, {"slot"}) /\ sem.entry[r] = "granted"
  /\ \/ Goes(r, "failing") /\ UNCHANGED row
     \/ Goes(r, "failed") /\ Writes(r, "failed")
  /\ Fault
  /\ UNCHANGED <<timers, sem, stale, cancel>>

\* handleTaskFailure reads retry_count; no retry is left to a task that used them up.
ReadRetries(r) ==
  /\ At(r, {"failing"})
  /\ IF row[run[r].task].retries < MaxRetries
       THEN /\ run' = [run EXCEPT ![r].at = "retry", ![r].read = row[run[r].task].retries]
            /\ UNCHANGED row
       ELSE Goes(r, "failed") /\ Writes(r, "failed")
  /\ UNCHANGED <<timers, sem, stale, cancel, bounds>>

\* Mutant: having set the timer, the handler goes on and fails the row.
ScheduleRetryAndFail(r) ==
  /\ At(r, {"retry"})
  /\ Writes(r, "failed") /\ Goes(r, "failed")
  /\ timers' = [timers EXCEPT ![run[r].task] = @ + 1]
  /\ UNCHANGED <<sem, stale, cancel, bounds>>

\* The row is pending again and a timer will execute it; the slot goes back.
ScheduleRetry(r) ==
  LET t == run[r].task IN
  /\ At(r, {"retry"})
  /\ row' = [row EXCEPT ![t] = [status |-> "pending", retries |-> run[r].read + 1]]
  /\ timers' = [timers EXCEPT ![t] = @ + 1]
  /\ GivesBack(r)
  /\ UNCHANGED <<stale, cancel, bounds>>

\* If Ollama is the only model and is down, a failed run drains the queue.
DrainQueue(r) ==
  /\ At(r, {"failed"}) /\ OllamaOnly
  /\ sem' = Sem!Drained(sem) /\ Goes(r, "drained")
  /\ Fault
  /\ UNCHANGED <<row, timers, stale, cancel>>

FailedReturns(r) ==
  /\ At(r, {"failed", "drained"})
  /\ GivesBack(r)
  /\ UNCHANGED <<row, timers, stale, cancel, bounds>>

-----------------------------------------------------------------------------
(* Cancellation, the sweep and the restart *)

\* cancel_task reads the row and goes on if it is pending or in progress.
CancelReads(t) ==
  /\ t \in Cancels /\ cancel[t] = "no"
  /\ row[t].status \in {"pending", "in_progress"}
  /\ cancel' = [cancel EXCEPT ![t] = "read"]
  /\ UNCHANGED <<row, run, timers, sem, stale, bounds>>

\* It fails the row by id, whatever the row says by now; calls and timers of the task stay.
CancelWrites(t) ==
  /\ cancel[t] = "read"
  /\ cancel' = [cancel EXCEPT ![t] = "done"]
  /\ row' = [row EXCEPT ![t].status = "failed"]
  /\ UNCHANGED <<run, timers, sem, stale, bounds>>

\* probe(): some rows in progress are old enough to be called stale.
SweepProbe ==
  /\ sweeps < MaxSweeps /\ sweeps' = sweeps + 1
  /\ stale = {}
  /\ stale' \in SUBSET {t \in Tasks : row[t].status = "in_progress"} \ {{}}
  /\ UNCHANGED <<row, run, timers, sem, cancel, faults, restarts>>

\* intervene(): the rows the probe listed are failed, one update each.
SweepRow(t) ==
  /\ t \in stale
  /\ row' = [row EXCEPT ![t].status = "failed"]
  /\ stale' = stale \ {t}
  /\ UNCHANGED <<run, timers, sem, cancel, bounds>>

\* The daemon dies and starts again: rows in progress are failed, timers and queue are gone.
Restart ==
  /\ restarts < MaxRestarts /\ restarts' = restarts + 1
  /\ row' = [t \in Tasks |->
               IF row[t].status = "in_progress" THEN [row[t] EXCEPT !.status = "failed"]
               ELSE row[t]]
  /\ run' = [r \in Runs |-> FreeRun]
  /\ timers' = [t \in Tasks |-> 0]
  /\ sem' = Sem!Idle
  /\ stale' = {}
  /\ cancel' = [t \in Tasks |-> IF cancel[t] = "read" THEN "no" ELSE cancel[t]]
  /\ UNCHANGED <<faults, sweeps>>

-----------------------------------------------------------------------------
RunStep(r) ==
  \/ NoProvider(r) \/ Delegate(r) \/ PeerAnswers(r) \/ AskForSlot(r) \/ Refused(r)
  \/ StartWork(r) \/ CliReturns(r) \/ CliThrows(r) \/ WorkReturns(r) \/ WorkThrows(r)
  \/ ReadRetries(r) \/ ScheduleRetry(r) \/ DrainQueue(r) \/ FailedReturns(r)

Next ==
  \/ \E t \in Tasks : \/ Create(t) \/ QueueTask(t) \/ ExecuteAgain(t) \/ TimerFires(t)
                    \/ CancelReads(t) \/ CancelWrites(t) \/ SweepRow(t)
  \/ \E r \in Runs : RunStep(r)
  \/ QueueTimeout \/ SweepProbe \/ Restart

Spec == Init /\ [][Next]_vars

\* A call that was started goes on (model calls time out), and a timer fires once its delay is
\* over.  Nobody has to create, cancel or sweep anything.
FairSpec ==
  /\ Spec
  /\ \A r \in Runs : WF_vars(RunStep(r))
  /\ \A t \in Tasks : WF_vars(TimerFires(t))

-----------------------------------------------------------------------------
(* Properties *)

RunsOf(t) == {r \in Runs : run[r].task = t}

\* A task has at most one live call or pending retry at a time, through refusals, failures
\* and retries: no retry timer is left beside a run.  (Of tasks nobody executes by hand.)
OneRunPerTask == \A t \in Tasks : Cardinality(RunsOf(t)) + timers[t] <= 1

\* No more tasks execute than the semaphore has slots (semaphore.ts: "Limits how many tasks
\* can execute simultaneously").
RunningWithinSlots == Cardinality({r \in Runs : At(r, Executing)}) <= Concurrency

\* A pending row that was not put in the backlog has somebody who will execute it, a call not
\* yet started or a retry timer; and a retry timer is only for a pending row: no task that
\* settled is executed again, unless a user cancelled it (cancel_task leaves the timer).
PendingIsOwned ==
  \A t \in Tasks :
    /\ row[t].status = "pending" /\ t \notin Backlog => RunsOf(t) # {} \/ timers[t] > 0
    /\ timers[t] > 0 => row[t].status = "pending" \/ cancel[t] = "done"

\* The calls that hold a slot: those that execute, and one not yet woken with the slot it was
\* handed.
Holding == {r \in Runs : sem.entry[r] = "granted" /\ At(r, Executing \cup {"slot"})}

\* No way out of executeTask leaks a slot, the CLI path's own release, restarts, drains, sweeps
\* and executions by hand included: what the semaphore counts as taken is held by a live call,
\* so a call queues only while as many live calls as there are slots hold one.
NoSlotLeaks ==
  /\ sem.current <= Cardinality(Holding)
  /\ sem.queue # <<>> => Cardinality(Holding) >= Concurrency

\* Without the CLI path the engine is a client the semaphore's contract allows: one release
\* for every slot, on every way out of executeTask.
ReleasesOnce == Sem!Spec

\* A task somebody executes settles: it ends, or pauses, or waits for an approval.  (The backlog
\* waits for a user, and may wait for good.)
TasksSettle ==
  \A t \in Tasks \ Backlog : row[t].status \in {"pending", "in_progress"}
                               ~> row[t].status \in Ended \cup {"paused"}
=============================================================================

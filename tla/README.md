# ohwow in TLA+

A verification development of the ohwow runtime: TLA+ modules of the parts whose
correctness depends on the order of things, TLC configurations that check them
on small instances, and theorems about them checked by TLAPS.

Paths below are relative to the root of the repository. A definition of a
module is named after the function it models where TLA+ allows it, and
`PROJECT.json` maps each one to the lines it stands for.

## 1. The system

ohwow is a daemon that runs AI agents for one business. A workspace has one
daemon, one SQLite database and one event loop; the dashboard, the terminal
client, MCP clients, webhooks and the cloud reach it over HTTP. All concurrency
is that of the event loop: a handler runs alone up to an `await`, and what it
read before the `await` may be stale after it. The database adapter runs one
statement at a time and there are no transactions around the handlers below.
The process may die at any point; the rows survive and the memory does not.

| Component | State | Operations | Talks to | Correct when |
|---|---|---|---|---|
| Conductor (`src/autonomy/conductor.ts`) | timer, in-flight tick, time of the last tick; the picker's `picked_keys` and seeds | tick, immediate request, stop; pick | Director, ranker, eternal state, inbox | one tick at a time, and ticks for ever; nothing picked twice |
| Director (`director.ts`, `director-persistence.ts`) | `director_arcs`, `director_phase_reports`, `founder_inbox`; the locals of `runArc` | open and close an arc; write and update reports; ask, answer, resolve questions | Conductor, phases, founder, watchers | one open arc, reports in order, budgets kept, every arc ends |
| Phase orchestrator, trios, rounds (`phase-orchestrator.ts`, `trio.ts`, `round-runner.ts`, `persistence.ts`) | `phase_trios`, `phase_rounds`; outcomes, clocks | run phase, trio, round; re-prompt; abort | executor, founder hook | rows tell the outcome; the status is what the Director relies on |
| Ranker, pulse, budgets | none | rank candidates of a pulse | read-only | answers outrank the rest |
| Task engine (`src/execution/engine.ts`, `task-failure.ts`, `task-completion.ts`) | `agent_workforce_tasks`, the semaphore, retry timers | execute, retry, drain, finish a task | routes, schedules, triggers, peers, sweep | a task is run by one call at a time, under a slot, and settles |
| Semaphore (`src/execution/semaphore.ts`) | counter, queue of promises and timers | acquire, release, rejectAll | engine | counts slots, first come first served, loses no wake-up |
| Peers (`src/peers/`) | peers, health, delegated tasks | delegate, poll, monitor, elect a leader | engines of other devices | a delegated task is settled once |
| Eternal systems (`src/eternal/`) | `eternal_state`, last activity | record activity, check at a tick, set mode | Conductor, founder inbox | the mode follows the operator's absence |
| Daemon lifecycle (`src/daemon/`, `src/lib/instance-lock.ts`) | pid file, token, port | start, clean up orphans, shut down | every other part | one daemon; it fails the rows of dead ones only |
| Local scheduler (`src/scheduling/local-scheduler.ts`) and triggers (`src/triggers/`) | timer, heartbeat, running chains; `last_fired_at`, `next_run_at` | tick, fire, mark, start, stop; run chains | engine, homeostasis | what is due is fired, once, and no gate makes it spin |
| Control plane (`src/control-plane/`, `src/daemon/cloud.ts`) | session token, command cursor; `outbound_queue` | connect, poll, dispatch, report, enqueue, drain | cloud, engine | no report is lost but to its attempts, commands arrive, once |
| Approvals and outbound posts (`src/scheduling/approval-queue.ts`, `email-dispatcher.ts`, `content-cadence-scheduler.ts`, `scripts/x-experiments/_approvals.mjs`) | the ledger file, contact events, the posted log | propose, rate, send, mark | providers, operator's scripts | nothing goes out twice; what was approved is settled |
| Self-bench (`src/self-bench/`) | claims, chains, `experiment_validations`, `runtime_config_overrides` and its cache | probe, intervene, validate, roll back | every table | an intervention is judged once; one that failed does not stay |
| Budgets (`src/execution/budget-guard.ts`) | spend per agent and workspace | check, record | engine | spend within the cap, but for what is in flight |
| Data locality, mesh (`src/data-locality/`, `src/mesh/`) | pending approvals, device health | approve, fetch, fail over | peers | |
| Orchestrator chat, brain and other cognitive layers, integrations, voice, media, UIs | prompts, scores, sessions | I/O and presentation | outside services | |

What is hard in it:

- an arc lives for hours across many awaits, beside a founder and watchers who
  write the same rows, and a crash leaves its rows behind;
- a tick is started by a timer, by requests and, indirectly, by itself;
- a phase may fail at every round and every write, and its caller sees only a
  status;
- a task has several owners in turn - a caller, the queue, a run, a retry timer,
  a peer - and may lose all of them;
- one slot may be released on two paths, and a retry is only a timer;
- whoever probes and then acts acts on what was true before;
- two processes may believe to be the daemon, and all they share until the port
  is bound is a file read and written by separate system calls;
- work that nobody waits for - drains, chains, ticks of an interval - overlaps
  with the next of its kind;
- the cloud, a provider or a script in another process may have done its part
  while the answer, or the row that says so, is lost.

`PROJECT.json` lists these, one by one and at their lines, under `hazards`.

## 2. The modules

| Module | Models | State | Actions |
|---|---|---|---|
| `Director` | `runArc`, `conductorTick`, the picker, the inbox | `arcs`, `reports`, `inbox` are the tables; `pc`, `arc`, `phases_run`, `picked`, `seed`, `exit`, ... the locals of the tick and the arc | one per numbered step of `runArc` (1 to 8b), one per gate of the tick, plus `ArcThrows`, `Crash`, `Answer`, `WatcherAsks`, `WorldMoves` |
| `PhaseContract` | what `runArc` relies on when it calls `runPhase` | `status`, `asked` | ask, return, throw |
| `Phase` | `runPhase`, `runTrio`, `runRound` and their rows | `trios`, `rows`, `rounds`, two clocks, `pc` | one per boundary, executor call, record, judgement; `Abort` |
| `ConductorLoop` | `startConductorLoop` | timer, debounce, promise | timer, request from outside, request from inside, end of a tick, stop, time |
| `Slots` | what a semaphore promises | who holds, who waits | enter, wait, leave, give up |
| `Semaphore` | `semaphore.ts` | one record: counter, queue, promises | the methods as functions of the record, and a client that obeys the contract |
| `TaskEngine` | `executeTask`, its failure handler, callers, the tools that queue and cancel tasks, peers, the stale sweep, the restart | `row` (tasks), `run` (calls), `timers`, `sem`, `stale`, `cancel` (how far a cancellation is) | one per await-to-await section of a call, and one per other writer of the rows |
| `Daemon` | the processes that start, run and stop as the daemon of a workspace | `place` of every pid, `lock` (the pid file), `port`, `row` | launch (by whomever, the terminal client's one respawn included), read, claim, clean up, bind, ready, shut down, exit, die, be replaced; a task starts and ends; a pid is taken by another program |
| `Scheduler` | `LocalScheduler` and the chains it, a route or the cloud starts | the timer, the heartbeats (one left behind by every start that a stop overtook), `due` and `wait` of every automation and schedule, `ticked` (the set `runningAutomations`), chains started elsewhere | timer and heartbeat fire, start, the end of its import, stop, notify, a chain ends or fails, a minute passes |
| `ControlPlane` | the connection, the poll loop, reports, the outbound queue and its drains | token, cursor, queue rows with their attempts, what each drain has read | report, drain, send a row, connect, be revoked, poll, end, boot |
| `Approvals` | the ledger of approvals, the email dispatcher, the approved-draft path of the content cadence, the scripts that rate and those that post | `file`, the copy each script holds and what it has still to apply or post, what each tick has still to send | propose, load and write back, apply, post (scripts), tick, send, skip, refuse, post (daemon), crash |
| `Experiments` | the experiment runner, the validation queue, the overrides and their cache | per run, per tick and per drain where it is; `table`, `cache`, `validation` | tick, end of a run with its chain, intervene, record, take up, judge, roll back, refresh, restart |

`Phase` implements `PhaseContract`, which is the phase of `Director`
(`PhaseAsks`, `PhaseReturns`, `PhaseThrows`). `Semaphore` implements `Slots`;
`TaskEngine` applies the functions of `Semaphore` to its own `sem`, and without
the CLI path it implements `Semaphore!Spec`, so that what is proved of the
semaphore holds inside the engine.

The five modules after it are components of their own: `Daemon`,
`Scheduler`, `ControlPlane`, `Approvals` and `Experiments` meet the others only
through rows (`Daemon` fails the rows `TaskEngine` calls in progress, `RunsByHand`
starts what `TaskEngine!Create` begins, `Polled` only inserts a pending row, the
sweep of `TaskEngine` is one experiment of `Experiments`), and each takes the
other side as it finds it.

`MCDirector`, `MCPhase`, `MCSemaphore`, `MCTaskEngine`, `MCScheduler` and
`MCApprovals` give constants their small values and name the symmetric sets; the other modules get
theirs in the configuration. `Director_proofs`, `Schedulers_proofs`,
`Semaphore_proofs`, `Phase_proofs`, `TaskEngine_proofs`, `Daemon_proofs`,
`ControlPlane_proofs` and `Experiments_proofs` hold the theorems.
`Schedulers_proofs` extends three components that have nothing in common but
timers and lists, `ConductorLoop`, `Scheduler` and `Approvals`; so that it can,
the latter two prefix the names of their specifications (`CronSpec`,
`LedgerSpec`). An operator whose comment begins with "Mutant" is a plausible
bug of the operator after it; it is used by no specification, and `PROJECT.json`
names the property that fails once it takes that operator's place.

### What a step is

A step is the code between two accesses to state that somebody else may write
in between. Reads of unshared data, computation and logging belong to the step
they lead to. Merged into one step, though the code has awaits between them:

- the read of the report rows, the pick and the insert of the report
  (`PickPhase`): only the running arc writes that arc's reports;
- the return of a phase, the update of its report and the budget check
  (`PhaseReturns`); a throw of the update is `ArcThrows`;
- the two updates of a retry (task, agent) and its `setTimeout`
  (`ScheduleRetry`): the run owns the task until it returns.

The adapter under `src/src/db/sqlite-adapter.ts` is synchronous and returns
errors instead of throwing. What a handler does between two waits for the outside
world - a timer, a request, a child process - is therefore one step in
`Scheduler`, `ControlPlane`, `Approvals` and `Experiments`, however many `await`s
of the database it has: a whole tick of the scheduler, a batch of commands with
its handlers, the end of a run with the sweep that follows. `Daemon` is about
processes, and there every system call on the pid file is a step.

### What is abstracted

- `OHWOW_AUTONOMY_CONDUCTOR` is on, there is one daemon for a workspace
  (but in `Daemon`), and `kill_on_pulse_regression` has its default, true.
- The pulse is its one number `mrr_cents`; a pulse that could not be read is 0,
  which is below nothing. The eternal mode changes at any time.
- The order the ranker gives to sources is left open - any source may be first,
  or none left - but a founder's answer outranks every source, as in
  `ranker.ts`, and a watcher's answer gets the fallback mode.
- A failed read inside the picker's reconstruction is the same as an empty one.
- Rounds carry what validation distinguishes: the status, whether there is a
  brief, the verdict. Cents are small numbers.
- The clock of an arc runs in ticks, `Minute` of which make a minute, and stands
  for the code's milliseconds. A phase lasts any number of ticks of `PhaseTicks`
  and the rest of an iteration any of `GapTicks`; the budget is compared with the
  ticks (`OutOfBudget`), while a report holds its phase's ticks `Rounded` to
  minutes, as `director.ts:729-732` does. Sum and clock part by half a minute a
  report.
- In the task engine: the tool loop is one step with any outcome, and agents'
  own statuses, statistics, child tasks (`engine.ts:605-618`,
  `task-completion.ts:650-668`) and notifications are left out. The graceful
  drain on shutdown leaves the rows as a restart does. `Backlog` are the rows that
  are only inserted: by `queue_task`, whose description says "Creates a pending
  task without running it" (`agents.ts:170-172`), and likewise by
  `heartbeat-coordinator.ts:141`, `intel-outreach-trigger.ts:71` and
  `onboarding-plan.ts:827`. Nobody but a user executes them, so that they are
  excepted from what is said of pending rows.
- The adapter reports errors in its result; where the code does not look at the
  error (the sweep, the delegation), the write is modelled as done. In
  `Experiments` such a write may fail and leave the table as it was while the
  cache moves on (`Written`, `RollsBack`).
- `Daemon`: one workspace. What tasks do is not told apart; a row is idle, in
  progress or over, and (history) in progress for a live process or for none.
- `Scheduler`: a cron expression and `last_fired_at` count for whether an
  occurrence has passed since the last firing and how long it is to the next.
  A promise in `runningAutomations` is its automation and a number that tells it
  from others of the same (`NewChain`). `Unmarked` are those whose mark may fail:
  a write of `last_fired_at` that fails, an executor that throws before it, or an
  `action_config` that does not parse (`local-trigger-evaluator.ts:148-151`);
  they stay due. Hooks, cooldowns and the actions of a chain are left out.
- `ControlPlane`: the cloud is external: it may refuse, take a request and lose
  the answer, or never answer. Commands are those that dispatch a task; a
  malformed one makes its handler throw, and a bare one names a task and does not
  bring it (`client.ts:814`). A dispatch ends with the call of the callback, which
  finds no engine (below).
- `Approvals`: what the provider does with an `idempotencyKey`
  (`email-dispatcher.ts:205`) is external and left out, so that a repeated send
  counts as one. Scores, trust and the agents that write posts are left out: a
  post comes trusted or not. `Barred` are the emails the provider refuses for good
  for a reason the dispatcher does not list as permanent. Of what `apply` can do
  only posts are modelled, and that it rates an approved email `rejected`, as a
  kind it does not know; replies, direct messages, contacts and knowledge are left
  out. Rows the daemon appends carry no kind there.
- `Experiments`: an experiment is due or not, probes or intervenes with any
  outcome, and a validator gives any answer. Values of overrides are the
  interventions that set them.

### Bounds

`Arcs`, `Questions`, `Tasks` are supplies of ids; `OutOfArcs` ends a run that
used them up. `Runs` are reused once a call returns. `MaxFaults`, `MaxRestarts`
and `MaxSweeps` bound how often the environment strikes; `Fault` is the only way
a write fails, a phase throws, a read fails or the daemon dies, so one fault
means one of those at any point. Two arcs show everything that passes from one
arc to the next, as the locals do not survive an arc (`LocalsMatchRows`); three
phases, on as many sources, show a budget that trips in the middle. Three tasks on one slot give a holder, a
first and a second waiter, which is what a lost or doubled wake-up needs.
`ConductorLoop` keeps its clocks as differences, so its state is finite without
a bound, and so does `Scheduler`.

Three processes in `Daemon` give a holder, a second that finds its file stale and
a third that comes in between; the three faults are a death and two that make
the next starts go wrong. Three automations under a cap of two leave one out of every
full tick, periods shorter and longer than the heartbeat make occurrences fall
together and apart, the one that cannot be marked comes first in the table, and
one start waits for the import (`Boots`), with a stop or another start meanwhile.
In `TaskEngine` one row of the backlog and one task that is cancelled stand
beside those that are executed. One report that can be sent and one that cannot, under a
batch of one, put the second in front of the first; two drains overlap. Three
commands are a batch whose second handler throws, with one behind it that brings
no task. In `Approvals` two emails fill a batch of two, the first of which the
provider never takes, and three commands of a script are what it takes to
propose, to approve and to apply, or to lose a row and to approve again. In
`Experiments` one experiment intervenes twice, so that a later intervention is in force while an earlier one
is judged, and two ticks chain. One fault (`MaxFaults`) there is one failed
write or one restart at any point.

## 3. The runs

All of them pass.

| Run | Shows |
|---|---|
| `Director_arcs` | two arcs, two questions, one fault, two pulses, two eternal modes, a trustee's veto: at most one open arc, reports in order, no source worked twice, phases within the inbox cap, answers of earlier arcs resolved only under a phase in flight, ended arcs frozen |
| `Director_budgets` | one arc of three phases that last half a minute or two minutes and a quarter, with pauses between them, over all costs, without faults: it overshoots by one phase at most and the rounding of its reports, the recorded exit is the one that happened, and it ends |
| `ConductorLoop_loop` | one tick at a time, and ticks for ever until the loop is stopped |
| `Phase_trios` | three trios with a failed write or a throw, aborts and long calls: only a regression goes on, rows tell the outcome, clocks overrun by one round only, and the phase is what `PhaseContract` says |
| `Semaphore_slots` | five callers and two slots: counting, FIFO, no lost wake-up, refinement of `Slots`, service |
| `TaskEngine_retries` | tasks of callers that write the row on a refusal, with failures, drains and queue timeouts, beside a queued row nobody executes and a cancellation: one owner at a time, slots respected, nothing somebody executes pending without an owner, every such task settles, and the engine drives the semaphore as `Semaphore` specifies |
| `TaskEngine_everything` | CLI agents, peers, drains, a restart, a sweep, a cancellation and repeated execution together: no way out of a call leaks a slot - what the semaphore counts as taken is held by a live call, and a call queues only while every slot is |
| `Daemon_starts` | three processes, three faults: whoever is between its claim and its exit is the one the file names, no start fails a row somebody works on, and beside a daemon that works no row of a dead one is in progress, unless its clean-up failed - all three unless two processes were inside `acquireLock` at once |
| `Scheduler_cron` | an automation that cannot be marked beside two that can, gates, starts and stops: no gate makes the timer spin, an occurrence is given up only when an earlier chain of its automation fails, and what is due and can be marked is fired (the largest run, 750 000 states) |
| `ControlPlane_link` | overlapping drains, lost answers, a revoked session or a restart, a command that throws and one that brings no task: a report is lost only after its attempts, the queue empties, and every command arrives on this machine, once a process |
| `Approvals_ledger` | a script that rewrites the file, applies and posts beside the daemon that appends to it, a crash or a failed write, an email the provider never takes: the daemon sends nothing twice unless its row is missing, and every other approved email is settled |
| `Experiments_loop` | ticks that overlap and chain, an experiment that intervenes twice, a failed write or a restart: judged once, nothing that failed stays in force, and what is due is judged unless overlapping chains keep the drain from starting |

### Where the code and what is said of it part

All of it is in the models as the code has it; the properties above are what
holds all the same. The first ten were each seen as a counterexample of TLC to
the sentence quoted.

- A crash leaves an arc open, and no tick resumes it: `conductor.ts:499` finds
  it open and returns, on every tick, while `conductor.ts:284-287` speaks of a
  Director "resuming an open arc after a daemon crash + restart"
  (`autonomy/README.md:191-192` likewise).
- Two seeded answers are both resolved when the first is picked
  (`conductor.ts:456`), where `director.ts:624-626` says that a row "moves to
  `resolved` only when work is committed to actually execute".
- The follow-up an arc requests as it closes is made while the tick's own promise
  is held, and is dropped (`conductor.ts:726`), where `director.ts:850-852`
  schedules it "the moment an arc closes".
- The CLI path releases its slot, and the `finally` does so again
  (`engine.ts:823`, `:1207`): more tasks execute than the semaphore has slots,
  which "limits how many tasks can execute simultaneously"
  (`semaphore.ts:2-5`). `RunningWithinSlots` holds without CLI agents only.
- The sweep updates by id alone (`stale-task-cleanup.ts:184`) and fails a task
  that settled since the probe, though it "does NOT touch tasks with status other
  than in_progress" (`:30`).
- `cancelTask` writes `failed` and no more (`tools/tasks.ts:518`): the call or the
  retry timer of the task lives on and runs it all the same, where the tool is to
  "Cancel a running or pending task." (`tools/agents.ts:197-199`) and answers that
  it "has been cancelled" (`tools/tasks.ts:524`). `CancelWrites` does that; hence
  the last clause of `PendingIsOwned`.
- `acquireLock` reads the file and writes it in two steps (`instance-lock.ts:21`),
  so that two processes that start together both take the "PID-based daemon lock
  to prevent multiple daemon instances" (`:3`). What is said of the lock therefore
  says "unless `raced`".
- Nothing gives the context of the control plane an engine: `start.ts:82` builds it
  with `engine: null` and says "populated after createEngine" (`cloud.ts:18-22` and
  `workspace-context.ts:46` likewise), so that `onTaskDispatch` (`cloud.ts:72`)
  does nothing and a task the cloud dispatches stays pending. `Polled` writes the
  row; `CommandsArrive` claims no more.
- `approval-queue.mjs apply` takes any row that says `approved` (`:117`), and the
  first row of a draft still does after the daemon has posted it and appended one
  that says `applied`, though `approval-queue.ts:204-208` says the two share their
  semantics (`StartsApply`). So a draft goes out a second time while its row
  stands. It also rates approved emails `rejected`, as a kind it does not know,
  where its header says "dispatch all 'approved' entries" (`:9`).
- `x-compose.mjs:429` posts a draft that was proposed as `auto_applied` and marks
  nothing (`PostsDraft`), where `_approvals.mjs:43` has the "caller should apply
  immediately" and `x-compose.mjs:418-419` leaves such drafts to the cadence, which
  posts them again. `SentTwiceOnlyUnrecorded` is about the daemon's sends; those of
  the scripts are counted apart (`byScript`), and no property holds of the sum.
- `director.ts:734` records the meter of the whole arc as the cost of one phase
  (`PhaseReturns`, `meter + cents`), where `src/autonomy/README.md:170` speaks of
  "each finished phase's" cost.
- `conductor.ts:576` escalates the same top phase on every tick, whatever the
  trustee answered (`ProbeEscalates`), where `:569-571` says "until a trustee
  explicitly approves".
- `trio.ts:149` and `:207` finish a trio as successful without QA (`JudgePlan`,
  `JudgeImpl`), where its header says success "requires QA verdict".
- `task-distributor.ts:152` says "marking task failed" and leaves the row in
  progress (`PeerAnswers`).
- A refused task of a caller that only logs (`local-scheduler.ts:453`,
  `create-task.ts:69`) stays pending for good (`Refused`):
  `PendingIsOwned` fails with `Catching = {}`. A restart has the same effect on
  a task that waits for its retry timer (`Restart`): it fails with
  `MaxRestarts = 1`.
- Daemon: no `onReplaced` callback is wired, so a replaced daemon exits at once
  after saying "Finishing in-flight tasks, then shutting down..."
  (`control-plane/client.ts:698-707`), with its file in place (`Replaced`);
  `wasRecentlyReplaced` (`lifecycle.ts:63`), which tells the terminal client not
  to respawn, has no caller. A stale file that names the reader's own pid, as
  after a restart of a container, refuses every start (`instance-lock.ts:24`,
  `Refused`). `stopDaemon` signals whatever process the file names (`PidFreed`).
- Scheduler: at its cap `recalculate` arms the timer at 0 for what it left out,
  so the scheduler spins until a chain ends, though "overflow defers to the next
  tick" (`local-scheduler.ts:379-384`); `OnlyTheCapSpins` says that nothing else
  does. A failing chain marks its trigger as fired a second time and drops an
  occurrence that came due meanwhile (`local-trigger-service.ts:198`). The order
  of the rows is fixed and the loop breaks at the cap, so later automations may
  starve while earlier ones are always due; one that fails at once keeps its place
  under the cap for the rest of the tick (`Dispatched`). What cannot be marked
  stays due, and the timer is armed at 0 for it (`Unmarked`). A stop during
  `start()`'s import, as when another machine of the mesh becomes the primary one
  (`peers.ts:284-301`), leaves a heartbeat behind (`Started`).
- Control plane: resources and conversations are queued (`client.ts:500-502`, "so
  the change is not lost"), but the drain does not know how to send them, and
  drops them after their attempts (`Known`). Drains follow every heartbeat, not
  only "successful" ones (`:1065`, `:1874`). They overlap, so an increment of
  the attempts may be lost and a row sent twice. The cursor moves before the
  batch is handled, and a malformed command drops the rest (`Polled`).
- Approvals: an email approved within the cooldown of its own proposal is
  consumed unsent (`Skips`). The scripts rewrite the ledger, and may lose a row
  that says `applied` and so have it sent twice, where `approval-queue.ts:15-19`
  says a rewrite "can only lose a proposal". `rate` edits the first row of an
  entry while readers take the last. An email that cannot be sent is tried again
  before those behind it, and as many as a tick takes, refused for good with a
  status the dispatcher takes for transient (`resend.ts:136-139`,
  `email-dispatcher.ts:213-226`), block the queue until they are taken off the list
  by hand: `ApprovedAreSettled` excepts that state.
- Self-bench: a roll-back deletes the override that stands, be it a later
  intervention's, which is then judged against the default (`Restored`). Errors
  the adapter returns are not looked at, so that cache and table part until the
  next refresh, and what was rolled back may return (`excused`). A crash between
  the outcome and the roll-back leaves a failed override for good. The depth of
  the chains is shared by overlapping ticks, so that two that overlap for ever
  keep the validations from being drained at all (`experiment-runner.ts:536`).

### Fairness

`Director!FairSpec`: weak fairness of the steps of a tick that has started -
the event loop runs them, model calls and database statements return - and of
the timer. The founder, watchers, pulse and faults have none. `EveryArcEnds` is
checked with `MaxFaults = 0`, because a crash leaves an arc open for good. `ConductorLoop!FairSpec`: time passes, due timers are
serviced, ticks end; requests and stop owe nothing. `Phase!Spec`: the
orchestrator goes on and executors return. `Semaphore!FairSpec`: a holder
releases, as `executeTask` does in its `finally`. `TaskEngine!FairSpec`: calls go
on (model calls have timeouts) and timers fire; nobody has to create, answer or
sweep.

`Daemon` has none and no liveness: the terminal client tries to respawn a daemon
once, at its first disconnect, and from then on only reconnects
(`use-daemon-client.ts:220-231`), so that nobody need launch another.
`Scheduler!CronFairSpec`: time passes, and the event loop serves the timer, each
heartbeat and the end of an import when they are due; chains owe nothing, so
`DueIsFired` allows for a full cap. `ControlPlane!FairSpec`: requests end (the
client has timeouts), heartbeats and polls go on, and a dead daemon is started
again. The loop tries to connect for ever; that the cloud accepts a connection in
the end is assumed of the cloud, and without it nothing leaves the queue, as
drains need a token. That it takes any report is not assumed.
`Approvals!LedgerFairSpec`: ticks go on, a send ends, and an email outside `Barred`
that is tried again and again is at some time taken or skipped - strong fairness,
as the provider's passing refusals come and go; the scripts owe nothing. `Experiments!FairSpec`: the
interval fires, and probes, validators and roll-backs end; which experiments come
due is left open.

## 4. The proofs

Constants are arbitrary within the named assumptions of the modules:
`ConstantsAssumption` (ids are distinct, finitely many questions, budgets and
durations are naturals, a minute has a tick), `LoopAssumption` (the interval is positive), `PhaseAssumption` (caps
and durations are naturals), `SemaphoreAssumption` (finitely many callers, at
least one slot), `TaskEngineAssumption` (the same of calls; bounds are naturals; backlog and
cancelled are tasks),
`DaemonAssumption` (no pid is `NoPid`), `ControlPlaneAssumption`
(finitely many reports, a positive number of attempts, malformed and bare are
commands), `ExperimentsAssumption`
(those that intervene are experiments, nobody is none), `SchedulerAssumption`
(the table lists finitely many automations, each once; cap, heartbeat and periods
are positive) and `ApprovalsAssumption` (emails are no posts, the trusted are
posts and the barred emails, each email waits once, at least one send a tick).

`Director_proofs`
: `Safety`: `Spec => [](TypeOK /\ LocalsMatchRows /\ OneOpenArc /\
  ReportsInOrder /\ NoSourceTwice)`, of which `Ordered` and `Distinct` name two
  parts; `Frozen`: `Spec => EndedArcsAreFrozen`.
  `OneOpenArc` alone is not inductive: a tick decides to open an arc steps
  before it inserts the row, so the invariant must say that no arc is open while
  the tick is between the two. `ReportsInOrder` and `NoSourceTwice` need that
  the report above `phases_run` is empty, that the one at `phases_run + 1` is in
  flight exactly while its phase runs, and that what was worked is in
  `picked_keys`; `LocalsMatchRows` says all of it, and the proof goes action by
  action. The environment and the crash leave the rows of arcs alone, so most of
  them fall to one lemma each. `Seeds`: `Spec => SeedResolvedInFlight`, as what
  step 4 is about to resolve are answers to the running arc (`OwnAnswers`), and
  6b runs inside a phase. `Questioned`: `Spec => []PhaseQuestionsBounded`, as
  from the check of the cap to the question only a phase could take the place
  that was free (`Room`).
: `Overshoots`: `Spec => []OvershootsByOnePhase`; `Explained`: `Spec =>
  []ExitIsExplained`, for every budget, fineness of the clock, duration and cost and
  with crashes, throws and failed writes at any point, which the run leaves out.
  The first bounds what the reports say by the budget and half a minute a report;
  the second explains an exit for the budget by the time the arc was open
  (`lasted`), not by its reports, whose sum may fall short of it. The invariant
  `Budgets` says that the clock of the loop backs the reports of the running arc
  but for half a minute each (`Backed`) and what its local `exit` must be at the
  close (`Closing`; both in `ClockIsTrue`), that a report that is still empty or in
  flight has cost nothing (`FreeUntilDone`), and that its key
  is a source or a question somebody has asked, whose mode no longer changes
  (`KeysAreKnown`). The sums are
  `SumFunctionOnSet` of the community modules, a function of finite sets defined
  by recursion through CHOOSE; the lemmas before it (a sum is split at any
  element, grows with one entry, is zero on zeros) rest on the least subset that
  would refute them.

`Phase_proofs`
: `GoesOn`: `Spec => []OnlyRegressionsContinue`; `Rows`: `Spec =>
  []RowsTellTheOutcome`; `InTime`: `Spec => []EndsInTime`; `Refinement`: `Spec =>
  ContractSafety`, the contract without its fairness. The invariant says where
  the rows of the trio in progress and of those to come stand (`RowsFollow`,
  `RowsSettle`), that only a regression lets another trio begin (`Regressions`),
  that the founder was asked exactly if the last trio waits for the answer
  (`Asked`), and, for the longest call `d`, that a trio starts within the cap of
  the phase and a call within the cap of the trio (`Timely(d)`): both clocks are
  read at boundaries only.

`Semaphore_proofs`
: `Safety`: `Spec => [](TypeOK /\ HoldersAreCounted /\ NobodyWaitsForAFreeSlot /\
  QueueIsTheWaiters)`; the four together are inductive, and each needs another:
  that a release may hand its slot to the head needs the head to wait
  (`QueueIsTheWaiters`), that a caller that takes a free slot overtakes nobody
  needs `NobodyWaitsForAFreeSlot`. Lemmas on `Append`, `Tail` and `Spliced` say
  which callers a queue holds afterwards, and on finite sets how the number of
  holders changes. `Order`: `Spec => FirstComeFirstServed`. `Refinement`:
  `Spec => ImplementsContract`, with holders and waiters read off the promises.

`TaskEngine_proofs`
: Lemmas on the methods as functions of the semaphore's record say what each
  keeps of it (`Good`: the queue is the waiters, each once, and nobody waits
  beside a free slot) and that it settles only promises of those that wait
  (`Shift`). From them, `Slots`: `Spec => []NoSlotLeaks`, whatever
  runs twice, is cancelled, swept, restarted or released twice. Its invariant says
  that calls queue only while every slot is counted taken and that promises belong
  to calls that asked for them (`SlotsAreKept` in `IInv`), and that no more is
  counted taken than calls hold (`Backed`), which every way out of `executeTask`
  must keep: a call that forgets its promise gives back what it counted. `OneRun` (`Reexecute =
  FALSE`): `Spec => []OneRunPerTask`, with the invariant `Single`; `Ownership`
  (also `Catching = Tasks`, no sweep and no restart): `Spec => []PendingIsOwned`,
  with `Owned`, which adds that a call that may leave the row alone when it
  returns has a row that is not pending. Both range over the backlog and
  cancellations: a queued row is nobody's, and a timer may be left for a row its
  user cancelled. `Bounded` (`CliTasks = {}`): `Spec =>
  []RunningWithinSlots`; `Releases` (`CliTasks = {}`, no restart): `Spec =>
  ReleasesOnce`. The conditions are those of the code: the last two fail with the
  double release of the CLI path, the middle ones with the route that executes
  whatever the row says, a caller that does not catch, or a sweep of a live task.

`Schedulers_proofs`
: The loop of the conductor. `LoopSafety`: `Spec => [](TypeOK /\
  OneTickAtATime)`, for every interval and debounce. The timer, the request from
  outside and the request from inside the tick all start a body through
  `TickOnce`; one lemma says that it starts one only beside no other, which the
  invariant gives it, as the promise stands for the body. From the lemma that
  whatever starts a body does so unstopped, and is the timer or was not dropped:
  `Stopped`: `Spec => NothingStartsAfterStop` and `Spaced`: `Spec =>
  RequestsAreSpaced`.
: The cron scheduler. `Cron`: `CronSpec => [](CronTypeOK /\ CapIsKept /\
  OnlyTheCapSpins)`; `Capped` names the middle one, which the timer, the
  heartbeat and the first tick keep together, whatever falls due at once. A timer
  that fires below the cap either starts something or finds nothing due
  (`RoomIsUsed`: the first of the table that is due is started), and then
  `recalculate` arms it for later (`DelaysFacts`, `NoSpin`), whatever could not be
  marked (`MarkedFacts`). A tick starts no more than there is room for
  (`RoomIsEnough`: the last it starts has counted those before it). `GivesUp`:
  `CronSpec => OnlyAFailureSkips`: a chain that is started is new
  (`NewChainIsNew`), so it shows.
: The ledger of approvals. `SentOnce`: `LedgerSpec => [](LedgerTypeOK /\
  SentTwiceOnlyUnrecorded)`, for any number of entries, scripts, overlapping
  ticks and faults, beside scripts that apply and post by themselves. The invariant
  says that whatever follows an entry's first row says applied, in the file and in
  every copy a script holds (`LedgerSettled`): a rating edits the first row, so the
  last may lose its `applied` only where it is the first; that what was sent has its row, or is missed, and a post its text in the
  log, or not (`SendsLeaveTraces`); and that what waits in a queue, or is being
  posted, is there once and was sent before only if its row is missing
  (`QueuesAreUnsent`, `PostIsUnsent`). `OldestFacts` says that the list a tick
  works through has each entry once: every rank among finitely many numbers is
  somebody's (`RankIsHeld`).

`Daemon_proofs`
: `Safety`: `Spec => [](TypeOK /\ HolderUnlessRaced)`, for any number of
  processes and faults; `Orphans`: `Spec => OnlyOrphansAreFailed`; `NoneLeft`:
  `Spec => []NoOrphanBesideADaemon`, as of two daemons between claim and exit the
  file names one (`OneClaimed`), so nobody starts a task while another cleans up. That the file
  names its holder is not inductive: a process that read it and is about to write
  would break it. `OneInside` says that, unless two raced, nobody is in that place
  beside a holder or beside another; `WorkersRun` says that whoever works on a row
  has come past its clean-up and has not left.

`ControlPlane_proofs`
: `Safety`: `Spec => [](TypeOK /\ LostOnlyAfterFailures /\
  DispatchedOnceALife)`. A drain writes back the attempts it read some requests
  ago; the invariant (`Counted`) says that neither the row's count nor what any
  drain has read of it exceeds the failures there were, so a row that is dropped
  failed often enough, however many increments were lost. That no command is
  dispatched twice rests on `BehindTheCursor`: only what the cursor has passed
  was dispatched by this process (`OnceALife`).

`Experiments_proofs`
: `Once`: `Spec => []JudgedOnce`; `RolledBack`: `Spec => []NoFailedOverrideInForce`,
  for any number of experiments, ticks and interventions and however deep chains
  go. The invariant adds that one tick drains, and that what it has read or
  judges is pending (`OneDrains`); that a run holds its intervention until it is
  recorded (`RunsRecord`); that what was judged is settled (`JudgedIsSettled`);
  and that an override in force belongs to the intervention's author
  (`MadeByAuthors`), without which a roll-back might touch another's. Sweeps,
  chains and the end of a run fall to three lemmas on how they move the ticks.

Every invariant a run checks is proved, and every action property. Only
model-checked is what is said under fairness, which the prover has no rule for:
`EveryArcEnds`, `KeepsTicking`, `WaitersAreServed`, `TasksSettle`, `DueIsFired`, `QueueEmpties`, `CommandsArrive`,
`ApprovedAreSettled`, `DueValidationsAreJudged`, the fairness of
`Phase!Contract`. ENABLED is out of its reach too, and so
are induction theorems with an operator for a parameter: what would be shown by
induction over a finite set or a number is shown here by a least counterexample
(`LeastSubset`, `LeastNumber`), from the well-foundedness theorems of the
library. No module here declares a `RECURSIVE` operator.

## 5. Not modelled, and what is next

Next, in this order:

1. `Eternal` (`inactivity-watcher.ts`, `state.ts`, `cli/eternal.ts`): the check of
   a tick overwrites the mode an operator set by hand. `Director` lets the mode
   move at any time (`WorldMoves`), so that a tick is right whichever it reads.
2. `HeartbeatCoordinator`, the loop detector and the counters of the trigger
   watchdog, beside `Scheduler`.
3. The budget guard: spend is recorded after the call it gates, so that as many
   calls as there are slots may overshoot.
4. Peers: discovery, health and the election of a leader.

Not modelled:

- the brain, endocrine, homeostasis and sleep layers compute scores and prompt
  context in memory and share no protocol; the scheduler's gate is what is left of
  them here;
- the orchestrator's chat and its sub-orchestrators are loops whose control the
  model behind them chooses;
- integrations, media, voice, the browser and the cloud are I/O with services
  outside the repository; where a modelled part depends on one, its answers are
  nondeterministic;
- user interfaces, the MCP server and the language servers present and adapt;
- the file mirror only writes, the dry run only reads;
- data locality and mesh fail-over (`data-locality/approval.ts`,
  `mesh/mesh-resilience.ts`) wait for the peers above;
- text: prompts, reports, briefs, wording of notifications.

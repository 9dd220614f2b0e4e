----------------------------- MODULE Scheduler -----------------------------
(***************************************************************************)
(* The cron scheduler (src/scheduling/local-scheduler.ts) and the chains of *)
(* actions it, a route or the cloud starts through the trigger evaluator    *)
(* (src/triggers/local-trigger-evaluator.ts, local-trigger-service.ts,      *)
(* action-executor.ts).                                                    *)
(*                                                                         *)
(* The database adapter is synchronous, so everything a timer, a request or *)
(* a finished chain does between two waits for the outside world is one     *)
(* step here, a whole tick included.  What takes time is a chain.           *)
(*                                                                         *)
(* A cron expression and last_fired_at (or next_run_at) matter only through *)
(* what the scheduler makes of them: whether an occurrence has passed since *)
(* the last firing (due), and how long it is to the next (wait).            *)
(***************************************************************************)
EXTENDS Naturals, Sequences, FiniteSets, FiniteSetsExt, Functions

CONSTANTS
  Crons,      \* the triggers of type schedule, in the order the table returns them
  Rows,       \* agent_workforce_schedules
  Cap,        \* OHWOW_AUTOMATION_CONCURRENCY
  Heartbeat,  \* HEARTBEAT_INTERVAL, in minutes
  Period,     \* minutes between two occurrences, per cron and row
  MaxByHand,  \* bound: chains started by hand or by the cloud and running at once
  Unmarked,   \* those whose mark may fail: no valid action_config, or a write that fails
  Boots,      \* bound: starts that wait for the first import
  Off         \* no timer

ASSUME SchedulerAssumption ==
  /\ Crons \in Seq(Range(Crons)) /\ IsInjective(Crons)
  /\ Range(Crons) \cap Rows = {}
  /\ {Cap, Heartbeat} \subseteq Nat \ {0}
  /\ Period \in [Range(Crons) \cup Rows -> Nat \ {0}]
  /\ Unmarked \subseteq Range(Crons) \cup Rows
  /\ {MaxByHand, Boots} \subseteq Nat /\ Off \notin Nat

VARIABLES
  running,           \* the flag of the scheduler
  imported, booting, \* cron-parser is there; the starts that wait for it
  timer,             \* minutes to nextFireTimeout, or Off
  beat, handle,      \* minutes to the heartbeats, or Off; the one heartbeatTimer names, or 0
  gate,              \* homeostasis throttles, or the operator is off hours
  due, wait,         \* per cron and row
  ticked,            \* runningAutomations: the chains the scheduler started
  byHand,            \* chains of executeById from elsewhere, per cron
  spun               \* history: the timer fired for nothing below the cap, and was armed at 0

life == <<running, imported, booting>>
scheduler == <<life, timer, beat, handle>>
clocks == <<due, wait>>
cronVars == <<scheduler, gate, clocks, ticked, byHand, spun>>

-----------------------------------------------------------------------------
Autos == Range(Crons)
Timed == Autos \cup Rows
Beats == 1..(Boots + 1)      \* each start that waited may leave a heartbeat behind
Chains == Autos \X (1..Cap)  \* a chain of a cron, told from the others by a number

CronTypeOK ==
  /\ {running, imported, gate, spun} \subseteq BOOLEAN /\ booting \in 0..Boots
  /\ timer \in 0..Heartbeat \cup {Off} /\ beat \in [Beats -> 0..Heartbeat \cup {Off}]
  /\ handle \in Beats \cup {0}
  /\ due \in [Timed -> BOOLEAN] /\ \A t \in Timed : wait[t] \in 1..Period[t]
  /\ ticked \subseteq Chains /\ byHand \in [Autos -> 0..MaxByHand]

\* Nothing has fired yet, which counts as due.
CronInit ==
  /\ running = FALSE /\ imported = FALSE /\ booting = 0
  /\ timer = Off /\ beat = [b \in Beats |-> Off] /\ handle = 0
  /\ gate \in BOOLEAN
  /\ due = [t \in Timed |-> TRUE] /\ wait = Period
  /\ ticked = {} /\ byHand = [t \in Autos |-> 0] /\ spun = FALSE

-----------------------------------------------------------------------------
(* The timer *)

\* Minutes to the earliest run among what is enabled, capped; 0 if something is past due.
\* recalculate may read a trigger just before the mark of its firing, and then sees it due.
Delays(before, after) ==
  LET delay(d) == IF \E t \in Timed : d[t] THEN 0
                  ELSE Min({wait[t] : t \in Timed} \cup {Heartbeat})
      mixed == {[t \in Timed |-> IF t \in seen THEN before[t] ELSE after[t]] :
                  seen \in SUBSET Autos}
  IN {IF Timed = {} THEN Off ELSE delay(d) : d \in mixed}

\* recalculate: a stopped scheduler arms nothing, and what is armed stays.
Recalculated(before, after, armed) ==
  IF running' THEN timer' \in Delays(before, after) ELSE timer' = armed

\* Mutant: a gated tick recalculates, as any other.
RecalculatedForHeartbeat == Recalculated(due, due, Off)

\* deferForHeartbeat
DeferredForHeartbeat == timer' = Heartbeat

-----------------------------------------------------------------------------
(* A tick *)

Full == Cardinality(ticked) >= Cap

\* Mutant: the cap cuts the table off before it is asked what is due.
DispatchedOfTheFirst ==
  {Crons[k] : k \in {i \in DOMAIN Crons : due[Crons[i]] /\ Cardinality(ticked) + (i - 1) < Cap}}

\* tickAutomationSchedules: those that are due, until the set of chains is at the cap.
\* (One that fails at once keeps its place in the set for the rest of the tick.)
Ahead(k) == {j \in 1..(k - 1) : due[Crons[j]]}
Dispatched ==
  {Crons[k] : k \in {i \in DOMAIN Crons :
                       due[Crons[i]] /\ Cardinality(ticked) + Cardinality(Ahead(i)) < Cap}}

NewChain(t) == <<t, CHOOSE n \in 1..Cap : <<t, n>> \notin ticked>>

\* Mutant: whatever the tick has looked at counts as fired.
AllMarked(d, fired) == {[t \in Timed |-> FALSE]}

\* fireSchedule and markFired: what fires is no longer due, before its work begins,
\* unless its mark fails.
Marked(d, fired) ==
  {[t \in Timed |-> d[t] /\ t \notin fired \ lost] : lost \in SUBSET (fired \cap Unmarked)}

\* What a tick fires, the gates apart.
Fired == {r \in Rows : due[r]} \cup Dispatched

\* tick: the gates, the rows, the automations, the timer.
Tick(armed) ==
  \/ /\ gate
     /\ DeferredForHeartbeat
     /\ UNCHANGED <<due, ticked>>
  \/ /\ ~gate
     /\ due' \in Marked(due, Fired)
     /\ ticked' = ticked \cup {NewChain(t) : t \in Dispatched}
     /\ Recalculated(due, due', armed)

\* nextFireTimeout, which is spent.
FireTimeout ==
  /\ timer = 0
  /\ UNCHANGED <<life, beat, handle, gate, wait, byHand>>
  /\ Tick(Off)
  /\ spun' = (spun \/ (timer' = 0 /\ (gate \/ Fired = {}) /\ ~Full))

\* heartbeatTimer: one more tick, beside the timer.
BeatFires(b) ==
  /\ beat[b] = 0
  /\ beat' = [beat EXCEPT ![b] = Heartbeat]
  /\ UNCHANGED <<life, handle, gate, wait, byHand, spun>>
  /\ Tick(timer)

-----------------------------------------------------------------------------
(* Life of the scheduler *)

\* start, once cron-parser is there: a first tick, and a heartbeat.  Whatever the
\* handle named before goes on.
Begins ==
  /\ Tick(timer)
  /\ \E b \in Beats :
       /\ beat[b] = Off /\ \A c \in Beats : c < b => beat[c] # Off
       /\ beat' = [beat EXCEPT ![b] = Heartbeat] /\ handle' = b
  /\ UNCHANGED <<gate, wait, byHand, spun>>

Start ==
  /\ ~running /\ running' = TRUE
  /\ \/ /\ imported /\ UNCHANGED <<imported, booting>>
        /\ Begins
     \/ /\ ~imported /\ booting < Boots /\ booting' = booting + 1
        /\ UNCHANGED <<imported, timer, beat, handle, gate, clocks, ticked, byHand, spun>>

\* The import is there, and a start that waited goes on, stopped in between or not.
Started ==
  /\ booting > 0 /\ booting' = booting - 1
  /\ imported' = TRUE /\ UNCHANGED running
  /\ Begins

\* stop: at shutdown, and where another machine of the mesh is the primary one.  The
\* import that start waits for is not called off.
StopScheduler ==
  /\ running /\ running' = FALSE
  /\ timer' = Off
  /\ beat' = [b \in Beats |-> IF b = handle THEN Off ELSE beat[b]] /\ handle' = 0
  /\ UNCHANGED <<imported, booting, gate, clocks, ticked, byHand, spun>>

\* A schedule or an automation was created or changed.
Notify ==
  /\ running
  /\ UNCHANGED <<life, beat, handle, gate, clocks, ticked, byHand, spun>>
  /\ Recalculated(due, due, timer)

-----------------------------------------------------------------------------
(* Chains of actions *)

\* executeById from a route or the cloud: no cooldown and no cap.
RunsByHand(t) ==
  /\ byHand[t] < MaxByHand
  /\ byHand' = [byHand EXCEPT ![t] = @ + 1]
  /\ due' \in Marked(due, {t})
  /\ UNCHANGED <<scheduler, gate, wait, ticked, spun>>

\* A chain is over; a failed one is marked as fired again, now.
Completes(t) == UNCHANGED due
Fails(t) == due' \in Marked(due, {t})

TickedEnds(chain) ==
  /\ ticked' = ticked \ {chain}
  /\ Completes(chain[1]) \/ Fails(chain[1])
  /\ UNCHANGED <<scheduler, gate, wait, byHand, spun>>

ByHandEnds(t) ==
  /\ byHand[t] > 0
  /\ byHand' = [byHand EXCEPT ![t] = @ - 1]
  /\ Completes(t) \/ Fails(t)
  /\ UNCHANGED <<scheduler, gate, wait, ticked, spun>>

-----------------------------------------------------------------------------
(* Time and the world *)

Sooner(t) == IF t \in {Off, 0} THEN t ELSE t - 1

Minute ==
  /\ timer' = Sooner(timer) /\ beat' = [b \in Beats |-> Sooner(beat[b])]
  /\ wait' = [t \in Timed |-> IF wait[t] = 1 THEN Period[t] ELSE wait[t] - 1]
  /\ due' = [t \in Timed |-> due[t] \/ wait[t] = 1]
  /\ UNCHANGED <<life, handle, gate, ticked, byHand, spun>>

GateMoves == gate' = ~gate /\ UNCHANGED <<scheduler, clocks, ticked, byHand, spun>>

CronNext ==
  \/ FireTimeout \/ \E b \in Beats : BeatFires(b)
  \/ Start \/ Started \/ StopScheduler \/ Notify
  \/ \E chain \in ticked : TickedEnds(chain)
  \/ \E t \in Autos : RunsByHand(t) \/ ByHandEnds(t)
  \/ Minute \/ GateMoves

CronSpec == CronInit /\ [][CronNext]_cronVars

\* Time passes, and the event loop serves timers that are due and the end of the import.
CronFairSpec ==
  /\ CronSpec
  /\ WF_cronVars(Minute) /\ WF_cronVars(FireTimeout) /\ WF_cronVars(Started)
  /\ \A b \in Beats : WF_cronVars(BeatFires(b))

-----------------------------------------------------------------------------
\* A tick that fired nothing asks for another one at once only while the cap is full:
\* no gate makes the scheduler spin (deferForHeartbeat).  One that fired what cannot be
\* marked does ask for another.
OnlyTheCapSpins == ~spun

\* An occurrence is given up only in the step that fires its automation, or when an earlier
\* chain of the same automation fails and is marked as fired once more (what the cap defers
\* is to be "picked up on the next tick").
ChainsOf(t) == {chain \in ticked : chain[1] = t}
OnlyAFailureSkips ==
  [][\A t \in Autos : due[t] /\ ~due'[t] =>
        ChainsOf(t)' # ChainsOf(t) \/ byHand'[t] # byHand[t]]_cronVars

\* However much falls due at once, with a timer and a heartbeat that both tick, the scheduler
\* never has more chains under way than the cap: the loop counts the ones it has just started.
CapIsKept == Cardinality(ticked) <= Cap

\* What is due is fired in time and marked, if it can be, or the scheduler is stopped, gated
\* or, for an automation, at its cap; starts, stops and what cannot be marked beside it.
DueIsFired ==
  /\ \A t \in Rows \ Unmarked : []<>(~due[t] \/ ~running \/ gate)
  /\ \A t \in Autos \ Unmarked : []<>(~due[t] \/ ~running \/ gate \/ Full)
=============================================================================

------------------------------- MODULE Director -------------------------------
(***************************************************************************)
(* The Director and the Conductor tick that drives it                      *)
(* (src/autonomy/director.ts, conductor.ts, director-persistence.ts).      *)
(*                                                                         *)
(* One daemon serves one workspace.  A tick (conductorTick) may open an    *)
(* arc and run it to its end (runArc); every iteration of runArc's loop    *)
(* checks its budgets, resolves the founder's answers, asks the picker for *)
(* a phase, runs it and records it.  The rows it writes - director_arcs,   *)
(* director_phase_reports, founder_inbox - are shared with the founder,    *)
(* who answers through the API at any moment, and with watchers that file  *)
(* questions of their own, and they outlive the daemon.                    *)
(*                                                                         *)
(* A step is the code between two accesses to a row somebody else may      *)
(* write.  A phase is its contract (module PhaseContract): it may ask one  *)
(* question, then it returns a status, or it throws.                       *)
(***************************************************************************)
EXTENDS Naturals, FiniteSets, Functions

CONSTANTS
  Arcs,          \* ids of director_arcs rows (the supply bounds a run)
  Questions,     \* ids of founder_inbox rows (the supply bounds a run)
  Sources,       \* ranker candidates read off the pulse: approvals, deals, ...
  Modes,         \* revenue, polish, plumbing, tooling
  ModeOf,        \* the mode of each source
  WatcherMode,   \* the mode the ranker gives an answer to a watcher's question
  TrusteeModes,  \* modes whose decision type requires trustee approval
  MaxPhases,     \* budget_max_phases
  MaxMinutes,    \* budget_max_minutes
  MaxInbox,      \* budget_max_inbox_qs
  WallMinutes,   \* MODE_BUDGETS[mode].wall_minutes
  LlmCents,      \* MODE_BUDGETS[mode].llm_cents
  Minute,        \* ticks of the clock in a minute (60000 milliseconds in the code)
  PhaseTicks,    \* the durations a phase may take, in ticks
  GapTicks,      \* the time that may pass around a phase: reads, writes, the picker
  PhaseCents,    \* the LLM spend a phase may add to the arc's meter
  Pulses,        \* values of mrr_cents
  EternalModes,  \* values of eternal_state.mode
  MaxFaults,     \* bound: crashes, throws and failed writes in one run
  NoArc, NoKey

ASSUME ConstantsAssumption ==
  /\ NoArc \notin Arcs
  /\ IsFiniteSet(Questions)
  /\ Questions \cap Sources = {}
  /\ NoKey \notin Questions \cup Sources
  /\ ModeOf \in [Sources -> Modes]
  /\ WatcherMode \in Modes
  /\ TrusteeModes \subseteq Modes
  /\ MaxPhases \in Nat /\ MaxMinutes \in Nat /\ MaxInbox \in Nat
  /\ WallMinutes \in [Modes -> Nat] /\ LlmCents \in [Modes -> Nat]
  /\ Minute \in Nat \ {0} /\ PhaseTicks \subseteq Nat /\ GapTicks \subseteq Nat
  /\ PhaseCents \subseteq Nat
  /\ Pulses \subseteq Nat
  /\ EternalModes \subseteq {"normal", "conservative", "estate"}
  /\ MaxFaults \in Nat

VARIABLES
  arcs,        \* director_arcs: status, exit_reason, and closed_at less opened_at in ticks
  reports,     \* director_phase_reports: arc -> index -> row
  inbox,       \* founder_inbox
  mrr,         \* the pulse a read returns
  eternal,     \* eternal_state.mode
  pc,          \* where the tick is
  arc,         \* arc_id of the running arc
  phases_run,
  entry,       \* pulseAtEntry
  elapsed,     \* ticks since openedAt
  meter,       \* the arc's LLM meter
  picked,      \* picked_keys
  seed,        \* seedAnsweredPending
  answered,    \* newly_answered of this iteration
  todo,        \* inbox ids still to be resolved by the loop in progress
  exit,        \* exit_reason
  faults

durable == <<arcs, reports, inbox>>
world == <<mrr, eternal>>
local == <<arc, phases_run, entry, elapsed, meter, picked, seed, answered, todo, exit>>
vars == <<durable, world, pc, local, faults>>

-----------------------------------------------------------------------------
Keys == Sources \cup Questions

ExitReasons == {"nothing-queued", "budget", "founder-returned", "pulse-ko", "budget-exceeded"}
Finished == {"phase-closed", "phase-partial", "phase-blocked-on-founder", "phase-aborted"}
BeforeArc == {"open_arcs", "probe", "open"}
InPhase == {"commit", "phase", "asked"}
InArc == {"loop", "pulse", "answered", "resolve", "pick", "close"} \cup InPhase

ArcRow == [status: {"none", "open", "closed", "aborted"}, exit: ExitReasons \cup {"none"},
           lasted: Nat]
ReportRow == [status: {"none", "in-flight"} \cup Finished, key: Keys \cup {NoKey},
              minutes: Nat, cents: Nat]
InboxRow == [status: {"none", "open", "answered", "resolved"}, arc: Arcs \cup {NoArc},
             mode: Modes, from: {"phase", "watcher", "trustee"}]

NoReport == [status |-> "none", key |-> NoKey, minutes |-> 0, cents |-> 0]
NoQuestion == [status |-> "none", arc |-> NoArc, mode |-> WatcherMode, from |-> "watcher"]

TypeOK ==
  /\ arcs \in [Arcs -> ArcRow]
  /\ reports \in [Arcs -> [1..MaxPhases -> ReportRow]]
  /\ inbox \in [Questions -> InboxRow]
  /\ mrr \in Pulses
  /\ eternal \in EternalModes \cup {"normal"}
  /\ pc \in {"idle"} \cup BeforeArc \cup InArc
  /\ arc \in Arcs \cup {NoArc}
  /\ phases_run \in 0..MaxPhases
  /\ entry \in Nat /\ elapsed \in Nat /\ meter \in Nat
  /\ picked \subseteq Keys
  /\ seed \subseteq Questions /\ answered \subseteq Questions /\ todo \subseteq Questions
  /\ exit \in ExitReasons \cup {"none"}
  /\ faults \in Nat

OpenArcs == {a \in Arcs : arcs[a].status = "open"}
InboxWith(status) == {q \in Questions : inbox[q].status = status}
ModeOfKey(k) == IF k \in Questions THEN inbox[k].mode ELSE ModeOf[k]
Over(row) == LET m == ModeOfKey(row.key) IN
               row.minutes > WallMinutes[m] \/ row.cents > LlmCents[m]

FreshLocals ==
  /\ arc' = NoArc /\ phases_run' = 0 /\ entry' = 0 /\ elapsed' = 0 /\ meter' = 0
  /\ picked' = {} /\ seed' = {} /\ answered' = {} /\ todo' = {} /\ exit' = "none"

Init ==
  /\ arcs = [a \in Arcs |-> [status |-> "none", exit |-> "none", lasted |-> 0]]
  /\ reports = [a \in Arcs |-> [i \in 1..MaxPhases |-> NoReport]]
  /\ inbox = [q \in Questions |-> NoQuestion]
  /\ mrr \in Pulses
  /\ eternal = "normal"
  /\ pc = "idle"
  /\ arc = NoArc /\ phases_run = 0 /\ entry = 0 /\ elapsed = 0 /\ meter = 0
  /\ picked = {} /\ seed = {} /\ answered = {} /\ todo = {} /\ exit = "none"
  /\ faults = 0

\* A failure the code meets at this point; MaxFaults bounds how many a run has.
Fault == faults < MaxFaults /\ faults' = faults + 1
NoFault == UNCHANGED faults

\* INSERT INTO founder_inbox with a fresh id, status 'open'.
WriteQuestion(a, m, from) ==
  \E q \in InboxWith("none") :
    inbox' = [inbox EXCEPT ![q] = [status |-> "open", arc |-> a, mode |-> m, from |-> from]]

Exit(reason) == pc' = "close" /\ exit' = reason

-----------------------------------------------------------------------------
(* conductorTick *)

\* The timer fires and the tick reads eternal_state; a failed read does not stop it.
TickStart ==
  /\ pc = "idle"
  /\ \/ eternal = "normal" /\ NoFault
     \/ eternal # "normal" /\ Fault
  /\ pc' = "open_arcs"
  /\ UNCHANGED <<durable, world, local>>

\* Mutant: the tick does not look for an arc in flight.
CheckNoArcs ==
  /\ pc = "open_arcs" /\ pc' = "probe"
  /\ UNCHANGED <<durable, world, local, faults>>

\* An open arc, or a failed read of director_arcs, ends the tick.
CheckOpenArcs ==
  /\ pc = "open_arcs"
  /\ \/ OpenArcs = {} /\ pc' = "probe" /\ NoFault
     \/ OpenArcs # {} /\ pc' = "idle" /\ NoFault
     \/ pc' = "idle" /\ Fault
  /\ UNCHANGED <<durable, world, local>>

\* What the ranker may put first: an answer outranks every source, and the pulse
\* may hold any source, or none.
TopOf(answers, skip) ==
  LET live == answers \ skip IN IF live # {} THEN live ELSE (Sources \ skip) \cup {NoKey}

\* The seed answers; a failed read is logged and leaves none.
SeedAnswers(answers) ==
  \/ answers = InboxWith("answered") /\ NoFault
  \/ answers = {} /\ Fault

\* The rank probe tops out in a mode a trustee must approve: the question is filed (the
\* insert may fail) and the tick ends without an arc.
ProbeEscalates ==
  /\ pc = "probe"
  /\ \E answers \in SUBSET Questions, top \in Keys :
       /\ SeedAnswers(answers)
       /\ top \in TopOf(answers, {})
       /\ ModeOfKey(top) \in TrusteeModes
       /\ \/ WriteQuestion(NoArc, ModeOfKey(top), "trustee")
          \/ (InboxWith("none") = {} \/ faults < MaxFaults) /\ UNCHANGED inbox
  /\ pc' = "idle"
  /\ UNCHANGED <<arcs, reports, world, local>>

\* Otherwise the tick goes on to run an arc; a failed pulse read ends it instead.
ProbeProceeds ==
  /\ pc = "probe"
  /\ \/ \E answers \in SUBSET Questions :
          /\ SeedAnswers(answers)
          /\ \E top \in TopOf(answers, {}) : top # NoKey => ModeOfKey(top) \notin TrusteeModes
          /\ seed' = answers /\ pc' = "open"
     \/ UNCHANGED seed /\ pc' = "idle" /\ Fault
  /\ UNCHANGED <<durable, world, arc, phases_run, entry, elapsed, meter, picked, answered, todo,
                 exit>>

-----------------------------------------------------------------------------
(* runArc *)

\* The entry pulse and the insert of the arc's row; the tick made a fresh LLM meter.  A pulse
\* that could not be read is no baseline: nothing is below 0.
OpenArc ==
  /\ pc = "open"
  /\ \E a \in Arcs :
       /\ arcs[a].status = "none"
       /\ arcs' = [arcs EXCEPT ![a].status = "open"]
       /\ arc' = a
  /\ \/ entry' = mrr /\ NoFault
     \/ entry' = 0 /\ Fault
  /\ pc' = "loop"
  /\ UNCHANGED <<reports, inbox, world, phases_run, elapsed, meter, picked, seed, answered, todo,
                 exit>>

\* Bound: no arc id left, the run is over.
OutOfArcs ==
  /\ pc = "open" /\ \A a \in Arcs : arcs[a].status # "none"
  /\ pc' = "idle" /\ FreshLocals
  /\ UNCHANGED <<durable, world, faults>>

\* Mutants: the clock is not checked; the last tick counts as spent; the cap admits one
\* question too many.
OutOfPhases(now) == phases_run >= MaxPhases
OutOfBudgetEarly(now) == phases_run >= MaxPhases \/ now >= MaxMinutes * Minute
InboxOverfull == Cardinality(InboxWith("open")) > MaxInbox

OutOfBudget(now) == phases_run >= MaxPhases \/ now > MaxMinutes * Minute
InboxFull == Cardinality(InboxWith("open")) >= MaxInbox

\* 1, 1b, 2: the budget of phases, then the clock against the budget of minutes, then the cap on
\* open questions.  The clock has gone on since the last phase ended, and outside phases before.
CheckBudgets ==
  /\ pc = "loop"
  /\ \E t \in GapTicks : elapsed' = elapsed + t
  /\ IF OutOfBudget(elapsed') THEN Exit("budget")
     ELSE IF InboxFull THEN Exit("founder-returned")
     ELSE pc' = "pulse" /\ UNCHANGED exit
  /\ UNCHANGED <<durable, world, arc, phases_run, entry, meter, picked, seed, answered, todo,
                 faults>>

\* 3: a strict drop of the pulse since entry kills the arc; a failed read is no regression.
CheckPulse ==
  /\ pc = "pulse"
  /\ \/ mrr < entry /\ Exit("pulse-ko") /\ NoFault
     \/ mrr >= entry /\ pc' = "answered" /\ UNCHANGED exit /\ NoFault
     \/ pc' = "answered" /\ UNCHANGED exit /\ Fault
  /\ UNCHANGED <<durable, world, arc, phases_run, entry, elapsed, meter, picked, seed, answered,
                 todo>>

\* Mutant: the answers to every arc are read, and resolved, as this one's.
ReadAllAnswers ==
  /\ pc = "answered"
  /\ answered' = InboxWith("answered")
  /\ todo' = answered'
  /\ pc' = "resolve"
  /\ UNCHANGED <<durable, world, arc, phases_run, entry, elapsed, meter, picked, seed, exit,
                 faults>>

\* 4: the answered questions of this arc.
ReadAnswers ==
  /\ pc = "answered"
  /\ answered' = {q \in InboxWith("answered") : inbox[q].arc = arc}
  /\ todo' = answered'
  /\ pc' = "resolve"
  /\ UNCHANGED <<durable, world, arc, phases_run, entry, elapsed, meter, picked, seed, exit,
                 faults>>

\* UPDATE founder_inbox SET status = 'resolved' WHERE id = q; a failure is logged.
Resolve(q) ==
  /\ \/ inbox' = [inbox EXCEPT ![q].status = "resolved"] /\ NoFault
     \/ UNCHANGED inbox /\ Fault
  /\ todo' = todo \ {q}

\* 4 and 6b resolve one row at a time.
ResolveNext ==
  /\ pc \in {"resolve", "commit"}
  /\ \E q \in todo : Resolve(q)
  /\ UNCHANGED <<arcs, reports, world, pc, arc, phases_run, entry, elapsed, meter, picked, seed,
                 answered, exit>>

ResolveDone ==
  /\ pc \in {"resolve", "commit"} /\ todo = {}
  /\ pc' = IF pc = "resolve" THEN "pick" ELSE "phase"
  /\ UNCHANGED <<durable, world, local, faults>>

\* Mutant: the picker forgets what it picked.
NoPickedKeys == {}

\* The picker's memory: on the first call of an arc it is rebuilt from the arc's reports.
PickedKeys ==
  IF phases_run = 0 THEN picked \cup ({reports[arc][i].key : i \in 1..MaxPhases} \ {NoKey})
                    ELSE picked

\* 5: nothing left to rank, or the picker's pulse read failed.
PickNothing ==
  /\ pc = "pick"
  /\ \/ NoKey \in TopOf(answered \cup seed, PickedKeys) /\ NoFault
     \/ Fault
  /\ Exit("nothing-queued")
  /\ UNCHANGED <<durable, world, arc, phases_run, entry, elapsed, meter, picked, seed, answered,
                 todo>>

\* 5, 6: the top candidate not picked before; its report is inserted in-flight, and the seeds
\* drained by this call are the rows 6b will resolve.
PickPhase ==
  /\ pc = "pick"
  /\ \E key \in TopOf(answered \cup seed, PickedKeys) \ {NoKey} :
       /\ picked' = PickedKeys \cup {key}
       /\ reports' = [reports EXCEPT ![arc][phases_run + 1] =
                        [status |-> "in-flight", key |-> key, minutes |-> 0, cents |-> 0]]
  /\ todo' = seed /\ seed' = {} /\ answered' = {}
  /\ pc' = "commit"
  /\ UNCHANGED <<arcs, inbox, world, arc, phases_run, entry, elapsed, meter, exit, faults>>

\* 7: the phase asks the founder; a failed insert is logged and the phase blocks all the same.
PhaseAsks ==
  /\ pc = "phase"
  /\ \/ WriteQuestion(arc, ModeOfKey(reports[arc][phases_run + 1].key), "phase") /\ NoFault
     \/ UNCHANGED inbox /\ Fault
  /\ pc' = "asked"
  /\ UNCHANGED <<arcs, reports, world, local>>

\* cost_minutes: Math.round of the phase's time in minutes, a half rounded up.
Rounded(ticks) == (2 * ticks + Minute) \div (2 * Minute)

\* 7, 8, 8b: the phase returns, its row takes the status and the costs, and a phase over the
\* budget of its mode ends the arc.
PhaseReturns ==
  /\ pc \in {"phase", "asked"}
  /\ \E ticks \in PhaseTicks, cents \in PhaseCents,
        status \in IF pc = "asked" THEN {"phase-blocked-on-founder"}
                   ELSE {"phase-closed", "phase-partial", "phase-aborted"} :
       LET row == [reports[arc][phases_run + 1] EXCEPT
                     !.status = status, !.minutes = Rounded(ticks), !.cents = meter + cents]
       IN /\ reports' = [reports EXCEPT ![arc][phases_run + 1] = row]
          /\ elapsed' = elapsed + ticks
          /\ meter' = meter + cents
          /\ IF Over(row) THEN Exit("budget-exceeded") ELSE pc' = "loop" /\ UNCHANGED exit
  /\ phases_run' = phases_run + 1
  /\ UNCHANGED <<arcs, inbox, world, arc, entry, picked, seed, answered, todo, faults>>

\* Mutant: the catch around the phase leaves its report alone.
PhaseThrowsUnrecorded ==
  /\ pc = "phase"
  /\ Fault
  /\ phases_run' = phases_run + 1
  /\ Exit("pulse-ko")
  /\ UNCHANGED <<arcs, reports, inbox, world, arc, entry, elapsed, meter, picked, seed,
                 answered, todo>>

\* 7: the phase throws; its row is aborted at no cost but time, and the arc ends.
PhaseThrows ==
  /\ pc = "phase"
  /\ Fault
  /\ \E ticks \in PhaseTicks :
       /\ reports' = [reports EXCEPT ![arc][phases_run + 1].status = "phase-aborted",
                                     ![arc][phases_run + 1].minutes = Rounded(ticks)]
       /\ elapsed' = elapsed + ticks
  /\ phases_run' = phases_run + 1
  /\ Exit("pulse-ko")
  /\ UNCHANGED <<arcs, inbox, world, arc, entry, meter, picked, seed, answered, todo>>

\* Mutants: the row of the arc is never closed; the loop goes on after the close.
CloseArcUnrecorded ==
  /\ pc = "close"
  /\ pc' = "idle" /\ FreshLocals
  /\ UNCHANGED <<durable, world, faults>>

CloseArcAndGoOn ==
  /\ pc = "close"
  /\ arcs' = [arcs EXCEPT ![arc] = [status |-> "closed", exit |-> exit, lasted |-> elapsed]]
  /\ pc' = "pick"
  /\ UNCHANGED <<reports, inbox, world, local, faults>>

\* The arc's row is closed, or aborted on pulse-ko, and stamped with the time, and the tick
\* returns.
CloseArc ==
  /\ pc = "close"
  /\ \E t \in GapTicks :
       arcs' = [arcs EXCEPT ![arc] =
                  [status |-> IF exit = "pulse-ko" THEN "aborted" ELSE "closed",
                   exit |-> exit, lasted |-> elapsed + t]]
  /\ pc' = "idle" /\ FreshLocals
  /\ UNCHANGED <<reports, inbox, world, faults>>

\* A throw the arc does not handle - reading or writing its rows - reaches the tick, which
\* logs it; the rows stay as they are.
ArcThrows ==
  /\ pc \in {"open", "loop", "answered", "pick", "phase", "asked", "close"}
  /\ Fault
  /\ pc' = "idle" /\ FreshLocals
  /\ UNCHANGED <<durable, world>>

\* The daemon dies and is started again.
Crash ==
  /\ pc # "idle"
  /\ Fault
  /\ pc' = "idle" /\ FreshLocals
  /\ UNCHANGED <<durable, world>>

-----------------------------------------------------------------------------
(* The rest of the world *)

\* POST /api/founder-inbox/:id/answer: any existing row, whatever its status.
Answer ==
  /\ \E q \in Questions \ InboxWith("none") : inbox' = [inbox EXCEPT ![q].status = "answered"]
  /\ UNCHANGED <<arcs, reports, world, pc, local, faults>>

\* A watcher files a question of its own.
WatcherAsks ==
  /\ WriteQuestion(NoArc, WatcherMode, "watcher")
  /\ UNCHANGED <<arcs, reports, world, pc, local, faults>>

\* The business moves, and so does the eternal mode.
WorldMoves ==
  /\ \/ mrr' \in Pulses \ {mrr} /\ UNCHANGED eternal
     \/ eternal' \in EternalModes \ {eternal} /\ UNCHANGED mrr
  /\ UNCHANGED <<durable, pc, local, faults>>

-----------------------------------------------------------------------------
TickStep == CheckOpenArcs \/ ProbeEscalates \/ ProbeProceeds
ArcStep ==
  \/ OpenArc \/ OutOfArcs \/ CheckBudgets \/ CheckPulse \/ ReadAnswers \/ ResolveNext
  \/ ResolveDone \/ PickNothing \/ PickPhase \/ PhaseAsks \/ PhaseReturns \/ PhaseThrows
  \/ CloseArc
Environment == Answer \/ WatcherAsks \/ WorldMoves

Next == TickStart \/ TickStep \/ ArcStep \/ ArcThrows \/ Crash \/ Environment

Spec == Init /\ [][Next]_vars

\* The event loop runs a tick it has started; the timer starts another.  Nobody has to answer.
FairSpec == Spec /\ WF_vars(TickStep \/ ArcStep) /\ WF_vars(TickStart)

-----------------------------------------------------------------------------
(* Properties *)

Ran(a) == {i \in 1..MaxPhases : reports[a][i].status # "none"}

\* A workspace has at most one open arc: the guard of the tick is read long before the
\* insert of the row, and crashes leave rows open (conductor.ts, arc-in-flight).
OneOpenArc == \A a, b \in OpenArcs : a = b

\* The reports of an arc are filled in order and one at a time, and a report is in flight
\* only while its arc is open: no close leaves a phase running, on any exit path.
ReportsInOrder ==
  \A a \in Arcs : \A i \in Ran(a) :
    /\ \A j \in 1..(i - 1) : reports[a][j].status \in Finished
    /\ reports[a][i].status = "in-flight" => arcs[a].status = "open"

\* The locals of a tick tell the truth about the rows others read: an arc is opened only when
\* none is open, the running arc is the open one, its reports up to phases_run are finished,
\* the next is in flight exactly while its phase runs, and every source it worked is in
\* picked_keys.
LocalsMatchRows ==
  /\ pc \in {"idle"} \cup BeforeArc => arc = NoArc /\ phases_run = 0
  /\ pc \in {"probe", "open"} => OpenArcs = {}
  /\ pc \in InArc =>
       /\ OpenArcs = {arc}
       /\ \A i \in 1..MaxPhases :
            /\ i <= phases_run => reports[arc][i].status \in Finished
            /\ i = phases_run + 1 =>
                 reports[arc][i].status = IF pc \in InPhase THEN "in-flight" ELSE "none"
            /\ i > phases_run + 1 => reports[arc][i].status = "none"
            /\ i \in Ran(arc) => reports[arc][i].key \in picked
       /\ pc \in {"loop", "close"} \/ phases_run < MaxPhases
  /\ \A a \in Arcs : arcs[a].status = "none" => Ran(a) = {}

\* One arc never works the same source twice, nor the same answer (picked_keys, Bug #1).
NoSourceTwice ==
  \A a \in Arcs : \A i, j \in Ran(a) : i # j => reports[a][i].key # reports[a][j].key

\* A phase over the budget of its mode is the last of its arc (8b), and the minutes an arc has
\* reported before its last phase exceed its budget by no more than the rounding, half a minute
\* a report: the clock of 1b is real time, each report's minutes are rounded on their own.
Minutes(a) == [j \in 1..MaxPhases |-> reports[a][j].minutes]
SpentBefore(a, i) == SumFunctionOnSet(Minutes(a), 1..(i - 1))
OvershootsByOnePhase ==
  \A a \in Arcs : \A i \in Ran(a) :
    /\ 2 * SpentBefore(a, i) <= 2 * MaxMinutes + (i - 1)
    /\ \A j \in 1..(i - 1) : ~Over(reports[a][j])

\* What a closed arc's row says of its exit agrees with its own times and the reports it left:
\* 'budget' means that all phases ran or that it was open longer than budget_max_minutes,
\* 'budget-exceeded' that a report is over the budget of its mode.
ExitIsExplained ==
  \A a \in Arcs :
    /\ arcs[a].exit = "budget" => Cardinality(Ran(a)) = MaxPhases \/ arcs[a].lasted > MaxMinutes * Minute
    /\ arcs[a].exit = "budget-exceeded" <=>
         /\ arcs[a].exit # "none"
         /\ \E i \in Ran(a) : Over(reports[a][i]) /\ arcs[a].exit # "pulse-ko"

\* The open questions that phases asked never outnumber the inbox cap, whatever the
\* watchers file between the check of the cap and the question.
PhaseQuestionsBounded ==
  Cardinality({q \in InboxWith("open") : inbox[q].from = "phase"}) <= MaxInbox

\* An answer of an earlier arc is resolved only when a phase of the running arc is in
\* flight: an arc that ends before leaves it for the next tick (6b, Phase 6.7).
ResolvedBy(q) == inbox[q].status = "answered" /\ inbox'[q].status = "resolved"
SeedResolvedInFlight ==
  [][\A q \in Questions : ResolvedBy(q) /\ inbox[q].arc # arc =>
        \E i \in Ran(arc) : reports[arc][i].status = "in-flight"]_vars

\* The rows of an arc that has ended never change again.
EndedArcsAreFrozen ==
  [][\A a \in Arcs : arcs[a].status \in {"closed", "aborted"} =>
        UNCHANGED <<arcs[a], reports[a]>>]_vars

\* Every arc that opens ends, whatever the founder and the pulse do.
EveryArcEnds == \A a \in Arcs : arcs[a].status = "open" ~> arcs[a].status # "open"
=============================================================================

-------------------------------- MODULE Phase --------------------------------
(***************************************************************************)
(* The phase orchestrator and the trios it runs                            *)
(* (src/autonomy/phase-orchestrator.ts, trio.ts, round-runner.ts,          *)
(* persistence.ts).                                                        *)
(*                                                                         *)
(* A phase runs up to MaxTrios trios, each of them plan -> impl -> qa, and *)
(* re-plans after a trio that regressed.  Rounds are executor calls whose  *)
(* return is validated and asked for once more when its shape is wrong.    *)
(* Every round is recorded best effort.                                    *)
(***************************************************************************)
EXTENDS Naturals, Sequences

CONSTANTS
  MaxTrios,      \* input.max_trios, 3
  PhaseMinutes,  \* input.max_minutes of the phase, 180
  TrioMinutes,   \* max_minutes of a trio, 90
  CallMinutes,   \* the durations an executor call may take
  OnRegression,  \* replan-tighter or close-partial
  MaxFaults      \* bound: failed writes and throws in one run

ASSUME PhaseAssumption ==
  /\ MaxTrios \in Nat /\ PhaseMinutes \in Nat /\ TrioMinutes \in Nat
  /\ CallMinutes \subseteq Nat
  /\ OnRegression \in {"replan-tighter", "close-partial"}
  /\ MaxFaults \in Nat

VARIABLES
  pc,        \* "boundary" between trios; "plan", "impl", "qa" the round's boundary;
             \* "call" the executor runs; "record" onRoundComplete; "judge" the switch on
             \* the return; "ended" the trio has an outcome; then a status, or "threw"
  kind,      \* the round in progress
  retry,     \* the executor was re-prompted
  ret,       \* the validated return
  trios,     \* outcomes of the trios that ended
  written,   \* trioRowWritten
  roundIdx,
  rows,      \* phase_trios: the outcome column of each trio's row
  rounds,    \* phase_rounds: the rows of each trio
  clock,     \* minutes since the phase started
  trioClock, \* minutes since the trio started
  aborted,   \* abort.poll() reports a reason
  asked,     \* how often onFounderQuestion was called
  faults

vars == <<pc, kind, retry, ret, trios, written, roundIdx, rows, rounds, clock, trioClock,
          aborted, asked, faults>>
record == <<written, roundIdx, rows, rounds>>
time == <<clock, trioClock>>

-----------------------------------------------------------------------------
Kinds == {"plan", "impl", "qa"}
Outcomes == {"successful", "regressed", "blocked", "awaiting-founder"}
Statuses == {"phase-closed", "phase-partial", "phase-blocked-on-founder", "phase-aborted"}
Ended == Statuses \cup {"threw"}

\* What validation lets through: the status of a plan or an impl round with whether it
\* carries a brief, the verdict of a qa round (its status is not looked at).
Returns(k) ==
  IF k = "qa" THEN {"passed", "failed-fixed", "failed-escalate"} \X {FALSE}
  ELSE {"continue", "needs-input", "blocked", "done"} \X BOOLEAN
AnyReturn == UNION {Returns(k) : k \in Kinds}
NoReturn == <<"none", FALSE>>

Trio == Len(trios) + 1

TypeOK ==
  /\ pc \in {"boundary", "plan", "impl", "qa", "call", "record", "judge", "ended"} \cup Ended
  /\ kind \in Kinds
  /\ retry \in BOOLEAN /\ written \in BOOLEAN /\ aborted \in BOOLEAN
  /\ ret \in AnyReturn \cup {NoReturn}
  /\ trios \in Seq(Outcomes) /\ Len(trios) <= MaxTrios
  /\ roundIdx \in 0..3
  /\ rows \in [1..MaxTrios -> {"none", "in-flight"} \cup Outcomes]
  /\ rounds \in [1..MaxTrios -> SUBSET ((1..3) \X Kinds)]
  /\ clock \in Nat /\ trioClock \in Nat /\ asked \in Nat /\ faults \in Nat

Init ==
  /\ pc = "boundary" /\ kind = "plan" /\ retry = FALSE /\ ret = NoReturn
  /\ trios = <<>> /\ written = FALSE /\ roundIdx = 0
  /\ rows = [t \in 1..MaxTrios |-> "none"]
  /\ rounds = [t \in 1..MaxTrios |-> {}]
  /\ clock = 0 /\ trioClock = 0
  /\ aborted = FALSE /\ asked = 0 /\ faults = 0

Fault == faults < MaxFaults /\ faults' = faults + 1
NoFault == UNCHANGED faults

\* The trio finishes with this outcome.
Finish(outcome) == pc' = "ended" /\ trios' = Append(trios, outcome)

-----------------------------------------------------------------------------
(* runPhase *)

FreshTrio == trioClock' = 0 /\ written' = FALSE /\ roundIdx' = 0

\* Mutant: the trio's clock is compared with the cap of the phase.
OutOfTimeByTrio == trioClock > PhaseMinutes

OutOfTime == clock > PhaseMinutes

\* The abort source and the wall clock between trios; then a trio starts.  A phase allowed
\* no trio at all is aborted.
StartTrio ==
  /\ pc = "boundary"
  /\ IF Len(trios) = MaxTrios \/ aborted \/ OutOfTime
       THEN pc' = "phase-aborted" /\ UNCHANGED <<kind, trioClock, written, roundIdx>>
       ELSE pc' = "plan" /\ kind' = "plan" /\ FreshTrio
  /\ UNCHANGED <<retry, ret, trios, rows, rounds, clock, aborted, asked, faults>>

\* Mutant: a blocked trio is re-planned as well.
StatusForBlockedToo(outcome) ==
  CASE outcome = "successful" -> "phase-closed"
    [] outcome = "awaiting-founder" -> "phase-blocked-on-founder"
    [] outcome \in {"blocked", "regressed"} ->
         IF Len(trios) < MaxTrios THEN "boundary" ELSE "phase-partial"

StatusFor(outcome) ==
  CASE outcome = "successful" -> "phase-closed"
    [] outcome = "awaiting-founder" -> "phase-blocked-on-founder"
    [] outcome = "blocked" -> "phase-aborted"
    [] outcome = "regressed" -> IF OnRegression = "replan-tighter" /\ Len(trios) < MaxTrios
                                  THEN "boundary" ELSE "phase-partial"

\* Mutant: the row stays in flight.
EndTrioUnrecorded ==
  /\ pc = "ended"
  /\ pc' = StatusFor(trios[Len(trios)])
  /\ UNCHANGED <<kind, retry, ret, trios, record, time, aborted, asked, faults>>

\* The trio's row, if there is one, takes the outcome, and the outcome decides.
EndTrio ==
  /\ pc = "ended"
  /\ LET outcome == trios[Len(trios)] IN
       /\ \/ written /\ rows' = [rows EXCEPT ![Len(trios)] = outcome] /\ NoFault
          \/ written /\ UNCHANGED rows /\ Fault
          \/ ~written /\ UNCHANGED <<rows, faults>>
       /\ pc' = StatusFor(outcome)
  /\ UNCHANGED <<kind, retry, ret, trios, written, roundIdx, rounds, time, aborted, asked>>

-----------------------------------------------------------------------------
(* runTrio and runRound *)

TrioMustStop == aborted \/ trioClock > TrioMinutes

\* The abort source and the trio's clock before each round.
Boundary ==
  /\ pc \in Kinds
  /\ IF TrioMustStop
       THEN Finish("blocked") /\ UNCHANGED <<kind, retry>>
       ELSE pc' = "call" /\ kind' = pc /\ retry' = FALSE /\ UNCHANGED trios
  /\ UNCHANGED <<ret, record, time, aborted, asked, faults>>

\* The executor returns after a while: a valid block; a block of the wrong shape, which is
\* asked for once more and then regresses the trio; or it throws, and so does the phase.
Call ==
  /\ pc = "call"
  /\ \E d \in CallMinutes : clock' = clock + d /\ trioClock' = trioClock + d
  /\ \/ ret' \in Returns(kind) /\ pc' = "record" /\ UNCHANGED <<retry, trios, faults>>
     \/ ~retry /\ retry' = TRUE /\ UNCHANGED <<pc, ret, trios, faults>>
     \/ retry /\ Finish("regressed") /\ UNCHANGED <<retry, ret, faults>>
     \/ Fault /\ pc' = "threw" /\ UNCHANGED <<retry, ret, trios>>
  /\ UNCHANGED <<kind, record, aborted, asked>>

\* onRoundComplete: the trio's row on the first round, then the round's; a failed write is
\* logged, and skips the rest.
Record ==
  /\ pc = "record"
  /\ \/ /\ NoFault
        /\ rounds' = [rounds EXCEPT ![Trio] = @ \cup {<<roundIdx + 1, kind>>}]
        /\ roundIdx' = roundIdx + 1
        /\ written' = TRUE
        /\ rows' = IF written THEN rows ELSE [rows EXCEPT ![Trio] = "in-flight"]
     \/ /\ Fault /\ ~written           \* writeTrio fails
        /\ UNCHANGED record
     \/ /\ Fault                       \* writeRound fails
        /\ roundIdx' = roundIdx + 1
        /\ written' = TRUE
        /\ rows' = IF written THEN rows ELSE [rows EXCEPT ![Trio] = "in-flight"]
        /\ UNCHANGED rounds
  /\ pc' = "judge"
  /\ UNCHANGED <<kind, retry, ret, trios, time, aborted, asked>>

\* The switch on the return of the round, one operator per round.
\* Mutant: the trio waits for a founder nobody asked.
AskNobody == UNCHANGED asked /\ Finish("awaiting-founder")

AskFounder == asked' = asked + 1 /\ Finish("awaiting-founder")

JudgePlan ==
  /\ kind = "plan"
  /\ \/ ret[1] = "needs-input" /\ AskFounder
     \/ ret[1] = "blocked" /\ Finish("blocked") /\ UNCHANGED asked
     \/ ret[1] = "done" /\ Finish("successful") /\ UNCHANGED asked
     \/ ret = <<"continue", FALSE>> /\ Finish("regressed") /\ UNCHANGED asked
     \/ ret = <<"continue", TRUE>> /\ pc' = "impl" /\ UNCHANGED <<trios, asked>>

JudgeImpl ==
  /\ kind = "impl"
  /\ \/ ret[1] = "needs-input" /\ AskFounder
     \/ ret[1] = "blocked" /\ Finish("regressed") /\ UNCHANGED asked
     \/ ret[1] = "done" /\ Finish("successful") /\ UNCHANGED asked
     \/ ret[1] = "continue" /\ pc' = "qa" /\ UNCHANGED <<trios, asked>>

JudgeQa ==
  /\ kind = "qa"
  /\ Finish(IF ret[1] = "failed-escalate" THEN "regressed" ELSE "successful")
  /\ UNCHANGED asked

Judge ==
  /\ pc = "judge"
  /\ JudgePlan \/ JudgeImpl \/ JudgeQa
  /\ ret' = NoReturn
  /\ UNCHANGED <<kind, retry, record, time, aborted, faults>>

\* The abort source trips; it stays tripped.
Abort ==
  /\ ~aborted /\ pc \notin Ended
  /\ aborted' = TRUE
  /\ UNCHANGED <<pc, kind, retry, ret, trios, record, time, asked, faults>>

-----------------------------------------------------------------------------
PhaseStep == StartTrio \/ EndTrio \/ Boundary \/ Call \/ Record \/ Judge
Done == pc \in Ended /\ UNCHANGED vars

Next == PhaseStep \/ Abort \/ Done

\* The orchestrator runs on, and executors return.
Spec == Init /\ [][Next]_vars /\ WF_vars(PhaseStep)

-----------------------------------------------------------------------------
(* Properties *)

\* A phase goes on only after a trio that regressed, and its status is that of its last.
OnlyRegressionsContinue ==
  /\ \A t \in 1..Len(trios) - 1 : trios[t] = "regressed"
  /\ pc = "phase-closed" <=> (pc \in Statuses /\ trios # <<>> /\ trios[Len(trios)] = "successful")

\* A trio's row never tells another outcome than the trio's own, and a recorded round always
\* has its trio's row, whatever writes failed in between; without a failed write a phase that
\* ended leaves no row in flight, and only a trio blocked before its first round, or one whose
\* plan never parsed, leaves no row.
RowsTellTheOutcome ==
  /\ \A t \in 1..Len(trios) : rows[t] \in {"none", "in-flight", trios[t]}
  /\ \A t \in 1..MaxTrios : rounds[t] # {} => rows[t] # "none"
  /\ faults = 0 /\ pc \in Statuses =>
       \A t \in 1..MaxTrios :
         /\ rows[t] # "in-flight"
         /\ t <= Len(trios) /\ rows[t] = "none" => trios[t] \in {"blocked", "regressed"}

\* Both clocks are read at boundaries only: a phase outlasts its cap by one trio at most,
\* and a trio outlasts its own by one round and its re-prompt.
EndsInTime ==
  \A d \in CallMinutes : (\A e \in CallMinutes : e <= d) =>
    clock <= PhaseMinutes + TrioMinutes + 2 * d

\* The phase is what the Director relies on.
Contract == INSTANCE PhaseContract WITH
  status <- IF pc \in Ended THEN pc ELSE "running",
  asked <- asked > 0
ImplementsContract == Contract!Spec
=============================================================================

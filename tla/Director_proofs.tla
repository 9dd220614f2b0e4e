--------------------------- MODULE Director_proofs ---------------------------
(***************************************************************************)
(* What holds of a Director's arcs and reports for every set of arcs,       *)
(* questions and sources, every budget and every number of crashes.         *)
(*                                                                         *)
(* OneOpenArc and ReportsInOrder are not inductive: the step that opens an  *)
(* arc, and those that write a report, act on what the tick read before, so *)
(* the invariant adds LocalsMatchRows, which says what the locals of the    *)
(* tick still say of the rows.  The budgets of an arc need one more         *)
(* invariant, Budgets: the clock of the loop backs the minutes on the       *)
(* reports but for their rounding, so the lemmas about sums over finite     *)
(* sets and about rounding come first.                                      *)
(***************************************************************************)
EXTENDS Director, FiniteSetTheorems, TLAPS

IInv == TypeOK /\ LocalsMatchRows /\ OneOpenArc /\ ReportsInOrder /\ NoSourceTwice

-----------------------------------------------------------------------------
(* Which steps write a row of director_arcs or director_phase_reports *)

Quiet == UNCHANGED <<arcs, reports>>

LEMMA RowWriters ==
  ASSUME [Next]_vars
  PROVE  Quiet \/ OpenArc \/ PickPhase \/ PhaseReturns \/ PhaseThrows \/ CloseArc
  BY DEF Next, Quiet, TickStart, TickStep, CheckOpenArcs, ProbeEscalates, ProbeProceeds, ArcStep,
         OutOfArcs, CheckBudgets, CheckPulse, ReadAnswers, ResolveNext, ResolveDone,
         PickNothing, PhaseAsks, ArcThrows, Crash, Environment, Answer, WatcherAsks,
         WorldMoves, vars, durable

-----------------------------------------------------------------------------
(* Rounding *)

\* A phase's time is over its minutes on the report but for half a minute.
LEMMA Rounding ==
  ASSUME NEW ticks \in Nat
  PROVE  Rounded(ticks) \in Nat /\ 2 * (Minute * Rounded(ticks)) <= 2 * ticks + Minute
  <1> DEFINE n == 2 * ticks + Minute
             d == 2 * Minute
  <1>1. n \in Nat /\ d \in Nat /\ d > 0
    BY ConstantsAssumption
  <1>2. ASSUME NEW x \in Nat, NEW y \in Nat, y > 0 PROVE x \div y \in Nat /\ y * (x \div y) <= x
    BY <1>2
  <1> HIDE DEF n, d
  <1>3. n \div d \in Nat /\ d * (n \div d) <= n
    BY <1>1, <1>2
  <1>4. ASSUME NEW q \in Nat PROVE (2 * Minute) * q = 2 * (Minute * q)
    BY ConstantsAssumption
  <1> QED
    BY <1>3, <1>4 DEF Rounded, n, d

\* Each report adds its own rounding.
LEMMA RoundingAdds ==
  ASSUME NEW s \in Nat, NEW m \in Nat, NEW e \in Nat, NEW t \in Nat, NEW k \in Nat,
         2 * (Minute * s) <= 2 * e + k * Minute,
         2 * (Minute * m) <= 2 * t + Minute
  PROVE  2 * (Minute * (s + m)) <= 2 * (e + t) + (k + 1) * Minute
  BY ConstantsAssumption

\* While the clock is within the budget, the minutes reported are but for the rounding.
LEMMA WithinBudget ==
  ASSUME NEW s \in Nat, NEW e \in Nat, NEW k \in Nat,
         2 * (Minute * s) <= 2 * e + k * Minute, e <= MaxMinutes * Minute
  PROVE  2 * s <= 2 * MaxMinutes + k
  <1> SUFFICES ASSUME 2 * s >= 2 * MaxMinutes + k + 1 PROVE FALSE
    BY ConstantsAssumption
  <1>1. Minute * (2 * s) >= Minute * (2 * MaxMinutes + k + 1)
    BY ConstantsAssumption
  <1> QED
    BY <1>1, ConstantsAssumption

-----------------------------------------------------------------------------
(* Types *)

LEMMA ModeOfKeyType == ASSUME TypeOK, NEW k \in Keys PROVE ModeOfKey(k) \in Modes
  BY ConstantsAssumption DEF TypeOK, ModeOfKey, Keys, InboxRow

LEMMA WriteQuestionType ==
  ASSUME TypeOK, NEW a \in Arcs \cup {NoArc}, NEW m \in Modes,
         NEW from \in {"phase", "watcher", "trustee"}, WriteQuestion(a, m, from)
  PROVE  inbox' \in [Questions -> InboxRow]
  BY DEF TypeOK, WriteQuestion, InboxWith, InboxRow

LEMMA AnswerType ==
  ASSUME TypeOK, NEW q \in Questions, NEW s \in {"answered", "resolved"},
         inbox' = [inbox EXCEPT ![q].status = s]
  PROVE  inbox' \in [Questions -> InboxRow]
  BY DEF TypeOK, InboxRow

LEMMA TopOfType ==
  ASSUME NEW answers \in SUBSET Questions, NEW skip, NEW k \in TopOf(answers, skip), k # NoKey
  PROVE  k \in Keys /\ k \notin skip
  BY DEF TopOf, Keys

LEMMA FreshType ==
  ASSUME TypeOK, FreshLocals, pc' = "idle"
  PROVE  /\ pc' \in {"idle"} \cup BeforeArc \cup InArc
         /\ arc' \in Arcs \cup {NoArc} /\ phases_run' \in 0..MaxPhases
         /\ entry' \in Nat /\ elapsed' \in Nat /\ meter' \in Nat
         /\ picked' \subseteq Keys
         /\ seed' \subseteq Questions /\ answered' \subseteq Questions /\ todo' \subseteq Questions
         /\ exit' \in ExitReasons \cup {"none"}
  BY ConstantsAssumption DEF FreshLocals

LEMMA InArcFacts ==
  ASSUME TypeOK, LocalsMatchRows, pc \in InArc
  PROVE  /\ arc \in Arcs /\ OpenArcs = {arc} /\ arcs[arc].status = "open"
         /\ phases_run \in 0..MaxPhases /\ MaxPhases \in Nat
  BY ConstantsAssumption DEF LocalsMatchRows, OpenArcs, TypeOK

LEMMA InPhaseFacts ==
  ASSUME TypeOK, LocalsMatchRows, pc \in InPhase
  PROVE  /\ arc \in Arcs /\ OpenArcs = {arc}
         /\ phases_run \in Nat /\ phases_run + 1 \in 1..MaxPhases
         /\ reports[arc][phases_run + 1] \in ReportRow
         /\ reports[arc][phases_run + 1].status = "in-flight"
         /\ reports[arc][phases_run + 1].key \in picked
  <1>1. pc \in InArc /\ ~(pc \in {"loop", "close"})
    BY DEF InArc, InPhase
  <1>2. arc \in Arcs /\ OpenArcs = {arc} /\ phases_run \in 0..MaxPhases /\ MaxPhases \in Nat
    BY <1>1, InArcFacts
  <1>3. phases_run + 1 \in 1..MaxPhases
    BY <1>1, <1>2 DEF LocalsMatchRows
  <1>4. reports[arc][phases_run + 1] \in ReportRow
    BY <1>2, <1>3 DEF TypeOK
  <1>5. reports[arc][phases_run + 1].status = "in-flight"
    BY <1>1, <1>3 DEF LocalsMatchRows
  <1>6. phases_run + 1 \in Ran(arc)
    BY <1>3, <1>5 DEF Ran
  <1> QED
    BY <1>1, <1>2, <1>3, <1>4, <1>5, <1>6 DEF LocalsMatchRows

LEMMA InitTypeOK == Init => TypeOK
  BY ConstantsAssumption
  DEF Init, TypeOK, ArcRow, ReportRow, InboxRow, NoReport, NoQuestion

LEMMA NextTypeOK == ASSUME TypeOK, LocalsMatchRows, [Next]_vars PROVE TypeOK'
  <1> USE DEF durable, world, local
  <1>1. CASE UNCHANGED vars
    BY <1>1 DEF vars, TypeOK
  <1>2. CASE TickStart
    BY <1>2 DEF TickStart, Fault, NoFault, TypeOK, BeforeArc
  <1>3. CASE CheckOpenArcs
    BY <1>3 DEF CheckOpenArcs, Fault, NoFault, TypeOK, BeforeArc
  <1>4. CASE ProbeEscalates
    <2>1. inbox' \in [Questions -> InboxRow]
      <3>1. PICK answers \in SUBSET Questions, top \in Keys :
              WriteQuestion(NoArc, ModeOfKey(top), "trustee") \/ UNCHANGED inbox
        BY <1>4 DEF ProbeEscalates
      <3> QED
        BY <3>1, ModeOfKeyType, WriteQuestionType DEF TypeOK
    <2>2. faults' \in Nat
      BY <1>4 DEF ProbeEscalates, SeedAnswers, Fault, NoFault, TypeOK
    <2> QED
      BY <1>4, <2>1, <2>2 DEF ProbeEscalates, TypeOK
  <1>5. CASE ProbeProceeds
    <2>1. seed' \subseteq Questions /\ faults' \in Nat /\ pc' \in {"open", "idle"}
      BY <1>5 DEF ProbeProceeds, SeedAnswers, Fault, NoFault, TypeOK
    <2>2. UNCHANGED <<durable, world, arc, phases_run, entry, elapsed, meter, picked, answered,
                      todo, exit>>
      BY <1>5 DEF ProbeProceeds
    <2> QED
      BY <2>1, <2>2 DEF TypeOK, BeforeArc
  <1>6. CASE OpenArc
    <2>1. PICK a \in Arcs : arcs' = [arcs EXCEPT ![a].status = "open"] /\ arc' = a
      BY <1>6 DEF OpenArc
    <2>2. arcs' \in [Arcs -> ArcRow]
      BY <2>1 DEF TypeOK, ArcRow
    <2>3. entry' \in Nat /\ pc' \in InArc /\ faults' \in Nat
      BY <1>6, ConstantsAssumption DEF OpenArc, Fault, NoFault, TypeOK, InArc
    <2> QED
      BY <1>6, <2>1, <2>2, <2>3 DEF OpenArc, TypeOK
  <1>7. CASE OutOfArcs
    BY <1>7, FreshType DEF OutOfArcs, TypeOK
  <1>8. CASE CheckBudgets
    <2>1. elapsed' \in Nat
      BY <1>8, ConstantsAssumption DEF CheckBudgets, TypeOK
    <2> QED
      BY <1>8, <2>1 DEF CheckBudgets, Exit, TypeOK, InArc, ExitReasons
  <1>9. CASE CheckPulse
    BY <1>9 DEF CheckPulse, Exit, Fault, NoFault, TypeOK, InArc, ExitReasons
  <1>10. CASE ReadAnswers
    BY <1>10 DEF ReadAnswers, InboxWith, TypeOK, InArc
  <1>11. CASE ResolveNext
    <2>1. PICK q \in todo : Resolve(q)
      BY <1>11 DEF ResolveNext
    <2>2. inbox' \in [Questions -> InboxRow]
      BY <2>1, AnswerType DEF Resolve, TypeOK
    <2>3. todo' \subseteq Questions /\ faults' \in Nat
      BY <2>1 DEF Resolve, Fault, NoFault, TypeOK
    <2> QED
      BY <1>11, <2>2, <2>3 DEF ResolveNext, TypeOK
  <1>12. CASE ResolveDone
    BY <1>12 DEF ResolveDone, TypeOK, InArc, InPhase
  <1>13. CASE PickNothing
    BY <1>13 DEF PickNothing, Exit, Fault, NoFault, TypeOK, InArc, ExitReasons
  <1>14. CASE PickPhase
    <2>1. PICK key \in TopOf(answered \cup seed, PickedKeys) \ {NoKey} :
            /\ picked' = PickedKeys \cup {key}
            /\ reports' = [reports EXCEPT ![arc][phases_run + 1] =
                             [status |-> "in-flight", key |-> key, minutes |-> 0, cents |-> 0]]
      BY <1>14 DEF PickPhase
    <2>2. key \in Keys
      BY <2>1, TopOfType DEF TypeOK
    <2>3. PickedKeys \subseteq Keys
      <3>1. \A i \in 1..MaxPhases : arc \in Arcs => reports[arc][i].key \in Keys \cup {NoKey}
        BY DEF TypeOK, ReportRow
      <3>2. arc \in Arcs
        BY <1>14, InArcFacts DEF PickPhase, InArc
      <3> QED
        BY <3>1, <3>2 DEF PickedKeys, TypeOK
    <2>4. reports' \in [Arcs -> [1..MaxPhases -> ReportRow]]
      BY <2>1, <2>2 DEF TypeOK, ReportRow
    <2> QED
      BY <1>14, <2>1, <2>2, <2>3, <2>4 DEF PickPhase, TypeOK, InArc, InPhase
  <1>15. CASE PhaseAsks
    <2> DEFINE k == reports[arc][phases_run + 1].key
    <2>1. arc \in Arcs /\ phases_run + 1 \in 1..MaxPhases /\ k \in picked
      BY <1>15, InPhaseFacts DEF PhaseAsks, InPhase
    <2>2. ModeOfKey(k) \in Modes
      BY <2>1, ModeOfKeyType DEF TypeOK
    <2>3. inbox' \in [Questions -> InboxRow]
      BY <1>15, <2>1, <2>2, WriteQuestionType DEF PhaseAsks, TypeOK
    <2> QED
      BY <1>15, <2>3 DEF PhaseAsks, Fault, NoFault, TypeOK, InArc, InPhase
  <1>16. CASE PhaseReturns
    <2> DEFINE old == reports[arc][phases_run + 1]
    <2>1. arc \in Arcs /\ phases_run \in Nat /\ phases_run + 1 \in 1..MaxPhases /\ old \in ReportRow
      BY <1>16, InPhaseFacts DEF PhaseReturns, InPhase
    <2>2. PICK ticks \in PhaseTicks, cents \in PhaseCents,
               status \in {"phase-blocked-on-founder", "phase-closed", "phase-partial",
                           "phase-aborted"} :
            /\ reports' = [reports EXCEPT ![arc][phases_run + 1] =
                 [old EXCEPT !.status = status, !.minutes = Rounded(ticks), !.cents = meter + cents]]
            /\ elapsed' = elapsed + ticks
            /\ meter' = meter + cents
            /\ (pc' = "close" /\ exit' = "budget-exceeded") \/ (pc' = "loop" /\ exit' = exit)
      BY <1>16 DEF PhaseReturns, Exit
    <2>3. ticks \in Nat /\ Rounded(ticks) \in Nat /\ cents \in Nat /\ meter + cents \in Nat
      BY ConstantsAssumption, Rounding DEF TypeOK
    <2>4. [old EXCEPT !.status = status, !.minutes = Rounded(ticks), !.cents = meter + cents] \in ReportRow
      BY <2>1, <2>3 DEF ReportRow, Finished
    <2>5. reports' \in [Arcs -> [1..MaxPhases -> ReportRow]]
      BY <2>1, <2>2, <2>4 DEF TypeOK
    <2> QED
      BY <1>16, <2>1, <2>2, <2>3, <2>5 DEF PhaseReturns, TypeOK, InArc, ExitReasons
  <1>17. CASE PhaseThrows
    <2> DEFINE old == reports[arc][phases_run + 1]
    <2>1. arc \in Arcs /\ phases_run \in Nat /\ phases_run + 1 \in 1..MaxPhases /\ old \in ReportRow
      BY <1>17, InPhaseFacts DEF PhaseThrows, InPhase
    <2>2. PICK ticks \in PhaseTicks :
            /\ reports' = [reports EXCEPT ![arc][phases_run + 1].status = "phase-aborted",
                                          ![arc][phases_run + 1].minutes = Rounded(ticks)]
            /\ elapsed' = elapsed + ticks
      BY <1>17 DEF PhaseThrows
    <2>3. ticks \in Nat /\ Rounded(ticks) \in Nat
      BY ConstantsAssumption, Rounding
    <2>4. reports' \in [Arcs -> [1..MaxPhases -> ReportRow]]
      BY <2>1, <2>2, <2>3 DEF TypeOK, ReportRow, Finished
    <2> QED
      BY <1>17, <2>1, <2>2, <2>3, <2>4
      DEF PhaseThrows, Fault, Exit, TypeOK, InArc, ExitReasons
  <1>18. CASE CloseArc
    <2>1. PICK t \in GapTicks : arcs' = [arcs EXCEPT ![arc] =
            [status |-> IF exit = "pulse-ko" THEN "aborted" ELSE "closed",
             exit |-> exit, lasted |-> elapsed + t]]
      BY <1>18 DEF CloseArc
    <2>2. elapsed + t \in Nat
      BY ConstantsAssumption DEF TypeOK
    <2>3. arcs' \in [Arcs -> ArcRow]
      BY <2>1, <2>2 DEF TypeOK, ArcRow
    <2> QED
      BY <1>18, <2>3, FreshType DEF CloseArc, TypeOK
  <1>19. CASE ArcThrows
    BY <1>19, FreshType DEF ArcThrows, Fault, TypeOK
  <1>20. CASE Crash
    BY <1>20, FreshType DEF Crash, Fault, TypeOK
  <1>21. CASE Answer
    <2>1. inbox' \in [Questions -> InboxRow]
      BY <1>21, AnswerType DEF Answer
    <2> QED
      BY <1>21, <2>1 DEF Answer, TypeOK
  <1>22. CASE WatcherAsks
    <2>1. inbox' \in [Questions -> InboxRow]
      BY <1>22, WriteQuestionType, ConstantsAssumption DEF WatcherAsks
    <2> QED
      BY <1>22, <2>1 DEF WatcherAsks, TypeOK
  <1>23. CASE WorldMoves
    BY <1>23 DEF WorldMoves, TypeOK
  <1> QED
    BY <1>1, <1>2, <1>3, <1>4, <1>5, <1>6, <1>7, <1>8, <1>9, <1>10, <1>11, <1>12, <1>13, <1>14,
       <1>15, <1>16, <1>17, <1>18, <1>19, <1>20, <1>21, <1>22, <1>23
    DEF Next, TickStep, ArcStep, Environment

-----------------------------------------------------------------------------
(* What the locals of the tick say of the rows *)

\* A step that leaves the rows alone may move the tick within its part of the loop.
LEMMA MovesOn ==
  ASSUME TypeOK, LocalsMatchRows, Quiet, UNCHANGED <<arc, phases_run, picked>>,
         \/ pc' = pc
         \/ /\ pc \in {"idle"} \cup BeforeArc /\ pc' \in {"idle"} \cup BeforeArc
            /\ pc' \in {"probe", "open"} => OpenArcs = {}
         \/ /\ pc \in InArc /\ pc' \in InArc
            /\ pc \in InPhase <=> pc' \in InPhase
            /\ pc' \in {"loop", "close"} \/ phases_run < MaxPhases
  PROVE  LocalsMatchRows'
  <1>1. OpenArcs' = OpenArcs /\ \A a \in Arcs : Ran(a)' = Ran(a)
    BY DEF OpenArcs, Ran, Quiet
  <1>2. UNCHANGED <<arcs, reports>>
    BY DEF Quiet
  <1>3. CASE pc' = pc
    <2>1. pc \in InArc => arc \in Arcs
      BY InArcFacts
    <2>2. pc \in InArc => arc \in Arcs /\ arc' = arc /\ Ran(arc)' = Ran(arc)
      BY <1>1, <2>1
    <2> QED
      BY <1>1, <1>2, <1>3, <2>2 DEF LocalsMatchRows
  <1>4. CASE /\ pc \in {"idle"} \cup BeforeArc /\ pc' \in {"idle"} \cup BeforeArc
             /\ pc' \in {"probe", "open"} => OpenArcs = {}
    <2>1. pc' \notin InArc
      BY <1>4 DEF BeforeArc, InArc, InPhase
    <2> QED
      BY <1>1, <1>2, <1>4, <2>1 DEF LocalsMatchRows
  <1>5. CASE /\ pc \in InArc /\ pc' \in InArc
             /\ pc \in InPhase <=> pc' \in InPhase
             /\ pc' \in {"loop", "close"} \/ phases_run < MaxPhases
    <2>1. pc' \notin {"idle"} \cup BeforeArc /\ pc' \notin {"probe", "open"}
      BY <1>5 DEF BeforeArc, InArc, InPhase
    <2>2. arc \in Arcs
      BY <1>5, InArcFacts
    <2> QED
      BY <1>1, <1>2, <1>5, <2>1, <2>2 DEF LocalsMatchRows
  <1> QED
    BY <1>3, <1>4, <1>5

\* A tick that ends forgets its locals.
LEMMA Resets ==
  ASSUME LocalsMatchRows, Quiet, FreshLocals, pc' = "idle"
  PROVE  LocalsMatchRows'
  <1>1. pc' \notin InArc /\ pc' \notin {"probe", "open"}
    BY DEF InArc, InPhase
  <1> QED
    BY <1>1 DEF LocalsMatchRows, Quiet, FreshLocals, Ran

LEMMA InitLocals == Init => LocalsMatchRows
  BY DEF Init, LocalsMatchRows, Ran, NoReport, InArc, InPhase

LEMMA OpenArcLocals == ASSUME TypeOK, LocalsMatchRows, OpenArc PROVE LocalsMatchRows'
  <1>1. PICK a \in Arcs :
          /\ arcs[a].status = "none" /\ arcs' = [arcs EXCEPT ![a].status = "open"] /\ arc' = a
    BY DEF OpenArc
  <1>2. pc' = "loop" /\ reports' = reports /\ phases_run' = phases_run /\ picked' = picked
    BY DEF OpenArc
  <1>3. OpenArcs = {} /\ phases_run = 0 /\ Ran(a) = {}
    BY <1>1 DEF OpenArc, LocalsMatchRows, BeforeArc
  <1>4. OpenArcs' = {a}
    BY <1>1, <1>3 DEF OpenArcs, TypeOK, ArcRow
  <1>5. \A i \in 1..MaxPhases : reports[a][i].status = "none"
    BY <1>3 DEF Ran
  <1>6. \A b \in Arcs : Ran(b)' = Ran(b)
    BY <1>2 DEF Ran
  <1>7. \A b \in Arcs : arcs'[b].status = "none" => Ran(b)' = {}
    BY <1>1, <1>6 DEF LocalsMatchRows, TypeOK, ArcRow
  <1>8. pc' \notin InPhase /\ pc' \notin {"idle"} \cup BeforeArc /\ pc' \notin {"probe", "open"}
    BY <1>2 DEF InPhase, BeforeArc
  <1>9. \A i \in 1..MaxPhases : ~(i <= 0)
    BY ConstantsAssumption
  <1> QED
    BY <1>1, <1>2, <1>3, <1>4, <1>5, <1>6, <1>7, <1>8, <1>9 DEF LocalsMatchRows

LEMMA CloseArcLocals == ASSUME TypeOK, LocalsMatchRows, CloseArc PROVE LocalsMatchRows'
  <1>1. /\ \E t \in GapTicks : arcs' = [arcs EXCEPT ![arc] =
             [status |-> IF exit = "pulse-ko" THEN "aborted" ELSE "closed",
              exit |-> exit, lasted |-> elapsed + t]]
        /\ reports' = reports /\ pc' = "idle" /\ arc' = NoArc /\ phases_run' = 0
    BY DEF CloseArc, FreshLocals
  <1>2. \A a \in Arcs : arcs'[a].status = "none" => arcs[a].status = "none" /\ Ran(a)' = Ran(a)
    BY <1>1 DEF TypeOK, Ran
  <1>3. pc' \notin InArc /\ pc' \notin {"probe", "open"}
    BY <1>1 DEF InArc, InPhase
  <1> QED
    BY <1>1, <1>2, <1>3 DEF LocalsMatchRows

\* What PickPhase puts in the next report of the arc: a key it never had.
LEMMA PickPhaseFacts ==
  ASSUME TypeOK, LocalsMatchRows, PickPhase
  PROVE  /\ arc \in Arcs /\ OpenArcs = {arc} /\ phases_run \in Nat
         /\ phases_run + 1 \in 1..MaxPhases
         /\ reports[arc][phases_run + 1].status = "none"
         /\ \E key \in Keys :
              /\ \A i \in Ran(arc) : reports[arc][i].key # key
              /\ picked \cup {key} \subseteq picked'
              /\ reports' = [reports EXCEPT ![arc][phases_run + 1] =
                   [status |-> "in-flight", key |-> key, minutes |-> 0, cents |-> 0]]
  <1>1. pc \in InArc /\ pc \notin InPhase /\ ~(pc \in {"loop", "close"})
    BY DEF PickPhase, InArc, InPhase
  <1>2. arc \in Arcs /\ OpenArcs = {arc} /\ phases_run \in Nat /\ MaxPhases \in Nat
    BY <1>1, InArcFacts
  <1>3. phases_run + 1 \in 1..MaxPhases
    BY <1>1, <1>2 DEF LocalsMatchRows
  <1>4. reports[arc][phases_run + 1].status = "none"
    BY <1>1, <1>3 DEF LocalsMatchRows
  <1>5. PICK key \in TopOf(answered \cup seed, PickedKeys) \ {NoKey} :
          /\ picked' = PickedKeys \cup {key}
          /\ reports' = [reports EXCEPT ![arc][phases_run + 1] =
                           [status |-> "in-flight", key |-> key, minutes |-> 0, cents |-> 0]]
    BY DEF PickPhase
  <1>6. key \in Keys /\ key \notin PickedKeys
    BY <1>5, TopOfType DEF TypeOK
  <1>7. picked \subseteq PickedKeys
    BY DEF PickedKeys
  <1>8. \A i \in Ran(arc) : reports[arc][i].key \in picked
    BY <1>1 DEF LocalsMatchRows, Ran
  <1> QED
    BY <1>2, <1>3, <1>4, <1>5, <1>6, <1>7, <1>8

LEMMA PickPhaseLocals == ASSUME TypeOK, LocalsMatchRows, PickPhase PROVE LocalsMatchRows'
  <1>1. /\ arc \in Arcs /\ OpenArcs = {arc} /\ phases_run \in Nat
        /\ phases_run + 1 \in 1..MaxPhases
    BY PickPhaseFacts
  <1>2. PICK key \in Keys :
          /\ picked \cup {key} \subseteq picked'
          /\ reports' = [reports EXCEPT ![arc][phases_run + 1] =
                           [status |-> "in-flight", key |-> key, minutes |-> 0, cents |-> 0]]
    BY PickPhaseFacts
  <1>3. arcs' = arcs /\ arc' = arc /\ phases_run' = phases_run /\ pc = "pick" /\ pc' = "commit"
    BY DEF PickPhase
  <1>4. pc \in InArc /\ pc \notin InPhase /\ pc' \in InPhase /\ pc' \in InArc
        /\ pc' \notin {"idle"} \cup BeforeArc /\ pc' \notin {"probe", "open"}
    BY <1>3 DEF InArc, InPhase, BeforeArc
  <1>5. OpenArcs' = OpenArcs /\ phases_run < MaxPhases
    BY <1>1, <1>3, ConstantsAssumption DEF OpenArcs
  <1>6. reports'[arc][phases_run + 1].status = "in-flight"
        /\ reports'[arc][phases_run + 1].key \in picked'
    BY <1>1, <1>2 DEF TypeOK
  <1>7. \A i \in 1..MaxPhases : i # phases_run + 1 => reports'[arc][i] = reports[arc][i]
    BY <1>1, <1>2 DEF TypeOK
  <1>8. \A i \in 1..MaxPhases :
          /\ i <= phases_run => reports'[arc][i].status \in Finished
          /\ i > phases_run + 1 => reports'[arc][i].status = "none"
    BY <1>1, <1>4, <1>7 DEF LocalsMatchRows
  <1>9. \A i \in 1..MaxPhases : i \in Ran(arc)' => reports'[arc][i].key \in picked'
    BY <1>1, <1>3, <1>4, <1>6, <1>7, <1>2 DEF LocalsMatchRows, Ran
  <1>10. \A a \in Arcs : arcs'[a].status = "none" => Ran(a)' = {}
    <2>1. \A a \in Arcs : arcs[a].status = "none" => a # arc
      BY <1>1 DEF OpenArcs
    <2>2. \A a \in Arcs : a # arc => reports'[a] = reports[a]
      BY <1>2 DEF TypeOK
    <2> QED
      BY <1>3, <2>1, <2>2 DEF LocalsMatchRows, Ran
  <1> QED
    BY <1>1, <1>3, <1>4, <1>5, <1>6, <1>8, <1>9, <1>10 DEF LocalsMatchRows

\* However a phase ends, its report is finished under the key it had and no other row changes.
LEMMA PhaseEndFacts ==
  ASSUME TypeOK, LocalsMatchRows, PhaseReturns \/ PhaseThrows
  PROVE  /\ arc \in Arcs /\ OpenArcs = {arc} /\ phases_run \in Nat
         /\ phases_run + 1 \in 1..MaxPhases
         /\ reports'[arc][phases_run + 1].status \in Finished
         /\ reports'[arc][phases_run + 1].key = reports[arc][phases_run + 1].key
         /\ reports[arc][phases_run + 1].key \in picked
         /\ \A i \in 1..MaxPhases : i # phases_run + 1 => reports'[arc][i] = reports[arc][i]
         /\ \A a \in Arcs : a # arc => reports'[a] = reports[a]
         /\ arcs' = arcs /\ arc' = arc /\ picked' = picked /\ phases_run' = phases_run + 1
         /\ pc \in InPhase /\ pc' \in {"loop", "close"}
  <1> DEFINE old == reports[arc][phases_run + 1]
  <1>1. pc \in InPhase /\ pc' \in {"loop", "close"} /\ phases_run' = phases_run + 1
        /\ UNCHANGED <<arcs, arc, picked>>
    BY DEF PhaseReturns, PhaseThrows, InPhase, Exit
  <1>2. /\ arc \in Arcs /\ OpenArcs = {arc} /\ phases_run \in Nat
        /\ phases_run + 1 \in 1..MaxPhases /\ old \in ReportRow /\ old.key \in picked
    BY <1>1, InPhaseFacts
  <1>3. \E row : /\ reports' = [reports EXCEPT ![arc][phases_run + 1] = row]
                 /\ row.status \in Finished /\ row.key = old.key
    <2>1. CASE PhaseReturns
      <3>1. PICK ticks \in PhaseTicks, cents \in PhaseCents,
                 status \in {"phase-blocked-on-founder", "phase-closed", "phase-partial",
                             "phase-aborted"} :
              reports' = [reports EXCEPT ![arc][phases_run + 1] =
                 [old EXCEPT !.status = status, !.minutes = Rounded(ticks), !.cents = meter + cents]]
        BY <2>1 DEF PhaseReturns
      <3> DEFINE row == [old EXCEPT !.status = status, !.minutes = Rounded(ticks), !.cents = meter + cents]
      <3>2. row.status \in Finished /\ row.key = old.key
        BY <1>2 DEF Finished, ReportRow
      <3> QED
        BY <3>1, <3>2
    <2>2. CASE PhaseThrows
      <3>1. PICK ticks \in PhaseTicks :
              reports' = [reports EXCEPT ![arc][phases_run + 1].status = "phase-aborted",
                                         ![arc][phases_run + 1].minutes = Rounded(ticks)]
        BY <2>2 DEF PhaseThrows
      <3> DEFINE row == [old EXCEPT !.status = "phase-aborted", !.minutes = Rounded(ticks)]
      <3>2. reports' = [reports EXCEPT ![arc][phases_run + 1] = row]
        BY <1>2, <3>1 DEF TypeOK
      <3>3. row.status \in Finished /\ row.key = old.key
        BY <1>2 DEF Finished, ReportRow
      <3> QED
        BY <3>2, <3>3
    <2> QED
      BY <2>1, <2>2
  <1>4. PICK row : /\ reports' = [reports EXCEPT ![arc][phases_run + 1] = row]
                   /\ row.status \in Finished /\ row.key = old.key
    BY <1>3
  <1>5. /\ reports'[arc][phases_run + 1] = row
        /\ \A i \in 1..MaxPhases : i # phases_run + 1 => reports'[arc][i] = reports[arc][i]
        /\ \A a \in Arcs : a # arc => reports'[a] = reports[a]
    BY <1>2, <1>4 DEF TypeOK
  <1> QED
    BY <1>1, <1>2, <1>4, <1>5

LEMMA PhaseEndLocals ==
  ASSUME TypeOK, LocalsMatchRows, PhaseReturns \/ PhaseThrows
  PROVE  LocalsMatchRows'
  <1>1. /\ arc \in Arcs /\ OpenArcs = {arc} /\ phases_run \in Nat
        /\ phases_run + 1 \in 1..MaxPhases
        /\ reports'[arc][phases_run + 1].status \in Finished
        /\ reports'[arc][phases_run + 1].key \in picked
        /\ \A i \in 1..MaxPhases : i # phases_run + 1 => reports'[arc][i] = reports[arc][i]
        /\ \A a \in Arcs : a # arc => reports'[a] = reports[a]
        /\ arcs' = arcs /\ arc' = arc /\ picked' = picked /\ phases_run' = phases_run + 1
        /\ pc \in InPhase /\ pc' \in {"loop", "close"}
    BY PhaseEndFacts
  <1>2. /\ pc \in InArc /\ pc' \in InArc /\ pc' \notin InPhase
        /\ pc' \notin {"idle"} \cup BeforeArc /\ pc' \notin {"probe", "open"}
    BY <1>1 DEF InArc, InPhase, BeforeArc
  <1>3. OpenArcs' = OpenArcs
    BY <1>1 DEF OpenArcs
  <1>4. \A i \in 1..MaxPhases :
          /\ i <= phases_run + 1 => reports'[arc][i].status \in Finished
          /\ i > phases_run + 1 => reports'[arc][i].status = "none"
    BY <1>1, <1>2, ConstantsAssumption DEF LocalsMatchRows
  <1>5. \A i \in 1..MaxPhases :
          /\ i = phases_run + 1 + 1 => reports'[arc][i].status = "none"
          /\ i > phases_run + 1 + 1 => reports'[arc][i].status = "none"
    BY <1>1, <1>4
  <1>6. \A i \in 1..MaxPhases : i \in Ran(arc)' => reports'[arc][i].key \in picked'
    BY <1>1, <1>2 DEF LocalsMatchRows, Ran
  <1>7. \A a \in Arcs : arcs'[a].status = "none" => Ran(a)' = {}
    <2>1. \A a \in Arcs : arcs[a].status = "none" => a # arc
      BY <1>1 DEF OpenArcs
    <2> QED
      BY <1>1, <2>1 DEF LocalsMatchRows, Ran
  <1> QED
    BY <1>1, <1>2, <1>3, <1>4, <1>5, <1>6, <1>7 DEF LocalsMatchRows

LEMMA NextLocals == ASSUME TypeOK, LocalsMatchRows, [Next]_vars PROVE LocalsMatchRows'
  <1> USE DEF durable, local
  <1>1. CASE UNCHANGED vars
    BY <1>1, MovesOn DEF vars, Quiet
  <1>2. CASE TickStart
    BY <1>2, MovesOn DEF TickStart, Quiet, BeforeArc
  <1>3. CASE CheckOpenArcs
    BY <1>3, MovesOn DEF CheckOpenArcs, Quiet, BeforeArc
  <1>4. CASE ProbeEscalates
    BY <1>4, MovesOn DEF ProbeEscalates, Quiet, BeforeArc
  <1>5. CASE ProbeProceeds
    <2>1. OpenArcs = {} /\ pc = "probe" /\ pc' \in {"open", "idle"}
      BY <1>5 DEF ProbeProceeds, LocalsMatchRows
    <2> QED
      BY <1>5, <2>1, MovesOn DEF ProbeProceeds, Quiet, BeforeArc
  <1>6. CASE OpenArc
    BY <1>6, OpenArcLocals
  <1>7. CASE OutOfArcs
    BY <1>7, Resets DEF OutOfArcs, Quiet
  <1>8. CASE CheckBudgets
    <2>1. pc' = "close" \/ (pc' = "pulse" /\ ~(phases_run >= MaxPhases))
      BY <1>8 DEF CheckBudgets, OutOfBudget, Exit
    <2>2. pc' = "close" \/ phases_run < MaxPhases
      BY <2>1, ConstantsAssumption DEF TypeOK
    <2> QED
      BY <1>8, <2>1, <2>2, MovesOn DEF CheckBudgets, Quiet, InArc, InPhase
  <1>9. CASE CheckPulse
    <2>1. phases_run < MaxPhases /\ pc' \in {"close", "answered"}
      BY <1>9 DEF CheckPulse, Exit, LocalsMatchRows, InArc
    <2> QED
      BY <1>9, <2>1, MovesOn DEF CheckPulse, Quiet, InArc, InPhase
  <1>10. CASE ReadAnswers
    <2>1. phases_run < MaxPhases
      BY <1>10 DEF ReadAnswers, LocalsMatchRows, InArc
    <2> QED
      BY <1>10, <2>1, MovesOn DEF ReadAnswers, Quiet, InArc, InPhase
  <1>11. CASE ResolveNext
    BY <1>11, MovesOn DEF ResolveNext, Quiet
  <1>12. CASE ResolveDone
    <2>1. phases_run < MaxPhases
      BY <1>12 DEF ResolveDone, LocalsMatchRows, InArc, InPhase
    <2> QED
      BY <1>12, <2>1, MovesOn DEF ResolveDone, Quiet, InArc, InPhase
  <1>13. CASE PickNothing
    BY <1>13, MovesOn DEF PickNothing, Exit, Quiet, InArc, InPhase
  <1>14. CASE PickPhase
    BY <1>14, PickPhaseLocals
  <1>15. CASE PhaseAsks
    <2>1. phases_run < MaxPhases
      BY <1>15 DEF PhaseAsks, LocalsMatchRows, InArc, InPhase
    <2> QED
      BY <1>15, <2>1, MovesOn DEF PhaseAsks, Quiet, InArc, InPhase
  <1>16. CASE PhaseReturns \/ PhaseThrows
    BY <1>16, PhaseEndLocals
  <1>17. CASE CloseArc
    BY <1>17, CloseArcLocals
  <1>18. CASE ArcThrows \/ Crash
    BY <1>18, Resets DEF ArcThrows, Crash, Quiet
  <1>19. CASE Environment
    BY <1>19, MovesOn DEF Environment, Answer, WatcherAsks, WorldMoves, Quiet
  <1> QED
    BY <1>1, <1>2, <1>3, <1>4, <1>5, <1>6, <1>7, <1>8, <1>9, <1>10, <1>11, <1>12, <1>13, <1>14,
       <1>15, <1>16, <1>17, <1>18, <1>19
    DEF Next, TickStep, ArcStep

-----------------------------------------------------------------------------
(* Arcs and reports *)

LEMMA InitIInv == Init => IInv
  BY InitTypeOK, InitLocals
  DEF Init, IInv, OneOpenArc, OpenArcs, ReportsInOrder, NoSourceTwice, Ran, NoReport

\* Only OpenArc adds an open arc, and LocalsMatchRows says none was open before it.
LEMMA NextOneOpenArc == ASSUME IInv, [Next]_vars PROVE OneOpenArc'
  <1>1. TypeOK /\ LocalsMatchRows /\ OneOpenArc
    BY DEF IInv
  <1>2. CASE arcs' = arcs
    BY <1>1, <1>2 DEF OneOpenArc, OpenArcs
  <1>3. CASE OpenArc
    <2>1. PICK a \in Arcs : arcs' = [arcs EXCEPT ![a].status = "open"]
      BY <1>3 DEF OpenArc
    <2>2. OpenArcs = {}
      BY <1>1, <1>3 DEF OpenArc, LocalsMatchRows
    <2>3. OpenArcs' \subseteq {a}
      BY <1>1, <2>1, <2>2 DEF OpenArcs, TypeOK, ArcRow
    <2> QED
      BY <2>3 DEF OneOpenArc
  <1>4. CASE CloseArc
    <2>1. OpenArcs' \subseteq OpenArcs
      BY <1>1, <1>4 DEF CloseArc, OpenArcs, TypeOK, ArcRow
    <2> QED
      BY <1>1, <2>1 DEF OneOpenArc
  <1> QED
    BY <1>2, <1>3, <1>4, RowWriters DEF Quiet, PickPhase, PhaseReturns, PhaseThrows

LEMMA NextReportsInOrder == ASSUME IInv, [Next]_vars PROVE ReportsInOrder'
  <1>1. TypeOK /\ LocalsMatchRows /\ ReportsInOrder
    BY DEF IInv
  <1>2. CASE Quiet
    BY <1>1, <1>2 DEF Quiet, ReportsInOrder, Ran
  <1>3. CASE OpenArc
    BY <1>1, <1>3 DEF OpenArc, ReportsInOrder, Ran, TypeOK, ArcRow
  <1>4. CASE PickPhase
    <2> DEFINE n == phases_run + 1
    <2>1. arc \in Arcs /\ OpenArcs = {arc} /\ phases_run \in Nat /\ n \in 1..MaxPhases
      BY <1>1, <1>4, PickPhaseFacts
    <2>2. PICK key : reports' = [reports EXCEPT ![arc][n] =
                        [status |-> "in-flight", key |-> key, minutes |-> 0, cents |-> 0]]
      BY <1>4 DEF PickPhase
    <2>3. pc \in InArc /\ pc \notin InPhase /\ arcs' = arcs
      BY <1>4 DEF PickPhase, InArc, InPhase
    <2>4. \A i \in 1..MaxPhases :
            /\ i <= phases_run => reports[arc][i].status \in Finished
            /\ i > phases_run => reports[arc][i].status = "none"
      BY <1>1, <2>1, <2>3, ConstantsAssumption DEF LocalsMatchRows
    <2>5. \A a \in Arcs, i \in 1..MaxPhases : (a # arc \/ i # n) => reports'[a][i] = reports[a][i]
      BY <1>1, <2>1, <2>2 DEF TypeOK
    <2>6. arcs'[arc].status = "open"
      BY <2>1, <2>3 DEF OpenArcs
    <2>7. ASSUME NEW a \in Arcs, NEW i \in Ran(a)'
          PROVE  /\ \A j \in 1..(i - 1) : reports'[a][j].status \in Finished
                 /\ reports'[a][i].status = "in-flight" => arcs'[a].status = "open"
      <3>1. CASE a # arc
        BY <1>1, <2>3, <2>5, <3>1, ConstantsAssumption DEF ReportsInOrder, Ran
      <3>2. CASE a = arc
        <4>1. i \in 1..MaxPhases /\ i <= n
          BY <2>1, <2>4, <2>5, <3>2, ConstantsAssumption DEF Ran
        <4>2. \A j \in 1..(i - 1) : j \in 1..MaxPhases /\ j <= phases_run /\ j # n
          BY <2>1, <4>1, ConstantsAssumption
        <4> QED
          BY <2>1, <2>4, <2>5, <2>6, <3>2, <4>2
      <3> QED
        BY <3>1, <3>2
    <2> QED
      BY <2>7 DEF ReportsInOrder
  <1>5. CASE PhaseReturns \/ PhaseThrows
    <2> DEFINE n == phases_run + 1
    <2>1. /\ arc \in Arcs /\ OpenArcs = {arc} /\ phases_run \in Nat /\ n \in 1..MaxPhases
          /\ reports'[arc][n].status \in Finished
          /\ \A i \in 1..MaxPhases : i # n => reports'[arc][i] = reports[arc][i]
          /\ \A a \in Arcs : a # arc => reports'[a] = reports[a]
          /\ arcs' = arcs /\ pc \in InPhase
      BY <1>1, <1>5, PhaseEndFacts
    <2>2. pc \in InArc
      BY <2>1 DEF InArc
    <2>3. \A i \in 1..MaxPhases :
            /\ i <= n => reports'[arc][i].status \in Finished
            /\ i > n => reports'[arc][i].status = "none"
      BY <1>1, <2>1, <2>2, ConstantsAssumption DEF LocalsMatchRows
    <2>4. \A i \in 1..MaxPhases : reports'[arc][i].status # "in-flight"
      BY <2>1, <2>3, ConstantsAssumption DEF Finished
    <2>5. ASSUME NEW a \in Arcs, NEW i \in Ran(a)'
          PROVE  /\ \A j \in 1..(i - 1) : reports'[a][j].status \in Finished
                 /\ reports'[a][i].status = "in-flight" => arcs'[a].status = "open"
      <3>1. CASE a # arc
        BY <1>1, <2>1, <3>1, ConstantsAssumption DEF ReportsInOrder, Ran
      <3>2. CASE a = arc
        <4>1. i \in 1..MaxPhases /\ i <= n
          BY <2>1, <2>3, <3>2, ConstantsAssumption DEF Ran
        <4> QED
          BY <2>1, <2>3, <2>4, <3>2, <4>1, ConstantsAssumption
      <3> QED
        BY <3>1, <3>2
    <2> QED
      BY <2>5 DEF ReportsInOrder
  <1>6. CASE CloseArc
    <2>1. pc \in InArc /\ pc \notin InPhase /\ reports' = reports
      BY <1>6 DEF CloseArc, InArc, InPhase
    <2>2. arc \in Arcs /\ phases_run \in Nat
      BY <1>1, <2>1, InArcFacts
    <2>3. \A i \in 1..MaxPhases : reports[arc][i].status # "in-flight"
      BY <1>1, <2>1, <2>2, ConstantsAssumption DEF LocalsMatchRows, Finished
    <2>4. \A a \in Arcs : a # arc => arcs'[a] = arcs[a]
      BY <1>1, <1>6 DEF CloseArc, TypeOK
    <2> QED
      BY <1>1, <2>1, <2>3, <2>4 DEF ReportsInOrder, Ran
  <1> QED
    BY <1>2, <1>3, <1>4, <1>5, <1>6, RowWriters

\* The key of a new report is none of those its arc has had (PickPhaseFacts).
LEMMA NextNoSourceTwice == ASSUME IInv, [Next]_vars PROVE NoSourceTwice'
  <1>1. TypeOK /\ LocalsMatchRows /\ NoSourceTwice
    BY DEF IInv
  <1>2. CASE reports' = reports
    BY <1>1, <1>2 DEF NoSourceTwice, Ran
  <1>3. CASE PickPhase
    <2> DEFINE n == phases_run + 1
    <2>1. arc \in Arcs /\ n \in 1..MaxPhases
      BY <1>1, <1>3, PickPhaseFacts
    <2>2. PICK key \in Keys :
            /\ \A i \in Ran(arc) : reports[arc][i].key # key
            /\ reports' = [reports EXCEPT ![arc][n] =
                 [status |-> "in-flight", key |-> key, minutes |-> 0, cents |-> 0]]
      BY <1>1, <1>3, PickPhaseFacts
    <2>3. reports'[arc][n].key = key
      BY <1>1, <2>1, <2>2 DEF TypeOK
    <2>4. \A a \in Arcs, i \in 1..MaxPhases : (a # arc \/ i # n) => reports'[a][i] = reports[a][i]
      BY <1>1, <2>1, <2>2 DEF TypeOK
    <2> QED
      BY <1>1, <2>1, <2>2, <2>3, <2>4 DEF NoSourceTwice, Ran
  <1>4. CASE PhaseReturns \/ PhaseThrows
    <2> DEFINE n == phases_run + 1
    <2>1. /\ arc \in Arcs /\ n \in 1..MaxPhases /\ pc \in InPhase
          /\ reports'[arc][n].key = reports[arc][n].key
          /\ \A i \in 1..MaxPhases : i # n => reports'[arc][i] = reports[arc][i]
          /\ \A a \in Arcs : a # arc => reports'[a] = reports[a]
      BY <1>1, <1>4, PhaseEndFacts
    <2>2. n \in Ran(arc)
      BY <1>1, <2>1, InPhaseFacts DEF Ran
    <2> QED
      BY <1>1, <2>1, <2>2 DEF NoSourceTwice, Ran
  <1> QED
    BY <1>2, <1>3, <1>4, RowWriters DEF Quiet, OpenArc, CloseArc

LEMMA NextIInv == IInv /\ [Next]_vars => IInv'
  BY NextTypeOK, NextLocals, NextOneOpenArc, NextReportsInOrder, NextNoSourceTwice DEF IInv

-----------------------------------------------------------------------------
(* Theorems *)

\* For every number of arcs, questions and phases, whatever the founder, the watchers, the
\* pulse and the crashes do: a workspace has at most one open arc, its reports are filled in
\* order and none is left in flight by an arc that ended, and no arc works a source twice.
THEOREM Safety ==
  Spec => [](TypeOK /\ LocalsMatchRows /\ OneOpenArc /\ ReportsInOrder /\ NoSourceTwice)
  <1>1. Init => IInv
    BY InitIInv
  <1>2. IInv /\ [Next]_vars => IInv'
    BY NextIInv
  <1>3. IInv => TypeOK /\ LocalsMatchRows /\ OneOpenArc /\ ReportsInOrder /\ NoSourceTwice
    BY DEF IInv
  <1> QED
    BY <1>1, <1>2, <1>3, PTL DEF Spec

\* In every reachable state the reports of an arc are filled in order, one at a time, and none is
\* left in flight by an arc that has ended, however it ended (director.ts, 6 to 8).
THEOREM Ordered == Spec => []ReportsInOrder
  BY Safety, PTL

\* No arc works a source, or an answer, twice: picked_keys outlives every iteration of its loop
\* (director.ts, makeRankerPicker).
THEOREM Distinct == Spec => []NoSourceTwice
  BY Safety, PTL

\* No step writes the row or the reports of an arc that has ended: a writer is either the
\* running arc, which is open, or opens a row that was not there.
LEMMA EndedArcsUntouched ==
  ASSUME IInv, [Next]_vars, NEW a \in Arcs, arcs[a].status \in {"closed", "aborted"}
  PROVE  UNCHANGED <<arcs[a], reports[a]>>
  <1>1. TypeOK /\ LocalsMatchRows
    BY DEF IInv
  <1>2. CASE Quiet
    BY <1>2 DEF Quiet
  <1>3. CASE OpenArc
    <2>1. PICK b \in Arcs :
            arcs[b].status = "none" /\ arcs' = [arcs EXCEPT ![b].status = "open"]
      BY <1>3 DEF OpenArc
    <2>2. reports' = reports /\ a # b
      BY <1>3, <2>1 DEF OpenArc
    <2> QED
      BY <1>1, <2>1, <2>2 DEF TypeOK
  <1>4. CASE PickPhase \/ PhaseReturns \/ PhaseThrows \/ CloseArc
    <2>1. pc \in InArc
      BY <1>4 DEF PickPhase, PhaseReturns, PhaseThrows, CloseArc, InArc, InPhase
    <2>2. a # arc
      BY <1>1, <2>1, InArcFacts
    <2>3. CASE PickPhase
      BY <1>1, <2>2, <2>3 DEF PickPhase, TypeOK
    <2>4. CASE PhaseReturns \/ PhaseThrows
      <3>1. arcs' = arcs /\ reports'[a] = reports[a]
        BY <1>1, <2>2, <2>4, PhaseEndFacts
      <3> QED
        BY <3>1
    <2>5. CASE CloseArc
      BY <1>1, <2>2, <2>5 DEF CloseArc, TypeOK
    <2> QED
      BY <1>4, <2>3, <2>4, <2>5
  <1> QED
    BY <1>2, <1>3, <1>4, RowWriters

\* Whatever crashes and throws interrupt, history is never rewritten: once an arc has ended,
\* its row and its reports stay as they are.
THEOREM Frozen == Spec => EndedArcsAreFrozen
  <1>1. Init => IInv
    BY InitIInv
  <1>2. IInv /\ [Next]_vars => IInv'
    BY NextIInv
  <1>3. IInv /\ [Next]_vars =>
          [\A a \in Arcs : arcs[a].status \in {"closed", "aborted"} =>
             UNCHANGED <<arcs[a], reports[a]>>]_vars
    BY EndedArcsUntouched
  <1> QED
    BY <1>1, <1>2, <1>3, PTL DEF Spec, EndedArcsAreFrozen

-----------------------------------------------------------------------------
(* The inbox *)

LEMMA InboxWriters ==
  ASSUME [Next]_vars
  PROVE  \/ UNCHANGED inbox \/ ProbeEscalates \/ ResolveNext \/ PhaseAsks \/ Answer \/ WatcherAsks
  BY DEF Next, TickStart, TickStep, CheckOpenArcs, ProbeProceeds, ArcStep, OpenArc,
         OutOfArcs, CheckBudgets, CheckPulse, ReadAnswers, ResolveDone, PickPhase, PickNothing,
         PhaseReturns, PhaseThrows, CloseArc, ArcThrows, Crash, Environment, WorldMoves, vars,
         durable

\* The question of a row: a fresh row only, and one that is not yet resolved.
LEMMA WriteQuestionEffect ==
  ASSUME TypeOK, NEW a, NEW m, NEW from, WriteQuestion(a, m, from)
  PROVE  \E q \in Questions :
           /\ inbox[q].status = "none" /\ inbox'[q].status = "open"
           /\ inbox'[q].from = from
           /\ \A p \in Questions \ {q} : inbox'[p] = inbox[p]
  BY DEF WriteQuestion, InboxWith, TypeOK

LEMMA AnswerEffect ==
  ASSUME TypeOK, NEW q \in Questions, NEW s, inbox' = [inbox EXCEPT ![q].status = s]
  PROVE  /\ inbox'[q].status = s /\ inbox'[q].arc = inbox[q].arc /\ inbox'[q].from = inbox[q].from
         /\ \A p \in Questions \ {q} : inbox'[p] = inbox[p]
  BY DEF TypeOK, InboxRow

\* What step 4 resolves are rows of the running arc; a row never changes its arc.
OwnAnswers == pc = "resolve" => \A q \in todo : inbox[q].arc = arc /\ inbox[q].status # "none"

LEMMA RowsKeepTheirArc ==
  ASSUME TypeOK, [Next]_vars, NEW q \in Questions, inbox[q].status # "none"
  PROVE  inbox'[q].arc = inbox[q].arc /\ inbox'[q].status # "none"
  <1>1. ASSUME NEW a, NEW m, NEW from, WriteQuestion(a, m, from) PROVE inbox'[q] = inbox[q]
    BY <1>1, WriteQuestionEffect
  <1>2. ASSUME NEW p \in Questions, NEW s \in {"answered", "resolved"},
               inbox' = [inbox EXCEPT ![p].status = s]
        PROVE  inbox'[q].arc = inbox[q].arc /\ inbox'[q].status # "none"
    BY <1>2, AnswerEffect
  <1>3. CASE ProbeEscalates \/ PhaseAsks \/ WatcherAsks
    BY <1>1, <1>3 DEF ProbeEscalates, PhaseAsks, WatcherAsks
  <1>4. CASE ResolveNext
    <2>1. PICK p \in todo : Resolve(p)
      BY <1>4 DEF ResolveNext
    <2>2. p \in Questions
      BY <2>1 DEF TypeOK
    <2> QED
      BY <1>2, <2>1, <2>2 DEF Resolve
  <1>5. CASE Answer
    BY <1>2, <1>5 DEF Answer
  <1> QED
    BY <1>3, <1>4, <1>5, InboxWriters

LEMMA NextOwnAnswers ==
  ASSUME TypeOK, OwnAnswers, [Next]_vars PROVE OwnAnswers'
  <1> SUFFICES ASSUME pc' = "resolve", NEW q \in todo'
               PROVE  inbox'[q].arc = arc' /\ inbox'[q].status # "none"
    BY DEF OwnAnswers
  <1>1. CASE ReadAnswers
    BY <1>1 DEF ReadAnswers, InboxWith, durable
  <1>2. CASE ~ReadAnswers
    <2>1. pc = "resolve" /\ arc' = arc /\ q \in todo
      BY <1>2
      DEF Next, TickStart, TickStep, CheckOpenArcs, ProbeEscalates, ProbeProceeds, ArcStep,
          OpenArc, OutOfArcs, CheckBudgets, CheckPulse, ResolveNext, Resolve, ResolveDone,
          PickNothing, PickPhase, PhaseAsks, PhaseReturns, PhaseThrows, CloseArc, ArcThrows, Crash,
          Environment, Answer, WatcherAsks, WorldMoves, vars, local, Exit
    <2> QED
      BY <2>1, RowsKeepTheirArc DEF OwnAnswers, TypeOK
  <1> QED
    BY <1>1, <1>2

LEMMA ResolvedInFlight ==
  ASSUME IInv, OwnAnswers, [Next]_vars, NEW q \in Questions, ResolvedBy(q), inbox[q].arc # arc
  PROVE  \E i \in Ran(arc) : reports[arc][i].status = "in-flight"
  <1> USE DEF IInv, ResolvedBy
  <1>1. ~(ProbeEscalates \/ PhaseAsks \/ WatcherAsks)
    <2>1. ASSUME NEW a, NEW m, NEW from, WriteQuestion(a, m, from) PROVE FALSE
      BY <2>1, WriteQuestionEffect
    <2> QED
      BY <2>1 DEF ProbeEscalates, PhaseAsks, WatcherAsks
  <1>2. ~Answer
    BY AnswerEffect DEF Answer
  <1>3. ResolveNext
    BY <1>1, <1>2, InboxWriters
  <1>4. PICK p \in todo : Resolve(p)
    BY <1>3 DEF ResolveNext
  <1>5. p = q
    BY <1>4, AnswerEffect DEF Resolve, TypeOK
  <1>6. pc = "commit"
    BY <1>3, <1>4, <1>5 DEF ResolveNext, OwnAnswers
  <1>7. phases_run + 1 \in 1..MaxPhases /\ reports[arc][phases_run + 1].status = "in-flight"
    BY <1>6, InPhaseFacts DEF InPhase
  <1> QED
    BY <1>7 DEF Ran

\* An answer to an earlier arc is resolved only while a phase of the running arc is in flight
\* (director.ts, 6b): an arc that ends before its first phase leaves it for the next tick.
THEOREM Seeds == Spec => SeedResolvedInFlight
  <1>1. Init => IInv /\ OwnAnswers
    BY InitIInv DEF Init, OwnAnswers
  <1>2. IInv /\ OwnAnswers /\ [Next]_vars => IInv' /\ OwnAnswers'
    BY NextIInv, NextOwnAnswers DEF IInv
  <1>3. IInv /\ OwnAnswers /\ [Next]_vars =>
          [\A q \in Questions : ResolvedBy(q) /\ inbox[q].arc # arc =>
             \E i \in Ran(arc) : reports[arc][i].status = "in-flight"]_vars
    BY ResolvedInFlight
  <1> QED
    BY <1>1, <1>2, <1>3, PTL DEF Spec, SeedResolvedInFlight

\* Between the check of the cap and the question there is room for it.
Asked == {q \in InboxWith("open") : inbox[q].from = "phase"}
BeforeAsking == {"pulse", "answered", "resolve", "pick", "commit", "phase"}
Room ==
  /\ Cardinality(Asked) <= MaxInbox
  /\ pc \in BeforeAsking => Cardinality(Asked) < MaxInbox

LEMMA AskedIsFinite ==
  /\ IsFiniteSet(Asked) /\ Cardinality(Asked) \in Nat
  /\ IsFiniteSet(InboxWith("open")) /\ Cardinality(InboxWith("open")) \in Nat
  /\ Cardinality(Asked) <= Cardinality(InboxWith("open"))
  <1>1. InboxWith("open") \subseteq Questions /\ Asked \subseteq InboxWith("open")
    BY DEF InboxWith, Asked
  <1> QED
    BY <1>1, ConstantsAssumption, FS_Subset, FS_CardinalityType

LEMMA OnlyPhasesAsk ==
  ASSUME TypeOK, [Next]_vars, ~PhaseAsks
  PROVE  Asked' \subseteq Asked
  <1>1. ASSUME NEW a, NEW m, NEW from, from # "phase", WriteQuestion(a, m, from)
        PROVE  Asked' \subseteq Asked
    BY <1>1, WriteQuestionEffect DEF Asked, InboxWith
  <1>2. ASSUME NEW p \in Questions, NEW s \in {"answered", "resolved"},
               inbox' = [inbox EXCEPT ![p].status = s]
        PROVE  Asked' \subseteq Asked
    BY <1>2, AnswerEffect DEF Asked, InboxWith
  <1>3. CASE ProbeEscalates \/ WatcherAsks
    BY <1>1, <1>3 DEF ProbeEscalates, WatcherAsks, Asked, InboxWith
  <1>4. CASE ResolveNext
    <2>1. PICK p \in todo : Resolve(p)
      BY <1>4 DEF ResolveNext
    <2> QED
      BY <1>2, <2>1 DEF Resolve, TypeOK, Asked, InboxWith
  <1>5. CASE Answer
    BY <1>2, <1>5 DEF Answer
  <1>6. CASE UNCHANGED inbox
    BY <1>6 DEF Asked, InboxWith
  <1> QED
    BY <1>3, <1>4, <1>5, <1>6, InboxWriters

LEMMA NextRoom == ASSUME TypeOK, Room, [Next]_vars PROVE Room'
  <1>0. MaxInbox \in Nat /\ Cardinality(Asked) \in Nat /\ IsFiniteSet(Asked)
    BY AskedIsFinite, ConstantsAssumption
  <1>1. CASE PhaseAsks
    <2>1. pc = "phase" /\ pc' = "asked"
      BY <1>1 DEF PhaseAsks
    <2>2. Cardinality(Asked) < MaxInbox
      BY <2>1 DEF Room, BeforeAsking
    <2>3. CASE UNCHANGED inbox
      <3>1. Asked' = Asked
        BY <2>3 DEF Asked, InboxWith
      <3> QED
        BY <1>0, <2>1, <2>2, <3>1 DEF Room, BeforeAsking
    <2>4. CASE ~UNCHANGED inbox
      <3>1. PICK q \in Questions : \A p \in Questions \ {q} : inbox'[p] = inbox[p]
        BY <1>1, <2>4, WriteQuestionEffect DEF PhaseAsks
      <3>2. Asked' \subseteq Asked \cup {q}
        BY <3>1 DEF Asked, InboxWith
      <3>3. IsFiniteSet(Asked \cup {q}) /\ Cardinality(Asked \cup {q}) \in Nat
            /\ Cardinality(Asked \cup {q}) <= Cardinality(Asked) + 1
        <4>1. /\ IsFiniteSet(Asked \cup {q})
              /\ Cardinality(Asked \cup {q}) = IF q \in Asked THEN Cardinality(Asked)
                                                              ELSE Cardinality(Asked) + 1
          BY <1>0, FS_AddElement, Zenon
        <4>2. Cardinality(Asked \cup {q}) \in Nat
          BY <4>1, FS_CardinalityType, Zenon
        <4>3. Cardinality(Asked \cup {q}) <= Cardinality(Asked) + 1
          BY <1>0, <4>1
        <4> QED
          BY <4>1, <4>2, <4>3, Zenon
      <3>4. Cardinality(Asked') <= Cardinality(Asked \cup {q}) /\ Cardinality(Asked') \in Nat
        BY <3>2, <3>3, FS_Subset, FS_CardinalityType
      <3>5. Cardinality(Asked') <= MaxInbox
        BY <1>0, <2>2, <3>3, <3>4
      <3> QED
        BY <2>1, <3>5 DEF Room, BeforeAsking
    <2> QED
      BY <2>3, <2>4
  <1>2. CASE ~PhaseAsks
    <2>1. Cardinality(Asked') <= Cardinality(Asked) /\ Cardinality(Asked') \in Nat
      BY <1>0, <1>2, OnlyPhasesAsk, FS_Subset, FS_CardinalityType
    <2>2. CASE CheckBudgets /\ pc' = "pulse"
      <3>1. ~InboxFull
        BY <2>2 DEF CheckBudgets, Exit
      <3>2. Cardinality(Asked) < MaxInbox
        BY <1>0, <3>1, AskedIsFinite DEF InboxFull
      <3> QED
        BY <1>0, <2>1, <3>2 DEF Room
    <2>3. CASE ~(CheckBudgets /\ pc' = "pulse")
      <3>1. pc' \in BeforeAsking => pc \in BeforeAsking
        BY <1>2, <2>3
        DEF Next, TickStart, TickStep, CheckOpenArcs, ProbeEscalates, ProbeProceeds, ArcStep,
            OpenArc, OutOfArcs, CheckBudgets, CheckPulse, ReadAnswers, ResolveNext, ResolveDone,
            PickNothing, PickPhase, PhaseReturns, PhaseThrows, CloseArc, ArcThrows, Crash,
            Environment, Answer, WatcherAsks, WorldMoves, vars, Exit, BeforeAsking
      <3> QED
        BY <1>0, <2>1, <3>1 DEF Room
    <2> QED
      BY <2>2, <2>3
  <1> QED
    BY <1>1, <1>2

LEMMA InitRoom == Init => Room
  <1> SUFFICES ASSUME Init PROVE Room
    OBVIOUS
  <1>1. Asked = {}
    BY DEF Init, NoQuestion, Asked, InboxWith
  <1> QED
    BY <1>1, FS_EmptySet, ConstantsAssumption DEF Room, Init, BeforeAsking

\* Whatever the watchers file between the check of the cap and the question, the open questions
\* that phases asked never outnumber budget_max_inbox_qs (director.ts, 2).
THEOREM Questioned == Spec => []PhaseQuestionsBounded
  <1>1. Init => IInv /\ Room
    BY InitIInv, InitRoom
  <1>2. IInv /\ Room /\ [Next]_vars => IInv' /\ Room'
    BY NextIInv, NextRoom DEF IInv
  <1>3. Room => PhaseQuestionsBounded
    BY DEF Room, PhaseQuestionsBounded, Asked
  <1> QED
    BY <1>1, <1>2, <1>3, PTL DEF Spec

-----------------------------------------------------------------------------
(* Sums of the minutes of reports *)

\* The table of partial sums that SumFunctionOnSet builds over the subsets of S.
Some(s) == CHOOSE x \in s : TRUE
IsTable(g, f, S) ==
  g = [s \in SUBSET S |-> IF s = {} THEN 0 ELSE f[Some(s)] + g[s \ {Some(s)}]]

\* The sum is an entry of the table, when there is one: SumFunctionOnSet is a CHOOSE of it.
LEMMA SumIsOfTable ==
  ASSUME NEW f, NEW S, \E g : IsTable(g, f, S)
  PROVE  \E g : IsTable(g, f, S) /\ SumFunctionOnSet(f, S) = g[S]
  <1> DEFINE t == CHOOSE g : IsTable(g, f, S)
  <1>1. IsTable(t, f, S)
    OBVIOUS
  <1>2. SumFunctionOnSet(f, S) = t[S]
    BY Zenon DEF SumFunctionOnSet, FoldFunctionOnSet, MapThenFoldSet, IsTable, Some
  <1> QED
    BY <1>1, <1>2, Zenon

\* Induction over a finite set: a set of its subsets that is not empty has a minimal one.
LEMMA LeastSubset ==
  ASSUME NEW S, IsFiniteSet(S), NEW Bad, Bad \subseteq SUBSET S, Bad # {}
  PROVE  \E T \in Bad : IsFiniteSet(T) /\ \A U \in Bad : U \subseteq T => U = T
  <1>1. IsWellFoundedOn(StrictSubsetOrdering(S), FiniteSubsetsOf(S))
    BY FS_StrictSubsetOrderingWellFounded
  <1>2. FiniteSubsetsOf(S) = SUBSET S
    BY FS_FiniteSubsetsOfFinite
  <1>3. PICK T \in Bad : \A U \in Bad : ~(<<U, T>> \in StrictSubsetOrdering(S))
    BY <1>1, <1>2, WFMin
  <1>4. \A U \in Bad : U \subseteq T => U = T
    BY <1>3, Zenon DEF StrictSubsetOrdering
  <1>5. IsFiniteSet(T)
    BY FS_Subset
  <1> QED
    BY <1>4, <1>5

LEMMA SomeIn ==
  ASSUME NEW s, s # {}
  PROVE  Some(s) \in s /\ s \ {Some(s)} \subseteq s /\ s \ {Some(s)} # s
  <1>1. Some(s) \in s
    BY DEF Some
  <1> QED
    BY <1>1

\* Two tables agree where both are defined.
LEMMA TablesAgree ==
  ASSUME NEW f, NEW S, NEW T, IsFiniteSet(T), T \subseteq S, NEW g, NEW h,
         IsTable(g, f, S), IsTable(h, f, T)
  PROVE  \A s \in SUBSET T : g[s] = h[s]
  <1> DEFINE Bad == {s \in SUBSET T : g[s] # h[s]}
  <1> SUFFICES ASSUME Bad # {} PROVE FALSE
    OBVIOUS
  <1>0. Bad \subseteq SUBSET T
    OBVIOUS
  <1>1. PICK s \in Bad : \A u \in Bad : u \subseteq s => u = s
    <2> HIDE DEF Bad
    <2> QED
      BY <1>0, LeastSubset
  <1> DEFINE x == Some(s)
  <1>2. \A u \in SUBSET T : /\ g[u] = IF u = {} THEN 0 ELSE f[Some(u)] + g[u \ {Some(u)}]
                            /\ h[u] = IF u = {} THEN 0 ELSE f[Some(u)] + h[u \ {Some(u)}]
    BY Zenon DEF IsTable
  <1>3. s # {}
    BY <1>2
  <1>4. s \ {x} \notin Bad /\ s \ {x} \in SUBSET T
    BY <1>1, <1>3, SomeIn
  <1>5. g[s \ {x}] = h[s \ {x}]
    BY <1>4
  <1>6. g[s] = h[s]
    BY <1>2, <1>3, <1>5
  <1> QED
    BY <1>6

\* The table exists: a minimal subset without one could be given one.
LEMMA TableExists == ASSUME NEW f, NEW S, IsFiniteSet(S) PROVE \E g : IsTable(g, f, S)
  <1> DEFINE Bad == {T \in SUBSET S : ~ \E g : IsTable(g, f, T)}
  <1> SUFFICES ASSUME Bad # {} PROVE FALSE
    OBVIOUS
  <1>0. Bad \subseteq SUBSET S
    OBVIOUS
  <1>1. PICK T \in Bad : IsFiniteSet(T) /\ \A U \in Bad : U \subseteq T => U = T
    <2> HIDE DEF Bad
    <2> QED
      BY <1>0, LeastSubset
  <1> DEFINE table(s) == CHOOSE g : IsTable(g, f, s)
             value(s) == IF s = {} THEN 0 ELSE f[Some(s)] + table(s \ {Some(s)})[s \ {Some(s)}]
             g == [s \in SUBSET T |-> value(s)]
  <1>2. \A s \in SUBSET T : s # T => IsTable(table(s), f, s)
    <2> SUFFICES ASSUME NEW s \in SUBSET T, s # T PROVE \E h : IsTable(h, f, s)
      OBVIOUS
    <2> QED
      BY <1>1
  <1>3. ASSUME NEW s \in SUBSET T, s # T PROVE table(s)[s] = value(s)
    <2>1. IsTable(table(s), f, s)
      BY <1>2, <1>3
    <2>2. table(s)[s] = IF s = {} THEN 0 ELSE f[Some(s)] + table(s)[s \ {Some(s)}]
      BY <2>1, Zenon DEF IsTable
    <2>3. CASE s = {}
      BY <2>2, <2>3
    <2>4. CASE s # {}
      <3> DEFINE u == s \ {Some(s)}
      <3>1. u \subseteq s /\ u \subseteq T /\ u # T
        BY <1>3, <2>4, SomeIn
      <3>2. IsTable(table(u), f, u) /\ IsFiniteSet(u)
        BY <1>1, <1>2, <3>1, FS_Subset
      <3> HIDE DEF table
      <3>3. table(s)[u] = table(u)[u]
        BY <2>1, <3>1, <3>2, TablesAgree
      <3> QED
        BY <2>2, <2>4, <3>3
    <2> QED
      BY <2>3, <2>4
  <1>4. ASSUME NEW s \in SUBSET T
        PROVE  g[s] = IF s = {} THEN 0 ELSE f[Some(s)] + g[s \ {Some(s)}]
    <2>1. CASE s = {}
      BY <2>1
    <2>2. CASE s # {}
      <3> DEFINE u == s \ {Some(s)}
      <3>1. u \in SUBSET T /\ u # T
        BY <2>2, SomeIn
      <3> HIDE DEF table
      <3>2. g[u] = table(u)[u]
        BY <1>3, <3>1
      <3> QED
        BY <2>2, <3>2
    <2> QED
      BY <2>1, <2>2
  <1> HIDE DEF value
  <1>5. IsTable(g, f, T)
    BY <1>4, Zenon DEF IsTable
  <1> QED
    BY <1>5

Sum(f, S) == SumFunctionOnSet(f, S)

\* The sum over a set, unfolded once.
LEMMA SumStep ==
  ASSUME NEW f, NEW S, IsFiniteSet(S)
  PROVE  SumFunctionOnSet(f, S) =
           IF S = {} THEN 0 ELSE f[Some(S)] + SumFunctionOnSet(f, S \ {Some(S)})
  <1>1. PICK g : IsTable(g, f, S) /\ SumFunctionOnSet(f, S) = g[S]
    BY TableExists, SumIsOfTable, Zenon
  <1>2. g[S] = IF S = {} THEN 0 ELSE f[Some(S)] + g[S \ {Some(S)}]
    BY <1>1, Zenon DEF IsTable
  <1>3. CASE S = {}
    BY <1>1, <1>2, <1>3
  <1>4. CASE S # {}
    <2> DEFINE T == S \ {Some(S)}
    <2>1. T \subseteq S /\ IsFiniteSet(T)
      BY FS_Subset
    <2>2. PICK h : IsTable(h, f, T) /\ SumFunctionOnSet(f, T) = h[T]
      BY <2>1, TableExists, SumIsOfTable, Zenon
    <2>3. g[T] = h[T]
      BY <1>1, <2>1, <2>2, TablesAgree
    <2> QED
      BY <1>1, <1>2, <1>4, <2>2, <2>3
  <1> QED
    BY <1>3, <1>4

\* The order of the summands does not matter.
LEMMA SumSplit ==
  ASSUME NEW f, NEW S, IsFiniteSet(S), \A x \in S : f[x] \in Nat
  PROVE  /\ SumFunctionOnSet(f, S) \in Nat
         /\ \A x \in S : SumFunctionOnSet(f, S) = f[x] + SumFunctionOnSet(f, S \ {x})
  <1> DEFINE Good(T) == /\ Sum(f, T) \in Nat
                        /\ \A x \in T : Sum(f, T) = f[x] + Sum(f, T \ {x})
             Bad == {T \in SUBSET S : ~Good(T)}
  <1> SUFFICES ASSUME Bad # {} PROVE FALSE
    BY DEF Sum
  <1>0. Bad \subseteq SUBSET S
    OBVIOUS
  <1>1. PICK T \in Bad : IsFiniteSet(T) /\ \A U \in Bad : U \subseteq T => U = T
    <2> HIDE DEF Bad
    <2> QED
      BY <1>0, LeastSubset
  <1>2. \A U \in SUBSET T : U # T => Good(U)
    BY <1>1
  <1>3. \A U \in SUBSET T : U # {} => Sum(f, U) = f[Some(U)] + Sum(f, U \ {Some(U)})
    BY <1>1, FS_Subset, SumStep DEF Sum
  <1>4. CASE T = {}
    <2>1. Sum(f, {}) = 0
      BY FS_EmptySet, SumStep DEF Sum
    <2> QED
      BY <1>1, <1>4, <2>1
  <1>5. CASE T # {}
    <2> DEFINE x == Some(T)  A == T \ {x}
    <2>1. x \in T /\ A \in SUBSET T /\ A # T /\ Good(A) /\ f[x] \in Nat
      BY <1>2, <1>5, SomeIn
    <2>2. Sum(f, T) = f[x] + Sum(f, A)
      BY <1>3, <1>5
    <2>3. ASSUME NEW y \in T PROVE Sum(f, T) = f[y] + Sum(f, T \ {y})
      <3>1. CASE y = x
        BY <2>2, <3>1
      <3>2. CASE y # x
        <4> DEFINE B == T \ {y}  C == A \ {y}
        <4>1. /\ C = B \ {x} /\ x \in B /\ y \in A
              /\ B \in SUBSET T /\ C \in SUBSET T /\ B # T /\ C # T
          BY <2>1, <2>3, <3>2
        <4>2. Good(B) /\ Good(C)
          BY <1>2, <4>1
        <4>3. Sum(f, B) = f[x] + Sum(f, C) /\ Sum(f, A) = f[y] + Sum(f, C)
          BY <2>1, <4>1, <4>2
        <4>4. f[y] \in Nat /\ Sum(f, C) \in Nat
          BY <4>2
        <4>5. f[x] \in Nat /\ Sum(f, T) = f[x] + Sum(f, A)
          BY <2>1, <2>2
        <4> HIDE DEF A, B, C, x
        <4>6. Sum(f, T) = f[y] + Sum(f, B)
          BY <4>3, <4>4, <4>5
        <4> QED
          BY <4>6 DEF B
      <3> QED
        BY <3>1, <3>2
    <2>4. Sum(f, T) \in Nat
      BY <2>1, <2>2
    <2> QED
      BY <1>1, <2>3, <2>4
  <1> QED
    BY <1>4, <1>5

LEMMA SumEmpty == ASSUME NEW f PROVE SumFunctionOnSet(f, {}) = 0
  BY FS_EmptySet, SumStep

\* A sum over more is no less, and it only depends on the summands.
LEMMA SumGrows ==
  ASSUME NEW f, NEW S, IsFiniteSet(S), \A x \in S : f[x] \in Nat, NEW R \in SUBSET S
  PROVE  SumFunctionOnSet(f, R) <= SumFunctionOnSet(f, S)
  <1> DEFINE Bad == {T \in SUBSET S : R \subseteq T /\ ~(Sum(f, R) <= Sum(f, T))}
  <1> SUFFICES ASSUME Bad # {} PROVE FALSE
    BY DEF Sum
  <1>0. Bad \subseteq SUBSET S
    OBVIOUS
  <1>1. PICK T \in Bad : IsFiniteSet(T) /\ \A U \in Bad : U \subseteq T => U = T
    <2> HIDE DEF Bad
    <2> QED
      BY <1>0, LeastSubset
  <1>2. /\ Sum(f, T) \in Nat /\ \A x \in T : Sum(f, T) = f[x] + Sum(f, T \ {x})
    BY <1>1, SumSplit DEF Sum
  <1>3. T # R
    BY <1>1, <1>2
  <1>4. PICK x \in T : x \notin R
    BY <1>1, <1>3
  <1> DEFINE U == T \ {x}
  <1>5. U \notin Bad /\ R \subseteq U /\ U \in SUBSET S /\ IsFiniteSet(U)
    BY <1>1, <1>4, FS_Subset
  <1>6. Sum(f, R) <= Sum(f, U) /\ Sum(f, U) \in Nat /\ Sum(f, R) \in Nat
    <2>1. Sum(f, R) <= Sum(f, U)
      BY <1>5
    <2>2. IsFiniteSet(R)
      BY FS_Subset
    <2> QED
      BY <1>5, <2>1, <2>2, SumSplit DEF Sum
  <1>7. f[x] \in Nat /\ Sum(f, T) = f[x] + Sum(f, U)
    BY <1>2, <1>4
  <1>8. Sum(f, R) <= Sum(f, T)
    BY <1>6, <1>7
  <1> QED
    BY <1>1, <1>8

LEMMA SumSame ==
  ASSUME NEW f, NEW g, NEW S, IsFiniteSet(S), \A x \in S : f[x] \in Nat /\ f[x] = g[x]
  PROVE  SumFunctionOnSet(f, S) = SumFunctionOnSet(g, S)
  <1> DEFINE Bad == {T \in SUBSET S : Sum(f, T) # Sum(g, T)}
  <1> SUFFICES ASSUME Bad # {} PROVE FALSE
    BY DEF Sum
  <1>0. Bad \subseteq SUBSET S
    OBVIOUS
  <1>1. PICK T \in Bad : IsFiniteSet(T) /\ \A U \in Bad : U \subseteq T => U = T
    <2> HIDE DEF Bad
    <2> QED
      BY <1>0, LeastSubset
  <1> DEFINE x == Some(T)  U == T \ {x}
  <1>2. T # {}
    BY <1>1, SumEmpty DEF Sum
  <1>3. x \in T /\ U \notin Bad /\ U \in SUBSET S
    BY <1>1, <1>2, SomeIn
  <1>4. Sum(f, T) = f[x] + Sum(f, U) /\ Sum(g, T) = g[x] + Sum(g, U)
    BY <1>1, <1>2, SumStep DEF Sum
  <1>5. f[x] = g[x] /\ Sum(f, U) = Sum(g, U)
    BY <1>3
  <1> QED
    BY <1>1, <1>4, <1>5

LEMMA SumZero ==
  ASSUME NEW f, NEW S, IsFiniteSet(S), \A x \in S : f[x] = 0
  PROVE  SumFunctionOnSet(f, S) = 0
  <1> DEFINE Bad == {T \in SUBSET S : Sum(f, T) # 0}
  <1> SUFFICES ASSUME Bad # {} PROVE FALSE
    BY DEF Sum
  <1>0. Bad \subseteq SUBSET S
    OBVIOUS
  <1>1. PICK T \in Bad : IsFiniteSet(T) /\ \A U \in Bad : U \subseteq T => U = T
    <2> HIDE DEF Bad
    <2> QED
      BY <1>0, LeastSubset
  <1>2. T # {}
    BY <1>1, SumEmpty DEF Sum
  <1>3. Some(T) \in T /\ Sum(f, T \ {Some(T)}) = 0
    BY <1>1, <1>2, SomeIn
  <1> QED
    BY <1>1, <1>2, <1>3, SumStep DEF Sum

-----------------------------------------------------------------------------
(* The budgets of an arc *)

\* What a row's Over reads never changes: the keys of the reports, and of the answers a tick
\* holds, are sources or questions that have been asked.
Known == Sources \cup {q \in Questions : inbox[q].status # "none"}
KeysAreKnown ==
  /\ seed \cup answered \subseteq Known
  /\ \A a \in Arcs : \A i \in Ran(a) : reports[a][i].key \in Known

\* A report costs nothing before its phase ends.
FreeUntilDone ==
  \A a \in Arcs : \A i \in 1..MaxPhases :
    reports[a][i].status \in {"none", "in-flight"} =>
      reports[a][i].minutes = 0 /\ reports[a][i].cents = 0

\* The arc's clock backs its reports, but for half a minute each, and its exit is decided from
\* the clock at the top of the loop and from the last report below.
Outside == {"idle"} \cup BeforeArc
Spending == {"pulse", "answered", "resolve", "pick"} \cup InPhase
SomeOver(a) == \E i \in Ran(a) : Over(reports[a][i])
Spent(a) == SumFunction(Minutes(a))
Backed(a) == 2 * (Minute * Spent(a)) <= 2 * elapsed + phases_run * Minute
Closing(a) ==
  /\ exit # "none"
  /\ exit = "budget" => phases_run >= MaxPhases \/ elapsed > MaxMinutes * Minute
  /\ exit = "budget-exceeded" <=> exit # "pulse-ko" /\ SomeOver(a)
ClockIsTrue ==
  /\ pc \in Outside => elapsed = 0 /\ exit = "none"
  /\ pc \in Spending => elapsed <= MaxMinutes * Minute
  /\ \A a \in Arcs : a = arc /\ pc \in InArc =>
       /\ Backed(a)
       /\ pc = "close" => Closing(a)
       /\ pc # "close" => exit = "none" /\ ~SomeOver(a)
  /\ \A a \in Arcs : arcs[a].status \in {"none", "open"} => arcs[a].exit = "none"

Budgets == KeysAreKnown /\ FreeUntilDone /\ ClockIsTrue /\ OvershootsByOnePhase /\ ExitIsExplained

\* What is spent by an arc, and before one of its phases.
LEMMA SpentFacts ==
  ASSUME TypeOK, NEW a \in Arcs
  PROVE  /\ IsFiniteSet(1..MaxPhases)
         /\ Spent(a) = SumFunctionOnSet(Minutes(a), 1..MaxPhases) /\ Spent(a) \in Nat
         /\ \A i \in 1..MaxPhases :
              /\ Minutes(a)[i] = reports[a][i].minutes /\ Minutes(a)[i] \in Nat
              /\ SpentBefore(a, i) \in Nat /\ SpentBefore(a, i) <= Spent(a)
  <1>1. IsFiniteSet(1..MaxPhases)
    BY ConstantsAssumption, FS_Interval
  <1>2. \A i \in 1..MaxPhases : Minutes(a)[i] = reports[a][i].minutes /\ Minutes(a)[i] \in Nat
    BY DEF Minutes, TypeOK, ReportRow
  <1>3. Spent(a) = SumFunctionOnSet(Minutes(a), 1..MaxPhases)
    BY Zenon DEF Spent, Minutes, SumFunction
  <1>4. Spent(a) \in Nat
    BY <1>1, <1>2, <1>3, SumSplit
  <1>5. ASSUME NEW i \in 1..MaxPhases
        PROVE  SpentBefore(a, i) \in Nat /\ SpentBefore(a, i) <= Spent(a)
    <2>1. 1..(i - 1) \subseteq 1..MaxPhases
      BY ConstantsAssumption
    <2>2. IsFiniteSet(1..(i - 1))
      BY <1>1, <2>1, FS_Subset
    <2>3. SpentBefore(a, i) \in Nat
      BY <1>2, <2>1, <2>2, SumSplit DEF SpentBefore
    <2>4. SpentBefore(a, i) <= Spent(a)
      BY <1>1, <1>2, <1>3, <2>1, SumGrows DEF SpentBefore
    <2> QED
      BY <2>3, <2>4
  <1> QED
    BY <1>1, <1>2, <1>3, <1>4, <1>5

\* Rows that are not written keep the sums over them.
LEMMA SpentBeforeSame ==
  ASSUME TypeOK, TypeOK', NEW a \in Arcs, NEW i \in 1..MaxPhases,
         \A j \in 1..(i - 1) : reports'[a][j] = reports[a][j]
  PROVE  SpentBefore(a, i)' = SpentBefore(a, i)
  <1>1. 1..(i - 1) \subseteq 1..MaxPhases /\ IsFiniteSet(1..MaxPhases)
    BY ConstantsAssumption, SpentFacts
  <1>2. IsFiniteSet(1..(i - 1))
    BY <1>1, FS_Subset
  <1>3. \A j \in 1..(i - 1) : Minutes(a)[j] \in Nat /\ Minutes(a)[j] = Minutes(a)'[j]
    BY <1>1 DEF Minutes, TypeOK, ReportRow
  <1>4. SumFunctionOnSet(Minutes(a), 1..(i - 1)) = SumFunctionOnSet(Minutes(a)', 1..(i - 1))
    BY <1>2, <1>3, SumSame
  <1> QED
    BY <1>4 DEF SpentBefore

\* When one row is written, the sum moves by its minutes.
LEMMA SpentMoves ==
  ASSUME TypeOK, TypeOK', NEW a \in Arcs, NEW n \in 1..MaxPhases,
         \A j \in 1..MaxPhases : j # n => reports'[a][j] = reports[a][j],
         reports[a][n].minutes = 0
  PROVE  Spent(a)' = Spent(a) + reports'[a][n].minutes
  <1> DEFINE S == 1..MaxPhases
             f == Minutes(a)
             g == Minutes(a)'
  <1>1. IsFiniteSet(S) /\ IsFiniteSet(S \ {n})
    <2>1. IsFiniteSet(S)
      BY SpentFacts
    <2> HIDE DEF S
    <2> QED
      BY <2>1, FS_Subset
  <1>2. \A j \in S : f[j] \in Nat /\ g[j] \in Nat /\ (j # n => f[j] = g[j])
    BY DEF Minutes, TypeOK, ReportRow
  <1>3. f[n] = 0 /\ g[n] = reports'[a][n].minutes
    BY DEF Minutes
  <1>4. Spent(a) = SumFunctionOnSet(f, S) /\ Spent(a)' = SumFunctionOnSet(g, S)
    BY DEF Spent, Minutes, SumFunction
  <1> HIDE DEF f, g
  <1>5. SumFunctionOnSet(f, S \ {n}) = SumFunctionOnSet(g, S \ {n})
    <2> DEFINE R == S \ {n}
    <2>1. \A j \in R : f[j] \in Nat /\ f[j] = g[j]
      BY <1>2
    <2> HIDE DEF R
    <2> QED
      BY <1>1, <2>1, SumSame DEF R
  <1>6. /\ SumFunctionOnSet(f, S) = f[n] + SumFunctionOnSet(f, S \ {n})
        /\ SumFunctionOnSet(g, S) = g[n] + SumFunctionOnSet(g, S \ {n})
    <2>1. n \in S
      OBVIOUS
    <2>2. \A j \in S : f[j] \in Nat
      BY <1>2
    <2>3. \A j \in S : g[j] \in Nat
      BY <1>2
    <2> HIDE DEF S
    <2>4. SumFunctionOnSet(f, S) = f[n] + SumFunctionOnSet(f, S \ {n})
      BY <1>1, <2>1, <2>2, SumSplit
    <2>5. SumFunctionOnSet(g, S) = g[n] + SumFunctionOnSet(g, S \ {n})
      BY <1>1, <2>1, <2>3, SumSplit
    <2> QED
      BY <2>4, <2>5
  <1>7. SumFunctionOnSet(f, S \ {n}) \in Nat
    <2> DEFINE R == S \ {n}
    <2>1. \A j \in R : f[j] \in Nat
      BY <1>2
    <2> HIDE DEF R
    <2> QED
      BY <1>1, <2>1, SumSplit DEF R
  <1>8. g[n] \in Nat
    BY <1>2
  <1> QED
    BY <1>3, <1>4, <1>5, <1>6, <1>7, <1>8

LEMMA NothingSpent ==
  ASSUME TypeOK, NEW a \in Arcs, \A i \in 1..MaxPhases : reports[a][i].minutes = 0
  PROVE  Spent(a) = 0
  <1>1. IsFiniteSet(1..MaxPhases) /\ Spent(a) = SumFunctionOnSet(Minutes(a), 1..MaxPhases)
    BY SpentFacts
  <1>2. \A i \in 1..MaxPhases : Minutes(a)[i] = 0
    BY DEF Minutes
  <1> QED
    BY <1>1, <1>2, SumZero

\* A question that has been asked keeps its mode.
LEMMA RowsKeepTheirMode ==
  ASSUME TypeOK, [Next]_vars, NEW q \in Questions, inbox[q].status # "none"
  PROVE  inbox'[q].mode = inbox[q].mode
  <1>1. ASSUME NEW a, NEW m, NEW from, WriteQuestion(a, m, from) PROVE inbox'[q] = inbox[q]
    BY <1>1, WriteQuestionEffect
  <1>2. ASSUME NEW p \in Questions, NEW s \in {"answered", "resolved"},
               inbox' = [inbox EXCEPT ![p].status = s]
        PROVE  inbox'[q].mode = inbox[q].mode
    BY <1>2 DEF TypeOK, InboxRow
  <1>3. CASE ProbeEscalates \/ PhaseAsks \/ WatcherAsks
    BY <1>1, <1>3 DEF ProbeEscalates, PhaseAsks, WatcherAsks
  <1>4. CASE ResolveNext
    <2>1. PICK p \in todo : Resolve(p)
      BY <1>4 DEF ResolveNext
    <2>2. p \in Questions
      BY <2>1 DEF TypeOK
    <2> QED
      BY <1>2, <2>1, <2>2 DEF Resolve
  <1>5. CASE Answer
    BY <1>2, <1>5 DEF Answer
  <1> QED
    BY <1>3, <1>4, <1>5, InboxWriters

LEMMA KnownGrows == ASSUME TypeOK, [Next]_vars PROVE Known \subseteq Known'
  BY RowsKeepTheirArc DEF Known

\* So what a row that is not written costs is over its budget after a step if it was before.
LEMMA KnownMode ==
  ASSUME TypeOK, [Next]_vars, NEW k \in Known
  PROVE  ModeOfKey(k)' = ModeOfKey(k) /\ ModeOfKey(k) \in Modes
  <1>1. k \in Keys
    BY DEF Known, Keys
  <1>2. CASE k \in Questions
    <2>1. inbox[k].status # "none"
      BY <1>2, ConstantsAssumption DEF Known
    <2> QED
      BY <1>1, <1>2, <2>1, RowsKeepTheirMode, ModeOfKeyType DEF ModeOfKey
  <1>3. CASE k \notin Questions
    BY <1>1, <1>3, ModeOfKeyType DEF ModeOfKey
  <1> QED
    BY <1>2, <1>3

LEMMA OverStays ==
  ASSUME TypeOK, KeysAreKnown, [Next]_vars, NEW a \in Arcs, NEW i \in Ran(a),
         reports'[a][i] = reports[a][i]
  PROVE  Over(reports[a][i])' <=> Over(reports[a][i])
  <1>1. PICK k \in Known : k = reports[a][i].key /\ k = reports'[a][i].key
    BY DEF KeysAreKnown
  <1>2. ModeOfKey(k)' = ModeOfKey(k)
    BY KnownMode
  <1> QED
    BY <1>1, <1>2 DEF Over, ModeOfKey

-----------------------------------------------------------------------------
\* How the tick moves when it writes neither an arc nor a report.
Writes == OpenArc \/ PickPhase \/ PhaseReturns \/ PhaseThrows \/ CloseArc

LEMMA Moves ==
  ASSUME TypeOK, [Next]_vars, ~Writes
  PROVE  \/ pc' = "idle" /\ elapsed' = 0 /\ exit' = "none"
         \/ pc \in Outside /\ pc' \in Outside /\ UNCHANGED <<elapsed, exit>>
         \/ /\ pc \in InArc /\ pc' \in InArc /\ UNCHANGED <<arc, phases_run>>
            /\ elapsed' >= elapsed
            /\ \/ /\ UNCHANGED exit
                  /\ pc = "close" <=> pc' = "close"
                  /\ pc' \in Spending =>
                       (pc \in Spending /\ elapsed' = elapsed) \/ ~OutOfBudget(elapsed')
               \/ /\ pc # "close" /\ pc' = "close"
                  /\ exit' \in ExitReasons \ {"budget-exceeded"}
                  /\ exit' = "budget" => OutOfBudget(elapsed')
  <1> USE DEF TypeOK, local, Outside, BeforeArc, InArc, Spending, InPhase, ExitReasons
  <1>1. CASE UNCHANGED vars
    BY <1>1 DEF vars
  <1>2. CASE TickStart \/ CheckOpenArcs \/ ProbeEscalates \/ ProbeProceeds
    BY <1>2 DEF TickStart, CheckOpenArcs, ProbeEscalates, ProbeProceeds
  <1>3. CASE OutOfArcs \/ ArcThrows \/ Crash
    BY <1>3 DEF OutOfArcs, ArcThrows, Crash, FreshLocals
  <1>4. CASE CheckBudgets
    <2>1. elapsed' >= elapsed
      BY <1>4, ConstantsAssumption DEF CheckBudgets
    <2> QED
      BY <1>4, <2>1 DEF CheckBudgets, Exit
  <1>5. CASE CheckPulse \/ PickNothing
    BY <1>5 DEF CheckPulse, PickNothing, Exit
  <1>6. CASE ReadAnswers \/ ResolveNext \/ ResolveDone \/ PhaseAsks
    BY <1>6 DEF ReadAnswers, ResolveNext, ResolveDone, PhaseAsks
  <1>7. CASE Environment
    BY <1>7 DEF Environment, Answer, WatcherAsks, WorldMoves
  <1> QED
    BY <1>1, <1>2, <1>3, <1>4, <1>5, <1>6, <1>7 DEF Next, TickStep, ArcStep, Writes

LEMMA InitBudgets == Init => Budgets
  <1> SUFFICES ASSUME Init PROVE Budgets
    OBVIOUS
  <1>1. \A a \in Arcs : Ran(a) = {}
    BY DEF Init, Ran, NoReport
  <1>2. KeysAreKnown /\ FreeUntilDone
    BY <1>1 DEF Init, KeysAreKnown, FreeUntilDone, NoReport
  <1>3. ClockIsTrue
    BY DEF Init, ClockIsTrue, Spending, InArc, InPhase
  <1> QED
    BY <1>1, <1>2, <1>3 DEF Budgets, OvershootsByOnePhase, ExitIsExplained, Init

LEMMA NextKeysAreKnown ==
  ASSUME IInv, KeysAreKnown, [Next]_vars PROVE KeysAreKnown'
  <1>1. TypeOK /\ TypeOK' /\ LocalsMatchRows /\ Known \subseteq Known'
    BY NextIInv, KnownGrows DEF IInv
  <1>2. seed' \cup answered' \subseteq seed \cup answered \cup InboxWith("answered")
    BY <1>1 DEF Next, TickStart, TickStep, CheckOpenArcs, ProbeEscalates, ProbeProceeds, ArcStep,
         OpenArc, OutOfArcs, CheckBudgets, CheckPulse, ReadAnswers, ResolveNext, ResolveDone,
         PickNothing, PickPhase, PhaseAsks, PhaseReturns, PhaseThrows, CloseArc, ArcThrows, Crash,
         Environment, Answer, WatcherAsks, WorldMoves, vars, local, FreshLocals, SeedAnswers
  <1>3. seed' \cup answered' \subseteq Known'
    BY <1>1, <1>2 DEF KeysAreKnown, Known, InboxWith
  <1>4. ASSUME NEW a \in Arcs, NEW i \in Ran(a)' PROVE reports'[a][i].key \in Known'
    <2>1. CASE reports' = reports
      BY <1>1, <1>4, <2>1 DEF KeysAreKnown, Ran
    <2>2. CASE PickPhase
      <3>1. PICK key \in TopOf(answered \cup seed, PickedKeys) \ {NoKey} :
              reports' = [reports EXCEPT ![arc][phases_run + 1] =
                            [status |-> "in-flight", key |-> key, minutes |-> 0, cents |-> 0]]
        BY <2>2 DEF PickPhase
      <3>2. key \in Known
        BY <3>1 DEF TopOf, KeysAreKnown, Known
      <3>3. arc \in Arcs /\ phases_run + 1 \in 1..MaxPhases
        BY <1>1, <2>2, PickPhaseFacts
      <3>4. \/ reports'[a][i] = reports[a][i]
            \/ reports'[a][i].key = key
        BY <1>1, <1>4, <3>1, <3>3 DEF TypeOK, Ran
      <3> QED
        BY <1>1, <1>4, <3>2, <3>4 DEF KeysAreKnown, Ran
    <2>3. CASE PhaseReturns \/ PhaseThrows
      <3>1. /\ reports'[a][i].key = reports[a][i].key
            /\ i \in Ran(a)
        BY <1>1, <1>4, <2>3, PhaseEndFacts, InPhaseFacts DEF Ran
      <3> QED
        BY <1>1, <3>1 DEF KeysAreKnown
    <2> QED
      BY <2>1, <2>2, <2>3, RowWriters DEF Quiet, OpenArc, CloseArc
  <1> QED
    BY <1>3, <1>4 DEF KeysAreKnown

LEMMA NextFreeUntilDone ==
  ASSUME IInv, FreeUntilDone, [Next]_vars PROVE FreeUntilDone'
  <1>1. TypeOK /\ TypeOK' /\ LocalsMatchRows
    BY NextIInv DEF IInv
  <1>2. CASE reports' = reports
    BY <1>1, <1>2 DEF FreeUntilDone
  <1>3. CASE PickPhase
    <2>1. PICK key :
            reports' = [reports EXCEPT ![arc][phases_run + 1] =
                          [status |-> "in-flight", key |-> key, minutes |-> 0, cents |-> 0]]
      BY <1>3 DEF PickPhase
    <2> QED
      BY <1>1, <2>1 DEF FreeUntilDone, TypeOK
  <1>4. CASE PhaseReturns \/ PhaseThrows
    <2>1. /\ reports'[arc][phases_run + 1].status \in Finished
          /\ \A i \in 1..MaxPhases : i # phases_run + 1 => reports'[arc][i] = reports[arc][i]
          /\ \A a \in Arcs : a # arc => reports'[a] = reports[a]
      BY <1>1, <1>4, PhaseEndFacts
    <2> QED
      BY <2>1 DEF FreeUntilDone, Finished
  <1> QED
    BY <1>2, <1>3, <1>4, RowWriters DEF Quiet, OpenArc, CloseArc

\* An arc whose reports are not written costs what it did.
LEMMA RowsSame ==
  ASSUME TypeOK, KeysAreKnown, [Next]_vars, NEW a \in Arcs, reports'[a] = reports[a]
  PROVE  /\ Ran(a)' = Ran(a) /\ Spent(a)' = Spent(a)
         /\ \A i \in 1..MaxPhases : SpentBefore(a, i)' = SpentBefore(a, i)
         /\ SomeOver(a)' <=> SomeOver(a)
  <1>1. Ran(a)' = Ran(a)
    BY DEF Ran
  <1>2. \A i \in Ran(a) : Over(reports[a][i])' <=> Over(reports[a][i])
    BY OverStays
  <1>3. SomeOver(a)' <=> SomeOver(a)
    BY <1>1, <1>2 DEF SomeOver
  <1>4. Minutes(a)' = Minutes(a)
    BY DEF Minutes
  <1>5. Spent(a)' = Spent(a)
    BY <1>4 DEF Spent
  <1>6. \A i \in 1..MaxPhases : SpentBefore(a, i)' = SpentBefore(a, i)
    BY <1>4 DEF SpentBefore
  <1> QED
    BY <1>1, <1>3, <1>5, <1>6

\* A phase starts free, and what its end costs is what the clock moves by; it sets the exit of
\* the arc when the row it leaves is over its budget.
LEMMA PhaseEndCosts ==
  ASSUME IInv, Budgets, PhaseReturns \/ PhaseThrows, [Next]_vars
  PROVE  /\ \E ticks \in Nat : elapsed' = elapsed + ticks
              /\ reports'[arc][phases_run + 1].minutes = Rounded(ticks)
         /\ reports[arc][phases_run + 1].minutes = 0
         /\ exit = "none"
         /\ \/ pc' = "close" /\ exit' = "pulse-ko"
            \/ pc' = "close" /\ exit' = "budget-exceeded" /\ SomeOver(arc)'
            \/ pc' = "loop" /\ exit' = exit /\ ~SomeOver(arc)'
  <1> DEFINE n == phases_run + 1
  <1>1. TypeOK /\ TypeOK' /\ LocalsMatchRows /\ KeysAreKnown /\ FreeUntilDone /\ ClockIsTrue
    BY NextIInv DEF IInv, Budgets
  <1>2. /\ arc \in Arcs /\ n \in 1..MaxPhases /\ pc \in InPhase /\ arc' = arc
        /\ \A i \in 1..MaxPhases : i # n => reports'[arc][i] = reports[arc][i]
    BY <1>1, PhaseEndFacts
  <1>3. reports[arc][n] \in ReportRow /\ reports[arc][n].status = "in-flight"
    BY <1>1, <1>2, InPhaseFacts
  <1>4. reports[arc][n].minutes = 0
    BY <1>1, <1>2, <1>3 DEF FreeUntilDone
  <1>5. pc \in InArc /\ pc # "close"
    BY <1>2 DEF InArc, InPhase
  <1>6. exit = "none" /\ ~SomeOver(arc)
    BY <1>1, <1>2, <1>5 DEF ClockIsTrue
  <1>7. n \in Ran(arc)
    BY <1>2, <1>3 DEF Ran
  <1>8. PICK a \in Arcs : a = arc /\ a = arc'
    BY <1>2
  <1>9. PICK k : k = n /\ k \in 1..MaxPhases
    BY <1>2
  <1>10. CASE PhaseThrows
    <2>1. pc' = "close" /\ exit' = "pulse-ko"
      BY <1>10 DEF PhaseThrows, Exit
    <2>2. \E ticks \in Nat : elapsed' = elapsed + ticks
            /\ reports'[arc][n].minutes = Rounded(ticks)
      <3>1. PICK ticks \in PhaseTicks :
              /\ reports' = [reports EXCEPT ![arc][n].status = "phase-aborted",
                                            ![arc][n].minutes = Rounded(ticks)]
              /\ elapsed' = elapsed + ticks
        BY <1>10 DEF PhaseThrows
      <3>2. reports'[arc][n] = [reports[arc][n] EXCEPT !.status = "phase-aborted",
                                                       !.minutes = Rounded(ticks)]
        BY <1>1, <1>2, <3>1 DEF TypeOK
      <3>3. reports'[arc][n].minutes = Rounded(ticks)
        BY <1>3, <3>2 DEF ReportRow
      <3> QED
        BY <3>1, <3>3, ConstantsAssumption
    <2> QED
      BY <1>4, <1>6, <2>1, <2>2
  <1>11. CASE PhaseReturns
    <2>1. PICK ticks \in PhaseTicks, cents \in PhaseCents,
               status \in {"phase-blocked-on-founder", "phase-closed", "phase-partial",
                           "phase-aborted"} :
            LET row == [reports[arc][n] EXCEPT
                          !.status = status, !.minutes = Rounded(ticks), !.cents = meter + cents]
            IN /\ reports' = [reports EXCEPT ![arc][n] = row]
               /\ elapsed' = elapsed + ticks
               /\ IF Over(row) THEN Exit("budget-exceeded") ELSE pc' = "loop" /\ UNCHANGED exit
      BY <1>11 DEF PhaseReturns
    <2> DEFINE row == [reports[arc][n] EXCEPT
                         !.status = status, !.minutes = Rounded(ticks), !.cents = meter + cents]
    <2>2. /\ row.minutes = Rounded(ticks) /\ row.key = reports[arc][n].key
          /\ row.status # "none"
      BY <1>3 DEF ReportRow
    <2>3. reports'[a][k] = row /\ \A i \in 1..MaxPhases : i # k => reports'[a][i] = reports[a][i]
      BY <1>1, <1>2, <1>8, <1>9, <2>1 DEF TypeOK
    <2>4. \E t \in Nat : elapsed' = elapsed + t /\ reports'[arc][n].minutes = Rounded(t)
      <3>1. elapsed' = elapsed + ticks /\ ticks \in Nat
        BY <2>1, ConstantsAssumption
      <3>2. reports'[arc][n].minutes = Rounded(ticks)
        BY <1>8, <1>9, <2>2, <2>3
      <3> QED
        BY <3>1, <3>2
    <2>5. Over(row) <=> Over(reports[a][k])'
      <3>1. PICK key \in Known : key = row.key /\ key = reports'[a][k].key
        BY <1>1, <1>2, <1>7, <2>2, <2>3 DEF KeysAreKnown
      <3>2. ModeOfKey(key)' = ModeOfKey(key)
        BY <1>1, KnownMode
      <3>3. row.minutes = reports'[a][k].minutes /\ row.cents = reports'[a][k].cents
        BY <2>3
      <3> HIDE DEF row
      <3> QED
        BY <3>1, <3>2, <3>3 DEF Over, ModeOfKey
    <2>6. \A i \in Ran(a)' : i # k => i \in Ran(a) /\ ~Over(reports[a][i])'
      <3> SUFFICES ASSUME NEW i \in Ran(a)', i # k PROVE i \in Ran(a) /\ ~Over(reports[a][i])'
        OBVIOUS
      <3>1. i \in Ran(a) /\ reports'[a][i] = reports[a][i]
        BY <2>3 DEF Ran
      <3>2. ~Over(reports[a][i])
        BY <1>6, <1>8, <3>1 DEF SomeOver
      <3> QED
        BY <1>1, <3>1, <3>2, OverStays
    <2>7. k \in Ran(a)'
      BY <1>9, <2>2, <2>3 DEF Ran
    <2>8. SomeOver(a)' <=> Over(row)
      BY <2>5, <2>6, <2>7 DEF SomeOver
    <2>9. SomeOver(arc)' <=> Over(row)
      BY <1>8, <2>8 DEF SomeOver, Ran
    <2>10. \/ Over(row) /\ pc' = "close" /\ exit' = "budget-exceeded"
           \/ ~Over(row) /\ pc' = "loop" /\ exit' = exit
      BY <2>1 DEF Exit
    <2> HIDE DEF row
    <2> QED
      BY <1>4, <1>6, <2>4, <2>9, <2>10
  <1> QED
    BY <1>10, <1>11

\* The steps that write a row, one by one.
LEMMA OpenArcClock == ASSUME IInv, Budgets, [Next]_vars, OpenArc PROVE ClockIsTrue'
  <1>1. TypeOK /\ TypeOK' /\ LocalsMatchRows /\ FreeUntilDone /\ FreeUntilDone' /\ ClockIsTrue
    BY NextIInv, NextFreeUntilDone DEF IInv, Budgets
  <1>2. PICK a \in Arcs :
          /\ arcs[a].status = "none" /\ arcs' = [arcs EXCEPT ![a].status = "open"] /\ arc' = a
    BY DEF OpenArc
  <1>3. pc \in Outside /\ pc' = "loop" /\ reports' = reports /\ UNCHANGED <<elapsed, exit>>
    BY DEF OpenArc, Outside, BeforeArc
  <1>4. elapsed' = 0 /\ exit' = "none"
    BY <1>1, <1>3 DEF ClockIsTrue
  <1>5. Ran(a) = {}
    BY <1>1, <1>2 DEF LocalsMatchRows
  <1>6. \A i \in 1..MaxPhases : reports[a][i].minutes = 0
    BY <1>1, <1>5 DEF FreeUntilDone, Ran
  <1>7. Spent(a)' = 0
    <2>1. Spent(a) = 0
      BY <1>1, <1>6, NothingSpent
    <2>2. Spent(a)' = Spent(a)
      BY <1>3 DEF Spent, Minutes
    <2> QED
      BY <2>1, <2>2
  <1>8. ~SomeOver(a)'
    BY <1>3, <1>5 DEF SomeOver, Ran
  <1>9. \A b \in Arcs : arcs'[b].status \in {"none", "open"} => arcs'[b].exit = "none"
    BY <1>1, <1>2 DEF ClockIsTrue, TypeOK, ArcRow
  <1>10. \A b \in Arcs : b = arc' => Backed(b)' /\ ~SomeOver(b)'
    <2>1. elapsed' \in Nat /\ phases_run' \in Nat
      BY <1>1, ConstantsAssumption DEF TypeOK
    <2>4. ASSUME NEW e \in Nat, NEW k \in Nat PROVE 2 * (Minute * 0) <= 2 * e + k * Minute
      BY ConstantsAssumption
    <2>2. 2 * (Minute * 0) <= 2 * elapsed' + phases_run' * Minute
      BY <2>1, <2>4
    <2>3. Backed(a)'
      BY <1>7, <2>2 DEF Backed
    <2> QED
      BY <1>2, <1>8, <2>3
  <1>11. pc' # "close" /\ pc' \notin Outside /\ pc' \notin Spending
    BY <1>3 DEF Outside, BeforeArc, Spending, InPhase
  <1> QED
    BY <1>4, <1>9, <1>10, <1>11 DEF ClockIsTrue

LEMMA PickPhaseClock == ASSUME IInv, Budgets, [Next]_vars, PickPhase PROVE ClockIsTrue'
  <1> DEFINE n == phases_run + 1
  <1>1. TypeOK /\ TypeOK' /\ LocalsMatchRows /\ KeysAreKnown /\ FreeUntilDone /\ ClockIsTrue
        /\ KeysAreKnown' /\ FreeUntilDone'
    BY NextIInv, NextFreeUntilDone, NextKeysAreKnown DEF IInv, Budgets
  <1>2. pc = "pick" /\ pc' = "commit" /\ UNCHANGED <<arcs, arc, elapsed, exit>>
    BY DEF PickPhase
  <1>3. /\ arc \in Arcs /\ n \in 1..MaxPhases /\ reports[arc][n].status = "none"
    BY <1>1, PickPhaseFacts
  <1>4. PICK a \in Arcs : a = arc /\ a = arc'
    BY <1>2, <1>3
  <1>5. PICK k \in 1..MaxPhases : k = n
    BY <1>3
  <1>6. PICK key \in TopOf(answered \cup seed, PickedKeys) \ {NoKey} :
          reports' = [reports EXCEPT ![arc][n] =
                        [status |-> "in-flight", key |-> key, minutes |-> 0, cents |-> 0]]
    BY DEF PickPhase
  <1>7. /\ reports'[a][k] = [status |-> "in-flight", key |-> key, minutes |-> 0, cents |-> 0]
        /\ \A i \in 1..MaxPhases : i # k => reports'[a][i] = reports[a][i]
    BY <1>1, <1>3, <1>4, <1>5, <1>6 DEF TypeOK
  <1>8. reports[a][k].minutes = 0
    BY <1>1, <1>3, <1>4, <1>5 DEF FreeUntilDone
  <1>9. Spent(a) \in Nat
    BY <1>1, SpentFacts
  <1>10. Spent(a)' = Spent(a)
    <2>1. Spent(a)' = Spent(a) + reports'[a][k].minutes
      BY <1>1, <1>7, <1>8, SpentMoves
    <2>2. reports'[a][k].minutes = 0
      BY <1>7
    <2> QED
      BY <1>9, <2>1, <2>2
  <1>11. Backed(a) /\ exit = "none" /\ ~SomeOver(a) /\ elapsed <= MaxMinutes * Minute
    BY <1>1, <1>2, <1>4 DEF ClockIsTrue, InArc, Spending
  <1>12. ~SomeOver(a)'
    <2>1. \A i \in Ran(a)' : i # k => i \in Ran(a)
      BY <1>7 DEF Ran
    <2>2. ASSUME NEW i \in Ran(a)', i # k PROVE ~Over(reports[a][i])'
      <3>1. i \in Ran(a) /\ reports'[a][i] = reports[a][i]
        BY <1>7, <2>1, <2>2 DEF Ran
      <3>2. ~Over(reports[a][i])
        BY <1>11, <3>1 DEF SomeOver
      <3> QED
        BY <1>1, <3>1, <3>2, OverStays
    <2>3. ~Over(reports[a][k])'
      <3>1. key \in Known /\ reports'[a][k].key = key
        BY <1>1, <1>6, <1>7 DEF TopOf, KeysAreKnown, Known
      <3>2. ModeOfKey(key)' \in Modes
        BY <1>1, <3>1, KnownMode
      <3>3. WallMinutes[ModeOfKey(key)'] \in Nat /\ LlmCents[ModeOfKey(key)'] \in Nat
        BY <3>2, ConstantsAssumption
      <3>4. reports'[a][k].minutes = 0 /\ reports'[a][k].cents = 0
        BY <1>7
      <3> QED
        BY <3>1, <3>3, <3>4 DEF Over, ModeOfKey
    <2> QED
      BY <2>2, <2>3 DEF SomeOver
  <1>13. \A b \in Arcs : b = arc' => Backed(b)' /\ ~SomeOver(b)'
    <2>1. phases_run' = phases_run
      BY DEF PickPhase
    <2>2. Backed(a)'
      BY <1>2, <1>10, <1>11, <2>1 DEF Backed
    <2> QED
      BY <1>4, <1>12, <2>2
  <1>14. pc' # "close" /\ pc' \notin Outside
    BY <1>2 DEF Outside, BeforeArc
  <1> QED
    BY <1>1, <1>2, <1>11, <1>13, <1>14 DEF ClockIsTrue

LEMMA PhaseEndClock ==
  ASSUME IInv, Budgets, [Next]_vars, PhaseReturns \/ PhaseThrows PROVE ClockIsTrue'
  <1> DEFINE n == phases_run + 1
  <1>1. TypeOK /\ TypeOK' /\ LocalsMatchRows /\ ClockIsTrue
    BY NextIInv DEF IInv, Budgets
  <1>2. /\ arc \in Arcs /\ n \in 1..MaxPhases /\ arc' = arc /\ arcs' = arcs
        /\ \A i \in 1..MaxPhases : i # n => reports'[arc][i] = reports[arc][i]
        /\ pc \in InPhase /\ phases_run \in Nat /\ phases_run' = phases_run + 1
    BY <1>1, PhaseEndFacts
  <1>3. /\ \E ticks \in Nat : elapsed' = elapsed + ticks
             /\ reports'[arc][n].minutes = Rounded(ticks)
        /\ reports[arc][n].minutes = 0
        /\ exit = "none"
        /\ \/ pc' = "close" /\ exit' = "pulse-ko"
           \/ pc' = "close" /\ exit' = "budget-exceeded" /\ SomeOver(arc)'
           \/ pc' = "loop" /\ exit' = exit /\ ~SomeOver(arc)'
    BY PhaseEndCosts
  <1>4. PICK a \in Arcs : a = arc /\ a = arc'
    BY <1>2
  <1>5. PICK k \in 1..MaxPhases : k = n
    BY <1>2
  <1>6. Backed(a)
    BY <1>1, <1>2, <1>4 DEF ClockIsTrue, InArc
  <1>7. Spent(a)' = Spent(a) + reports'[a][k].minutes
    <2>1. \A i \in 1..MaxPhases : i # k => reports'[a][i] = reports[a][i]
      BY <1>2, <1>4, <1>5
    <2>2. reports[a][k].minutes = 0
      BY <1>3, <1>4, <1>5
    <2> QED
      BY <1>1, <2>1, <2>2, SpentMoves
  <1>8. Backed(a)'
    <2>1. PICK ticks \in Nat : elapsed' = elapsed + ticks
            /\ reports'[arc][n].minutes = Rounded(ticks)
      BY <1>3
    <2>2. Spent(a)' = Spent(a) + Rounded(ticks)
      BY <1>4, <1>5, <1>7, <2>1
    <2>3. Spent(a) \in Nat /\ elapsed \in Nat
      BY <1>1, SpentFacts DEF TypeOK
    <2>4. 2 * (Minute * (Spent(a) + Rounded(ticks)))
            <= 2 * (elapsed + ticks) + (phases_run + 1) * Minute
      BY <1>2, <1>6, <2>3, Rounding, RoundingAdds DEF Backed
    <2> QED
      BY <1>2, <2>1, <2>2, <2>4 DEF Backed
  <1>9. SomeOver(arc)' <=> SomeOver(a)'
    BY <1>4 DEF SomeOver, Ran
  <1>10. pc' = "close" => Closing(a)'
    BY <1>3, <1>9 DEF Closing
  <1>11. pc' # "close" => exit' = "none" /\ ~SomeOver(a)'
    BY <1>3, <1>9
  <1>12. \A b \in Arcs : b = arc' =>
           /\ Backed(b)'
           /\ pc' = "close" => Closing(b)'
           /\ pc' # "close" => exit' = "none" /\ ~SomeOver(b)'
    BY <1>4, <1>8, <1>10, <1>11
  <1>13. pc' \notin Outside /\ pc' \notin Spending
    BY <1>3 DEF Outside, BeforeArc, Spending, InPhase
  <1> QED
    BY <1>1, <1>2, <1>12, <1>13 DEF ClockIsTrue

LEMMA NextClockIsTrue == ASSUME IInv, Budgets, [Next]_vars PROVE ClockIsTrue'
  <1>1. TypeOK /\ TypeOK' /\ LocalsMatchRows /\ KeysAreKnown /\ ClockIsTrue
    BY NextIInv DEF IInv, Budgets
  <1>2. CASE OpenArc
    BY <1>2, OpenArcClock
  <1>3. CASE PickPhase
    BY <1>3, PickPhaseClock
  <1>4. CASE PhaseReturns \/ PhaseThrows
    BY <1>4, PhaseEndClock
  <1>5. CASE CloseArc
    <2>1. /\ pc' = "idle" /\ elapsed' = 0 /\ exit' = "none" /\ exit # "none"
          /\ \E t \in GapTicks : arcs' = [arcs EXCEPT ![arc] =
               [status |-> IF exit = "pulse-ko" THEN "aborted" ELSE "closed",
                exit |-> exit, lasted |-> elapsed + t]]
      <3>1. pc = "close" /\ pc \in InArc
        BY <1>5 DEF CloseArc, InArc
      <3> QED
        BY <1>1, <1>5, <3>1, InArcFacts DEF CloseArc, FreshLocals, ClockIsTrue, Closing
    <2>2. \A b \in Arcs : arcs'[b].status \in {"none", "open"} => arcs'[b].exit = "none"
      BY <1>1, <2>1 DEF ClockIsTrue, TypeOK, ArcRow
    <2> QED
      BY <2>1, <2>2 DEF ClockIsTrue, InArc, Spending, InPhase
  <1>6. CASE ~Writes
    <2>1. Quiet
      BY <1>6, RowWriters DEF Writes
    <2>2. \A a \in Arcs : Spent(a)' = Spent(a) /\ (SomeOver(a)' <=> SomeOver(a))
      BY <1>1, <2>1, RowsSame DEF Quiet
    <2>3. \A a \in Arcs : arcs'[a].status \in {"none", "open"} => arcs'[a].exit = "none"
      BY <1>1, <2>1 DEF Quiet, ClockIsTrue
    <2>4. CASE pc' = "idle" /\ elapsed' = 0 /\ exit' = "none"
      BY <2>3, <2>4 DEF ClockIsTrue, InArc, Spending, InPhase
    <2>5. CASE pc \in Outside /\ pc' \in Outside /\ UNCHANGED <<elapsed, exit>>
      BY <1>1, <2>3, <2>5 DEF ClockIsTrue, InArc, Spending, InPhase, Outside, BeforeArc
    <2>8. \A a \in Arcs : elapsed' >= elapsed /\ phases_run' = phases_run /\ Backed(a) => Backed(a)'
      <3>1. elapsed \in Nat /\ elapsed' \in Nat /\ phases_run \in Nat
        BY <1>1, ConstantsAssumption DEF TypeOK
      <3>2. \A a \in Arcs : Spent(a) \in Nat
        BY <1>1, SpentFacts
      <3> QED
        BY <2>2, <3>1, <3>2, ConstantsAssumption DEF Backed
    <2>6. CASE pc \in InArc /\ pc' \in InArc /\ UNCHANGED <<arc, phases_run, exit>>
               /\ elapsed' >= elapsed
               /\ (pc = "close" <=> pc' = "close")
               /\ (pc' \in Spending =>
                     (pc \in Spending /\ elapsed' = elapsed) \/ ~OutOfBudget(elapsed'))
      <3>1. pc' \notin Outside
        BY <2>6 DEF Outside, BeforeArc, InArc, InPhase
      <3>2. pc' \in Spending => elapsed' <= MaxMinutes * Minute
        BY <1>1, <2>6, ConstantsAssumption DEF ClockIsTrue, OutOfBudget, TypeOK
      <3>3. \A a \in Arcs : pc' = "close" /\ a = arc' => Closing(a)'
        BY <1>1, <2>2, <2>6, ConstantsAssumption DEF ClockIsTrue, Closing, TypeOK
      <3>4. \A a \in Arcs : a = arc' =>
              /\ Backed(a)'
              /\ pc' # "close" => exit' = "none" /\ ~SomeOver(a)'
        BY <1>1, <2>2, <2>8, <2>6 DEF ClockIsTrue
      <3> QED
        BY <2>3, <3>1, <3>2, <3>3, <3>4 DEF ClockIsTrue
    <2>7. CASE /\ pc \in InArc /\ pc' = "close" /\ UNCHANGED <<arc, phases_run>>
               /\ elapsed' >= elapsed
               /\ pc # "close" /\ exit' \in ExitReasons \ {"budget-exceeded"}
               /\ exit' = "budget" => OutOfBudget(elapsed')
      <3>1. pc' \notin Outside /\ pc' \notin Spending
        BY <2>7 DEF Outside, BeforeArc, Spending, InPhase
      <3>2. \A a \in Arcs : a = arc' => Backed(a)' /\ ~SomeOver(a)'
        BY <1>1, <2>2, <2>8, <2>7 DEF ClockIsTrue
      <3>3. exit' # "none" /\ exit' # "budget-exceeded"
        BY <2>7 DEF ExitReasons
      <3>4. exit' = "budget" => phases_run' >= MaxPhases \/ elapsed' > MaxMinutes * Minute
        BY <2>7 DEF OutOfBudget
      <3>5. \A a \in Arcs : a = arc' => Closing(a)'
        BY <3>2, <3>3, <3>4 DEF Closing
      <3> QED
        BY <2>3, <2>7, <3>1, <3>2, <3>5 DEF ClockIsTrue
    <2> QED
      BY <1>1, <1>6, <2>4, <2>5, <2>6, <2>7, Moves
  <1> QED
    BY <1>2, <1>3, <1>4, <1>5, <1>6 DEF Writes

LEMMA NextOvershoots ==
  ASSUME IInv, Budgets, [Next]_vars PROVE OvershootsByOnePhase'
  <1>1. /\ TypeOK /\ TypeOK' /\ LocalsMatchRows /\ KeysAreKnown /\ ClockIsTrue
        /\ OvershootsByOnePhase /\ ReportsInOrder
    BY NextIInv DEF IInv, Budgets
  <1> SUFFICES ASSUME NEW a \in Arcs, NEW i \in Ran(a)'
               PROVE  /\ 2 * SpentBefore(a, i)' <= 2 * MaxMinutes + (i - 1)
                      /\ \A j \in 1..(i - 1) : ~Over(reports[a][j])'
    BY DEF OvershootsByOnePhase
  <1>2. i \in 1..MaxPhases /\ i \in Nat /\ \A j \in 1..(i - 1) : j \in 1..MaxPhases /\ j # i
    BY ConstantsAssumption DEF Ran
  \* The phases before i are as they were, and i had begun.
  <1>3. ASSUME i \in Ran(a), \A j \in 1..(i - 1) : reports'[a][j] = reports[a][j]
        PROVE  /\ 2 * SpentBefore(a, i)' <= 2 * MaxMinutes + (i - 1)
               /\ \A j \in 1..(i - 1) : ~Over(reports[a][j])'
    <2>1. SpentBefore(a, i)' = SpentBefore(a, i)
      BY <1>1, <1>2, <1>3, SpentBeforeSame
    <2>2. 2 * SpentBefore(a, i) <= 2 * MaxMinutes + (i - 1)
      BY <1>1, <1>3 DEF OvershootsByOnePhase
    <2>3. \A j \in 1..(i - 1) : j \in Ran(a) /\ ~Over(reports[a][j])
      BY <1>1, <1>2, <1>3 DEF OvershootsByOnePhase, ReportsInOrder, Ran, Finished
    <2>4. \A j \in 1..(i - 1) : ~Over(reports[a][j])'
      BY <1>1, <1>3, <2>3, OverStays
    <2> QED
      BY <2>1, <2>2, <2>4
  <1>4. CASE reports'[a] = reports[a]
    BY <1>3, <1>4 DEF Ran
  <1>5. CASE PickPhase
    <2> DEFINE n == phases_run + 1
    <2>1. arc \in Arcs /\ n \in 1..MaxPhases /\ reports[arc][n].status = "none"
          /\ phases_run \in Nat
      BY <1>1, <1>5, PickPhaseFacts
    <2>2. PICK key : reports' = [reports EXCEPT ![arc][n] =
                        [status |-> "in-flight", key |-> key, minutes |-> 0, cents |-> 0]]
      BY <1>5 DEF PickPhase
    <2>3. \A j \in 1..MaxPhases : j # n => reports'[arc][j] = reports[arc][j]
      BY <1>1, <2>1, <2>2 DEF TypeOK
    <2>4. CASE a # arc
      BY <1>1, <1>4, <2>1, <2>2, <2>4 DEF TypeOK
    <2>5. CASE a = arc
      <3>1. pc \in InArc /\ pc \in Spending /\ pc # "close" /\ pc \notin InPhase
        BY <1>5 DEF PickPhase, InArc, Spending, InPhase
      <3>2. i <= n
        <4>1. \A j \in 1..MaxPhases : j > n => reports[arc][j].status = "none"
          BY <1>1, <3>1 DEF LocalsMatchRows
        <4> QED
          BY <1>2, <2>1, <2>3, <2>5, <4>1 DEF Ran
      <3>3. \A j \in 1..(i - 1) : j \in 1..MaxPhases /\ j # n /\ j <= phases_run
        BY <1>2, <2>1, <3>2
      <3>4. CASE i # n
        BY <1>2, <1>3, <2>3, <2>5, <3>3, <3>4 DEF Ran
      <3>5. CASE i = n
        <4>1. SpentBefore(a, i)' = SpentBefore(a, i)
          BY <1>1, <1>2, <2>3, <2>5, <3>3, SpentBeforeSame
        <4>2. SpentBefore(a, i) <= Spent(a) /\ SpentBefore(a, i) \in Nat /\ Spent(a) \in Nat
          BY <1>1, <1>2, SpentFacts
        <4>3. Backed(a) /\ elapsed <= MaxMinutes * Minute /\ ~SomeOver(a) /\ elapsed \in Nat
          BY <1>1, <2>5, <3>1 DEF ClockIsTrue, TypeOK
        <4>7. 2 * Spent(a) <= 2 * MaxMinutes + phases_run
          BY <2>1, <4>2, <4>3, WithinBudget DEF Backed
        <4>4. 2 * SpentBefore(a, i)' <= 2 * MaxMinutes + (i - 1)
          BY <2>1, <3>5, <4>1, <4>2, <4>7, ConstantsAssumption
        <4>5. \A j \in 1..(i - 1) : j \in Ran(a) /\ ~Over(reports[a][j])
          BY <1>1, <2>5, <3>1, <3>3, <4>3 DEF LocalsMatchRows, SomeOver, Ran, Finished
        <4>6. \A j \in 1..(i - 1) : ~Over(reports[a][j])'
          BY <1>1, <2>3, <2>5, <3>3, <4>5, OverStays
        <4> QED
          BY <4>4, <4>6
      <3> QED
        BY <3>4, <3>5
    <2> QED
      BY <2>4, <2>5
  <1>6. CASE PhaseReturns \/ PhaseThrows
    <2> DEFINE n == phases_run + 1
    <2>1. /\ arc \in Arcs /\ phases_run \in Nat /\ n \in 1..MaxPhases /\ pc \in InPhase
          /\ \A j \in 1..MaxPhases : j # n => reports'[arc][j] = reports[arc][j]
          /\ \A b \in Arcs : b # arc => reports'[b] = reports[b]
      BY <1>1, <1>6, PhaseEndFacts
    <2>2. CASE a # arc
      BY <1>4, <2>1, <2>2
    <2>3. CASE a = arc
      <3>1. pc \in InArc
        BY <2>1 DEF InArc
      <3>2. i <= n
        <4>1. \A j \in 1..MaxPhases : j > n => reports[arc][j].status = "none"
          BY <1>1, <3>1 DEF LocalsMatchRows
        <4> QED
          BY <1>2, <2>1, <2>3, <4>1 DEF Ran
      <3>3. \A j \in 1..(i - 1) : j \in 1..MaxPhases /\ j # n
        BY <1>2, <2>1, <3>2
      <3>4. i \in Ran(a)
        <4>1. n \in Ran(a)
          BY <1>1, <2>1, <2>3, InPhaseFacts DEF Ran
        <4> QED
          BY <1>2, <2>1, <2>3, <4>1 DEF Ran
      <3> QED
        BY <1>3, <2>1, <2>3, <3>3, <3>4
    <2> QED
      BY <2>2, <2>3
  <1> QED
    BY <1>4, <1>5, <1>6, RowWriters DEF Quiet, OpenArc, CloseArc

LEMMA NextExitIsExplained ==
  ASSUME IInv, Budgets, [Next]_vars PROVE ExitIsExplained'
  <1>1. /\ TypeOK /\ TypeOK' /\ LocalsMatchRows /\ KeysAreKnown /\ ClockIsTrue
        /\ ExitIsExplained
    BY NextIInv DEF IInv, Budgets
  <1> DEFINE Explains(a) ==
        /\ arcs[a].exit = "budget" => Cardinality(Ran(a)) = MaxPhases \/ arcs[a].lasted > MaxMinutes * Minute
        /\ arcs[a].exit = "budget-exceeded" <=>
             arcs[a].exit # "none" /\ arcs[a].exit # "pulse-ko" /\ SomeOver(a)
  <1>2. (\A a \in Arcs : Explains(a)) => ExitIsExplained
    BY DEF ExitIsExplained, SomeOver
  <1>3. \A a \in Arcs : Explains(a)
    BY <1>1 DEF ExitIsExplained, SomeOver
  <1>4. ASSUME NEW a \in Arcs, arcs'[a].exit = arcs[a].exit, arcs'[a].lasted = arcs[a].lasted,
               reports'[a] = reports[a]
        PROVE  Explains(a)'
    BY <1>1, <1>3, <1>4, RowsSame
  <1>5. ASSUME NEW a \in Arcs, arcs'[a].exit = "none" PROVE Explains(a)'
    BY <1>5
  <1>6. ASSUME NEW a \in Arcs PROVE Explains(a)'
    <2>1. CASE Quiet
      BY <1>4, <2>1 DEF Quiet
    <2>2. CASE OpenArc
      <3>1. arcs'[a].exit = arcs[a].exit /\ arcs'[a].lasted = arcs[a].lasted /\ reports' = reports
        BY <1>1, <2>2 DEF OpenArc, TypeOK, ArcRow
      <3> QED
        BY <1>4, <3>1
    <2>3. CASE PickPhase \/ PhaseReturns \/ PhaseThrows
      <3>1. pc \in InArc /\ arcs' = arcs
        BY <2>3 DEF PickPhase, PhaseReturns, PhaseThrows, InArc, InPhase
      <3>2. CASE a = arc
        <4>1. arcs[a].exit = "none"
          BY <1>1, <3>1, <3>2, InArcFacts DEF ClockIsTrue
        <4> QED
          BY <1>5, <3>1, <4>1
      <3>3. CASE a # arc
        <4>1. reports'[a] = reports[a]
          <5>1. CASE PickPhase
            BY <1>1, <3>3, <5>1 DEF PickPhase, TypeOK
          <5> QED
            BY <1>1, <2>3, <3>3, <5>1, PhaseEndFacts
        <4> QED
          BY <1>4, <3>1, <4>1
      <3> QED
        BY <3>2, <3>3
    <2>4. CASE CloseArc
      <3>1. /\ pc = "close" /\ pc \in InArc /\ pc \notin InPhase /\ reports' = reports
        BY <2>4 DEF CloseArc, InArc, InPhase
      <3>4. PICK t \in GapTicks : arcs' = [arcs EXCEPT ![arc] =
              [status |-> IF exit = "pulse-ko" THEN "aborted" ELSE "closed",
               exit |-> exit, lasted |-> elapsed + t]]
        BY <2>4 DEF CloseArc
      <3>2. CASE a # arc
        BY <1>1, <1>4, <3>1, <3>2, <3>4 DEF TypeOK
      <3>3. CASE a = arc
        <4>1. Closing(a)
          BY <1>1, <3>1, <3>3 DEF ClockIsTrue
        <4>2. phases_run >= MaxPhases => Cardinality(Ran(a)) = MaxPhases
          <5> SUFFICES ASSUME phases_run >= MaxPhases PROVE Cardinality(Ran(a)) = MaxPhases
            OBVIOUS
          <5>1. \A i \in 1..MaxPhases : i <= phases_run
            BY <1>1, ConstantsAssumption DEF TypeOK
          <5>2. Ran(a) = 1..MaxPhases
            BY <1>1, <3>1, <3>3, <5>1 DEF LocalsMatchRows, Ran, Finished
          <5>3. Cardinality(1..MaxPhases) = MaxPhases
            BY ConstantsAssumption, FS_Interval
          <5> QED
            BY <5>2, <5>3
        <4>3. arcs'[a].exit = exit /\ arcs'[a].lasted = elapsed + t
          BY <1>1, <3>3, <3>4 DEF TypeOK
        <4>4. Ran(a)' = Ran(a) /\ Spent(a)' = Spent(a) /\ (SomeOver(a)' <=> SomeOver(a))
          BY <1>1, <3>1, RowsSame
        <4>7. elapsed + t >= elapsed /\ elapsed \in Nat
          BY <1>1, ConstantsAssumption DEF TypeOK
        <4>5. exit = "budget" =>
                Cardinality(Ran(a))' = MaxPhases \/ arcs'[a].lasted > MaxMinutes * Minute
          BY <4>1, <4>2, <4>3, <4>4, <4>7, ConstantsAssumption DEF Closing
        <4>6. exit = "budget-exceeded" <=>
                exit # "none" /\ exit # "pulse-ko" /\ SomeOver(a)'
          BY <4>1, <4>4 DEF Closing
        <4> QED
          BY <4>3, <4>5, <4>6
      <3> QED
        BY <3>2, <3>3
    <2> QED
      BY <2>1, <2>2, <2>3, <2>4, RowWriters
  <1>7. (\A a \in Arcs : Explains(a)') => ExitIsExplained'
    BY DEF ExitIsExplained, SomeOver
  <1> QED
    BY <1>6, <1>7

LEMMA NextBudgets == ASSUME IInv, Budgets, [Next]_vars PROVE Budgets'
  <1>1. IInv /\ KeysAreKnown /\ FreeUntilDone
    BY DEF Budgets
  <1> QED
    BY <1>1, NextKeysAreKnown, NextFreeUntilDone, NextClockIsTrue, NextOvershoots,
       NextExitIsExplained
    DEF Budgets

\* Whatever its phases take, an arc overshoots its budgets by one phase at most: when a phase
\* begins the minutes reported before it are within budget_max_minutes (director.ts, 1b) but for
\* half a minute of rounding a report, and none was over the budget of its mode (8b).
THEOREM Overshoots == Spec => []OvershootsByOnePhase
  <1>1. Init => IInv /\ Budgets
    BY InitIInv, InitBudgets
  <1>2. IInv /\ Budgets /\ [Next]_vars => IInv' /\ Budgets'
    BY NextIInv, NextBudgets
  <1>3. Budgets => OvershootsByOnePhase
    BY DEF Budgets
  <1> QED
    BY <1>1, <1>2, <1>3, PTL DEF Spec

\* The exit reason on the row of an arc is never at odds with its times and the reports it left:
\* 'budget' means all phases ran or the row was open for more than budget_max_minutes,
\* 'budget-exceeded' that a phase was over.
THEOREM Explained == Spec => []ExitIsExplained
  <1>1. Init => IInv /\ Budgets
    BY InitIInv, InitBudgets
  <1>2. IInv /\ Budgets /\ [Next]_vars => IInv' /\ Budgets'
    BY NextIInv, NextBudgets
  <1>3. Budgets => ExitIsExplained
    BY DEF Budgets
  <1> QED
    BY <1>1, <1>2, <1>3, PTL DEF Spec
=============================================================================

---------------------------- MODULE Phase_proofs ----------------------------
(***************************************************************************)
(* For every number of trios and every cap on minutes: what goes on after a *)
(* trio, what the rows tell, how long a phase lasts, and that it implements *)
(* the contract the Director relies on.                                    *)
(***************************************************************************)
EXTENDS Phase, TLAPS

InTrio == Kinds \cup {"call", "record", "judge"}
Ordinal(k) == IF k = "plan" THEN 0 ELSE IF k = "impl" THEN 1 ELSE 2

\* A trio in progress has an index of its own, and its rounds are numbered in order; a
\* return waits to be recorded and judged.
Places ==
  /\ pc \in InTrio => Len(trios) < MaxTrios
  /\ pc = "ended" => trios # <<>>
  /\ pc \in Kinds => roundIdx <= Ordinal(pc)
  /\ pc \in {"call", "record"} => roundIdx <= Ordinal(kind)
  /\ pc = "judge" => roundIdx <= Ordinal(kind) + 1
  /\ pc \in {"record", "judge"} => ret \in Returns(kind)

\* A phase goes on only after a trio that regressed, and the last trio decides how it ends.
Regressions ==
  /\ \A t \in 1..Len(trios) : t < Len(trios) \/ pc \in InTrio \cup {"boundary", "threw"} => trios[t] = "regressed"
  /\ pc = "phase-closed" => trios # <<>> /\ trios[Len(trios)] = "successful"
  /\ pc \in Statuses \ {"phase-closed"} => trios = <<>> \/ trios[Len(trios)] # "successful"

\* The founder was asked exactly if the last trio waits for the answer, and then the phase does.
Asked ==
  /\ asked > 0 <=> trios # <<>> /\ trios[Len(trios)] = "awaiting-founder"
  /\ pc = "phase-blocked-on-founder" => asked > 0
  /\ pc \in Ended \ {"phase-blocked-on-founder"} => asked = 0

\* The last trio that was begun.
Latest == IF pc \in InTrio \cup {"threw"} THEN Trio ELSE Len(trios)

\* Rows of trios to come are missing; that of a trio in progress is in flight once written.
RowsFollow ==
  /\ \A t \in 1..MaxTrios : t > Latest => rows[t] = "none" /\ rounds[t] = {}
  /\ pc \in InTrio \cup {"ended"} =>
       /\ rows[Latest] = IF written THEN "in-flight" ELSE "none"
       /\ ~written => rounds[Latest] = {}

\* Without a fault, a trio is over with its row settled, or it never got as far as a row.
RowsSettle ==
  /\ \A t \in 1..Len(trios) : rows[t] \in {"none", "in-flight", trios[t]}
  /\ \A t \in 1..MaxTrios : rounds[t] # {} => rows[t] # "none"
  /\ faults = 0 =>
       /\ pc # "threw"
       /\ pc = "judge" => written
       /\ pc = "ended" /\ ~written => trios[Len(trios)] \in {"blocked", "regressed"}
       /\ \A t \in 1..Len(trios) : t < Len(trios) \/ pc # "ended" =>
            rows[t] # "in-flight" /\ (rows[t] = "none" => trios[t] \in {"blocked", "regressed"})

\* A trio starts within the cap of the phase, and a call within the cap of the trio.
Timely(d) ==
  /\ clock <= PhaseMinutes + TrioMinutes + 2 * d
  /\ pc \in InTrio => clock <= PhaseMinutes + trioClock /\ trioClock <= TrioMinutes + 2 * d
  /\ pc = "call" => trioClock <= IF retry THEN TrioMinutes + d ELSE TrioMinutes

Longest(d) == d \in CallMinutes /\ \A e \in CallMinutes : e <= d

Inv ==
  /\ TypeOK /\ Places /\ Regressions /\ Asked /\ RowsFollow /\ RowsSettle
  /\ \A d \in CallMinutes : Longest(d) => Timely(d)

-----------------------------------------------------------------------------
\* A list of outcomes and one more.
LEMMA Appended ==
  ASSUME NEW s \in Seq(Outcomes), NEW o \in Outcomes
  PROVE  /\ Append(s, o) \in Seq(Outcomes) /\ Append(s, o) # <<>>
         /\ Len(Append(s, o)) = Len(s) + 1 /\ Append(s, o)[Len(s) + 1] = o
         /\ \A t \in 1..Len(s) : Append(s, o)[t] = s[t]
OBVIOUS

LEMMA InitInv == ASSUME Init PROVE Inv
<1> USE PhaseAssumption DEF PhaseAssumption
<1>1. TypeOK
  <2>1. retry \in BOOLEAN /\ written \in BOOLEAN /\ aborted \in BOOLEAN /\ ret \in AnyReturn \cup {NoReturn}
    BY ZenonT(20) DEF Init
  <2>2. /\ pc \in {"boundary", "plan", "impl", "qa", "call", "record", "judge", "ended"} \cup Ended
        /\ kind \in Kinds /\ trios \in Seq(Outcomes) /\ Len(trios) <= MaxTrios /\ roundIdx \in 0..3
        /\ rows \in [1..MaxTrios -> {"none", "in-flight"} \cup Outcomes]
        /\ rounds \in [1..MaxTrios -> SUBSET ((1..3) \X Kinds)]
        /\ clock \in Nat /\ trioClock \in Nat /\ asked \in Nat /\ faults \in Nat
    BY DEF Init, Kinds
  <2> QED BY <2>1, <2>2 DEF TypeOK
<1>2. Places /\ Regressions /\ Asked
  BY DEF Init, Places, Regressions, Asked, InTrio, Kinds, Ended, Statuses, Ordinal
<1>3. RowsFollow /\ RowsSettle
  BY DEF Init, RowsFollow, RowsSettle, Latest, InTrio, Kinds
<1>4. ASSUME NEW d \in CallMinutes PROVE Timely(d)
  BY DEF Init, Timely, InTrio, Kinds
<1> QED BY <1>1, <1>2, <1>3, <1>4 DEF Inv

-----------------------------------------------------------------------------
(* The end of a trio, from wherever it is *)

\* A trio that finishes adds its outcome, and leaves what was told of the others.
LEMMA FinishKeeps ==
  ASSUME Inv, NEW o \in Outcomes, pc \in InTrio, Finish(o), UNCHANGED record
  PROVE  /\ trios' \in Seq(Outcomes) /\ Len(trios') = Len(trios) + 1 /\ Len(trios') <= MaxTrios
         /\ trios'[Len(trios')] = o /\ trios' # <<>> /\ Latest' = Latest
         /\ Regressions' /\ RowsFollow'
<1>1. trios \in Seq(Outcomes) /\ Len(trios) \in Nat /\ Len(trios) < MaxTrios /\ MaxTrios \in Nat
  BY PhaseAssumption DEF Inv, TypeOK, Places, PhaseAssumption
<1>2. /\ trios' \in Seq(Outcomes) /\ Len(trios') = Len(trios) + 1 /\ Len(trios') <= MaxTrios
      /\ trios'[Len(trios')] = o /\ trios' # <<>>
      /\ \A t \in 1..Len(trios) : trios'[t] = trios[t]
  BY <1>1, Appended DEF Finish
<1>3. Latest' = Latest /\ pc' = "ended"
  BY <1>1, <1>2 DEF Latest, Trio, InTrio, Kinds, Finish
<1>4. Regressions'
  BY <1>1, <1>2, <1>3 DEF Inv, Regressions, InTrio, Kinds, Statuses
<1>5. RowsFollow'
  BY <1>3 DEF Inv, RowsFollow, InTrio, record
<1> QED BY <1>2, <1>3, <1>4, <1>5

LEMMA FinishAsks ==
  ASSUME Inv, NEW o \in Outcomes, pc \in InTrio, Finish(o), UNCHANGED record,
         asked' = IF o = "awaiting-founder" THEN asked + 1 ELSE asked
  PROVE  Asked'
<1>1. trios = <<>> \/ trios[Len(trios)] = "regressed"
  <2>1. trios \in Seq(Outcomes)
    BY DEF Inv, TypeOK
  <2>2. trios # <<>> => Len(trios) \in 1..Len(trios)
    BY <2>1
  <2> QED BY <2>2 DEF Inv, Regressions
<1>2. asked = 0
  BY <1>1 DEF Inv, Asked, TypeOK
<1>3. pc' = "ended" /\ trios' # <<>> /\ trios'[Len(trios')] = o
  BY FinishKeeps DEF Finish
<1> QED BY <1>2, <1>3 DEF Asked, Ended, Statuses

\* Without a fault, only a trio that was blocked or regressed leaves no row.
LEMMA FinishSettles ==
  ASSUME Inv, NEW o \in Outcomes, pc \in InTrio, Finish(o), UNCHANGED <<record, faults>>,
         faults = 0 /\ ~written => o \in {"blocked", "regressed"}
  PROVE  RowsSettle'
<1>1. /\ trios \in Seq(Outcomes) /\ Len(trios) \in Nat /\ Latest = Len(trios) + 1
      /\ Len(trios) < MaxTrios
  BY DEF Inv, TypeOK, Latest, Trio, Places
<1>2. /\ Len(trios') = Len(trios) + 1 /\ trios'[Len(trios')] = o /\ pc' = "ended"
      /\ \A t \in 1..Len(trios) : trios'[t] = trios[t]
  BY <1>1, Appended, FinishKeeps DEF Finish
<1>3. rows[Latest] \in {"none", "in-flight"}
  BY DEF Inv, RowsFollow
<1>4. pc # "ended"
  BY DEF InTrio, Kinds
<1> QED BY <1>1, <1>2, <1>3, <1>4 DEF Inv, RowsSettle, record

-----------------------------------------------------------------------------
(* One lemma per action *)

LEMMA StartTrioKeeps == ASSUME Inv, StartTrio PROVE Inv'
<1> USE PhaseAssumption DEF PhaseAssumption
<1>1. CASE pc' = "phase-aborted" /\ UNCHANGED <<kind, trioClock, written, roundIdx>>
  <2>1. TypeOK'
    BY <1>1 DEF Inv, StartTrio, TypeOK, Ended, Statuses
  <2>2. /\ pc = "boundary" /\ UNCHANGED <<trios, rows, rounds, asked, clock, faults>>
        /\ trios \in Seq(Outcomes)
    BY DEF StartTrio, Inv, TypeOK
  <2>3. trios = <<>> \/ (Len(trios) \in 1..Len(trios) /\ trios[Len(trios)] = "regressed")
    BY <2>2 DEF Inv, Regressions
  <2>4. Places' /\ Regressions'
    BY <1>1, <2>2, <2>3 DEF Inv, Places, Regressions, InTrio, Kinds, Statuses
  <2>5. Asked'
    BY <1>1, <2>2, <2>3 DEF Inv, TypeOK, Asked, Ended, Statuses
  <2>6. Latest' = Latest
    BY <1>1, <2>2 DEF Latest, Trio, InTrio, Kinds
  <2>7. RowsFollow' /\ RowsSettle'
    BY <1>1, <2>2, <2>6 DEF Inv, RowsFollow, RowsSettle, InTrio, Kinds
  <2>8. ASSUME NEW d \in CallMinutes, Longest(d) PROVE Timely(d)'
    BY <1>1, <2>2, <2>8 DEF Inv, Timely, InTrio, Kinds
  <2> QED BY <2>1, <2>4, <2>5, <2>7, <2>8 DEF Inv, Longest
<1>2. CASE /\ ~(Len(trios) = MaxTrios \/ aborted \/ OutOfTime)
           /\ pc' = "plan" /\ kind' = "plan" /\ FreshTrio
  <2>1. /\ pc = "boundary" /\ UNCHANGED <<retry, ret, trios, rows, rounds, clock, aborted, asked, faults>>
        /\ trioClock' = 0 /\ written' = FALSE /\ roundIdx' = 0
        /\ trios \in Seq(Outcomes) /\ Len(trios) \in Nat /\ Len(trios) < MaxTrios /\ clock <= PhaseMinutes
    BY <1>2 DEF StartTrio, FreshTrio, Inv, TypeOK, OutOfTime
  <2>2. TypeOK'
    <3>1. retry' \in BOOLEAN /\ written' \in BOOLEAN /\ aborted' \in BOOLEAN
      BY <2>1, Zenon DEF Inv, TypeOK
    <3> QED BY <1>2, <2>1, <3>1 DEF Inv, TypeOK, Kinds
  <2>3. Places' /\ Regressions'
    BY <1>2, <2>1 DEF Inv, Places, Regressions, InTrio, Kinds, Statuses, Ordinal
  <2>4. Asked'
    BY <1>2, <2>1 DEF Inv, Asked, Ended, Statuses
  <2>5. Latest = Len(trios) /\ Latest' = Len(trios) + 1
    BY <1>2, <2>1 DEF Latest, Trio, InTrio, Kinds
  <2>6. RowsFollow'
    BY <1>2, <2>1, <2>5 DEF Inv, RowsFollow, InTrio, Kinds
  <2>7. RowsSettle'
    BY <1>2, <2>1 DEF Inv, RowsSettle, InTrio, Kinds
  <2>8. ASSUME NEW d \in CallMinutes, Longest(d) PROVE Timely(d)'
    BY <1>2, <2>1, <2>8 DEF Inv, TypeOK, Timely, InTrio, Kinds
  <2> QED BY <2>2, <2>3, <2>4, <2>6, <2>7, <2>8 DEF Inv, Longest
<1> QED BY <1>1, <1>2 DEF StartTrio

LEMMA EndTrioKeeps == ASSUME Inv, EndTrio PROVE Inv'
<1> USE PhaseAssumption DEF PhaseAssumption
<1> DEFINE last == trios[Len(trios)]
<1>1. /\ pc = "ended" /\ UNCHANGED <<kind, retry, ret, trios, written, roundIdx, rounds, clock, trioClock, aborted, asked>>
      /\ trios \in Seq(Outcomes) /\ Len(trios) \in 1..MaxTrios /\ Len(trios) \in 1..Len(trios)
      /\ last \in Outcomes
  BY DEF EndTrio, time, Inv, TypeOK, Places
<1>2. /\ pc' \in {"boundary", "phase-closed", "phase-partial", "phase-blocked-on-founder", "phase-aborted"}
      /\ pc' = "boundary" => last = "regressed"
      /\ pc' = "phase-closed" <=> last = "successful"
      /\ pc' = "phase-blocked-on-founder" <=> last = "awaiting-founder"
  BY <1>1 DEF EndTrio, StatusFor, Outcomes
<1>3. /\ faults' \in Nat /\ (faults' = 0 => faults = 0)
      /\ rows' = [rows EXCEPT ![Len(trios)] = last] \/ rows' = rows
      /\ faults' = 0 /\ written => rows' = [rows EXCEPT ![Len(trios)] = last]
      /\ ~written => rows' = rows
  BY <1>1 DEF EndTrio, Fault, NoFault, Inv, TypeOK
<1>4. TypeOK'
  BY <1>1, <1>2, <1>3 DEF Inv, TypeOK, Ended, Statuses
<1>5. Places' /\ Regressions'
  BY <1>1, <1>2 DEF Inv, Places, Regressions, InTrio, Kinds, Statuses
<1>6. Asked'
  BY <1>1, <1>2 DEF Inv, TypeOK, Asked, Ended, Statuses
<1>7. Latest = Len(trios) /\ Latest' = Len(trios)
  BY <1>1, <1>2 DEF Latest, InTrio, Kinds
<1>8. RowsFollow'
  BY <1>1, <1>2, <1>3, <1>7 DEF Inv, TypeOK, RowsFollow, InTrio, Kinds
<1>9. RowsSettle'
  <2>1. /\ rows[Len(trios)] = IF written THEN "in-flight" ELSE "none"
        /\ ~written => rounds[Len(trios)] = {}
    BY <1>1, <1>7 DEF Inv, RowsFollow
  <2> QED BY <1>1, <1>2, <1>3, <2>1 DEF Inv, TypeOK, RowsSettle, Outcomes
<1>10. ASSUME NEW d \in CallMinutes, Longest(d) PROVE Timely(d)'
  BY <1>1, <1>2, <1>10 DEF Inv, Timely, InTrio, Kinds
<1> QED BY <1>4, <1>5, <1>6, <1>8, <1>9, <1>10 DEF Inv, Longest

LEMMA BoundaryKeeps == ASSUME Inv, Boundary PROVE Inv'
<1> USE PhaseAssumption DEF PhaseAssumption
<1>1. /\ pc \in Kinds /\ pc \in InTrio
      /\ UNCHANGED <<ret, record, clock, trioClock, aborted, asked, faults>>
  BY DEF Boundary, time, InTrio
<1>2. CASE TrioMustStop /\ Finish("blocked") /\ UNCHANGED <<kind, retry>>
  <2>1. "blocked" \in Outcomes
    BY DEF Outcomes
  <2>2. /\ Regressions' /\ RowsFollow' /\ Asked' /\ RowsSettle'
        /\ trios' \in Seq(Outcomes) /\ Len(trios') <= MaxTrios /\ trios' # <<>> /\ pc' = "ended"
    BY <1>1, <1>2, <2>1, FinishKeeps, FinishAsks, FinishSettles DEF Finish
  <2>3. TypeOK' /\ Places'
    BY <1>1, <1>2, <2>2 DEF Inv, TypeOK, Places, InTrio, Kinds, record
  <2>4. ASSUME NEW d \in CallMinutes, Longest(d) PROVE Timely(d)'
    BY <1>1, <2>2, <2>4 DEF Inv, Timely, InTrio, Kinds
  <2> QED BY <2>2, <2>3, <2>4 DEF Inv, Longest
<1>3. CASE ~TrioMustStop /\ pc' = "call" /\ kind' = pc /\ retry' = FALSE /\ UNCHANGED trios
  <2>1. TypeOK' /\ Places'
    BY <1>1, <1>3 DEF Inv, TypeOK, Places, InTrio, Kinds, record
  <2>2. Latest' = Latest
    BY <1>1, <1>3 DEF Latest, Trio, InTrio
  <2>3. Regressions' /\ Asked'
    BY <1>1, <1>3 DEF Inv, Regressions, Asked, InTrio, Kinds, Statuses, Ended
  <2>4. RowsFollow' /\ RowsSettle'
    BY <1>1, <1>3, <2>2 DEF Inv, RowsFollow, RowsSettle, record, InTrio, Kinds
  <2>5. ASSUME NEW d \in CallMinutes, Longest(d) PROVE Timely(d)'
    BY <1>1, <1>3, <2>5 DEF Inv, TypeOK, Timely, InTrio, Kinds, TrioMustStop
  <2> QED BY <2>1, <2>3, <2>4, <2>5 DEF Inv, Longest
<1> QED BY <1>2, <1>3 DEF Boundary

LEMMA CallKeeps == ASSUME Inv, Call PROVE Inv'
<1> USE PhaseAssumption DEF PhaseAssumption
<1>1. /\ pc = "call" /\ pc \in InTrio /\ UNCHANGED <<kind, record, aborted, asked>>
      /\ clock' \in Nat /\ trioClock' \in Nat
  BY DEF Call, InTrio, Inv, TypeOK
<1>2. ASSUME NEW d \in CallMinutes, Longest(d)
      PROVE  /\ clock' <= PhaseMinutes + TrioMinutes + 2 * d
             /\ clock' <= PhaseMinutes + trioClock' /\ trioClock' <= TrioMinutes + 2 * d
             /\ ~retry => trioClock' <= TrioMinutes + d
  <2>1. PICK e \in CallMinutes : clock' = clock + e /\ trioClock' = trioClock + e
    BY DEF Call
  <2>2. d \in Nat /\ e \in Nat /\ e <= d /\ clock \in Nat /\ trioClock \in Nat
    BY <1>2 DEF Longest, Inv, TypeOK
  <2>3. clock <= PhaseMinutes + trioClock /\ trioClock <= IF retry THEN TrioMinutes + d ELSE TrioMinutes
    BY <1>1, <1>2 DEF Inv, Timely
  <2> QED BY <2>1, <2>2, <2>3
<1>3. CASE ret' \in Returns(kind) /\ pc' = "record" /\ UNCHANGED <<retry, trios, faults>>
  <2>1. ret' \in AnyReturn
    BY <1>3 DEF AnyReturn, Inv, TypeOK
  <2>2. TypeOK' /\ Places'
    BY <1>1, <1>3, <2>1 DEF Inv, TypeOK, Places, InTrio, Kinds, record
  <2>3. Latest' = Latest
    BY <1>1, <1>3 DEF Latest, Trio, InTrio
  <2>4. Regressions' /\ Asked' /\ RowsFollow' /\ RowsSettle'
    BY <1>1, <1>3, <2>3 DEF Inv, Regressions, Asked, RowsFollow, RowsSettle, record, InTrio, Kinds, Statuses, Ended
  <2>5. ASSUME NEW d \in CallMinutes, Longest(d) PROVE Timely(d)'
    BY <1>1, <1>2, <1>3, <2>5 DEF Timely, InTrio, Kinds
  <2> QED BY <2>2, <2>4, <2>5 DEF Inv, Longest
<1>4. CASE ~retry /\ retry' = TRUE /\ UNCHANGED <<pc, ret, trios, faults>>
  <2>1. TypeOK' /\ Places'
    BY <1>1, <1>4 DEF Inv, TypeOK, Places, InTrio, Kinds, record
  <2>2. Latest' = Latest
    BY <1>1, <1>4 DEF Latest, Trio
  <2>3. Regressions' /\ Asked' /\ RowsFollow' /\ RowsSettle'
    BY <1>1, <1>4, <2>2 DEF Inv, Regressions, Asked, RowsFollow, RowsSettle, record
  <2>4. ASSUME NEW d \in CallMinutes, Longest(d) PROVE Timely(d)'
    BY <1>1, <1>2, <1>4, <2>4 DEF Timely, InTrio, Kinds
  <2> QED BY <2>1, <2>3, <2>4 DEF Inv, Longest
<1>5. CASE retry /\ Finish("regressed") /\ UNCHANGED <<retry, ret, faults>>
  <2>1. "regressed" \in Outcomes
    BY DEF Outcomes
  <2>2. /\ Regressions' /\ RowsFollow' /\ Asked' /\ RowsSettle'
        /\ trios' \in Seq(Outcomes) /\ Len(trios') <= MaxTrios /\ trios' # <<>> /\ pc' = "ended"
    BY <1>1, <1>5, <2>1, FinishKeeps, FinishAsks, FinishSettles DEF Finish
  <2>3. TypeOK' /\ Places'
    BY <1>1, <1>5, <2>2 DEF Inv, TypeOK, Places, InTrio, Kinds, record
  <2>4. ASSUME NEW d \in CallMinutes, Longest(d) PROVE Timely(d)'
    BY <1>1, <1>2, <1>5, <2>2, <2>4 DEF Timely, InTrio, Kinds
  <2> QED BY <2>2, <2>3, <2>4 DEF Inv, Longest
<1>6. CASE Fault /\ pc' = "threw" /\ UNCHANGED <<retry, ret, trios>>
  <2>1. faults' \in Nat /\ faults' # 0
    BY <1>6 DEF Fault, Inv, TypeOK
  <2>2. TypeOK' /\ Places'
    BY <1>1, <1>6, <2>1 DEF Inv, TypeOK, Places, InTrio, Kinds, record, Ended
  <2>3. Latest' = Latest
    BY <1>1, <1>6 DEF Latest, Trio, InTrio
  <2>4. trios = <<>> \/ (Len(trios) \in 1..Len(trios) /\ trios[Len(trios)] = "regressed")
    BY <1>1 DEF Inv, TypeOK, Regressions
  <2>5. Regressions' /\ Asked'
    BY <1>1, <1>6, <2>4 DEF Inv, TypeOK, Regressions, Asked, InTrio, Kinds, Statuses, Ended
  <2>6. RowsFollow' /\ RowsSettle'
    BY <1>1, <1>6, <2>1, <2>3 DEF Inv, RowsFollow, RowsSettle, record, InTrio, Kinds
  <2>7. ASSUME NEW d \in CallMinutes, Longest(d) PROVE Timely(d)'
    BY <1>1, <1>2, <1>6, <2>7 DEF Timely, InTrio, Kinds
  <2> QED BY <2>2, <2>5, <2>6, <2>7 DEF Inv, Longest
<1> QED BY <1>3, <1>4, <1>5, <1>6 DEF Call

LEMMA RecordKeeps == ASSUME Inv, Record PROVE Inv'
<1> USE PhaseAssumption DEF PhaseAssumption
<1>1. /\ pc = "record" /\ pc \in InTrio /\ pc' = "judge" /\ UNCHANGED <<kind, retry, ret, trios, time, aborted, asked>>
      /\ Latest = Len(trios) + 1 /\ Latest' = Len(trios) + 1
      /\ trios \in Seq(Outcomes) /\ Len(trios) \in Nat /\ Len(trios) < MaxTrios /\ Trio \in 1..MaxTrios
      /\ roundIdx \in Nat /\ roundIdx <= Ordinal(kind) /\ kind \in Kinds
  BY DEF Record, Latest, Trio, InTrio, Inv, TypeOK, Places, Kinds
<1>2. /\ faults' \in Nat /\ (faults' = 0 => faults = 0 /\ written')
      /\ written' \in BOOLEAN /\ (written => written') /\ roundIdx' \in {roundIdx, roundIdx + 1}
      /\ rounds' \in {rounds, [rounds EXCEPT ![Trio] = @ \cup {<<roundIdx + 1, kind>>}]}
      /\ ~written' => UNCHANGED record
      /\ rows' \in {rows, [rows EXCEPT ![Trio] = "in-flight"]}
      /\ written' /\ ~written => rows' = [rows EXCEPT ![Trio] = "in-flight"]
      /\ written => rows' = rows
  <2>1. faults' \in Nat /\ (faults' = 0 => faults = 0 /\ written')
    BY DEF Record, Fault, NoFault, Inv, TypeOK
  <2>2. written' \in BOOLEAN
    <3>1. written' = TRUE \/ written' = written
      BY DEF Record, record
    <3> QED BY <3>1 DEF Inv, TypeOK
  <2>3. /\ written => written'
        /\ roundIdx' \in {roundIdx, roundIdx + 1}
        /\ rounds' \in {rounds, [rounds EXCEPT ![Trio] = @ \cup {<<roundIdx + 1, kind>>}]}
        /\ ~written' => UNCHANGED record
    BY DEF Record, record
  <2>4. /\ rows' \in {rows, [rows EXCEPT ![Trio] = "in-flight"]}
        /\ written' /\ ~written => rows' = [rows EXCEPT ![Trio] = "in-flight"]
        /\ written => rows' = rows
    BY DEF Record, record
  <2> QED BY <2>1, <2>2, <2>3, <2>4
<1>3. rounds' \in [1..MaxTrios -> SUBSET ((1..3) \X Kinds)]
  <2>1. roundIdx + 1 \in 1..3
    BY <1>1 DEF Ordinal
  <2> QED BY <1>1, <1>2, <2>1 DEF Inv, TypeOK
<1>4. rows' \in [1..MaxTrios -> {"none", "in-flight"} \cup Outcomes]
  BY <1>2 DEF Inv, TypeOK, record
<1>5. TypeOK' /\ Places'
  <2>1. retry' \in BOOLEAN /\ aborted' \in BOOLEAN /\ ret' \in AnyReturn \cup {NoReturn} /\ ret' \in Returns(kind)
    BY <1>1 DEF Inv, TypeOK, Places
  <2>2. roundIdx' \in 0..3 /\ roundIdx' <= Ordinal(kind) + 1
    BY <1>1, <1>2 DEF Ordinal
  <2> QED BY <1>1, <1>2, <1>3, <1>4, <2>1, <2>2 DEF Inv, TypeOK, Places, InTrio, Kinds, time
<1>6. Regressions' /\ Asked'
  BY <1>1 DEF Inv, Regressions, Asked, InTrio, Kinds, Statuses, Ended
<1>7. RowsFollow'
  <2>1. \A t \in 1..MaxTrios : t # Trio => rows'[t] = rows[t] /\ rounds'[t] = rounds[t]
    BY <1>1, <1>2 DEF Inv, TypeOK, record
  <2>2. /\ rows'[Trio] = IF written' THEN "in-flight" ELSE "none"
        /\ ~written' => rounds'[Trio] = {}
    <3>1. /\ rows[Trio] = IF written THEN "in-flight" ELSE "none"
          /\ ~written => rounds[Trio] = {}
      BY <1>1 DEF Inv, RowsFollow, Trio
    <3>2. DOMAIN rows = 1..MaxTrios
      BY DEF Inv, TypeOK
    <3>3. CASE written'
      BY <1>1, <1>2, <3>1, <3>2, <3>3
    <3>4. CASE ~written'
      BY <1>2, <3>1, <3>4 DEF record
    <3> QED BY <3>3, <3>4
  <2> QED BY <1>1, <2>1, <2>2 DEF Inv, RowsFollow, Trio
<1>8. RowsSettle'
  <2>1. \A t \in 1..MaxTrios : t # Trio => rows'[t] = rows[t] /\ rounds'[t] = rounds[t]
    BY <1>1, <1>2 DEF Inv, TypeOK, record
  <2>2. rounds'[Trio] # {} => rows'[Trio] # "none"
    BY <1>1, <1>2, <1>7 DEF RowsFollow, Trio, InTrio
  <2>3. \A t \in 1..Len(trios) : t \in 1..MaxTrios /\ t # Trio
    BY <1>1 DEF Trio
  <2> QED BY <1>1, <1>2, <2>1, <2>2, <2>3 DEF Inv, RowsSettle
<1>9. ASSUME NEW d \in CallMinutes, Longest(d) PROVE Timely(d)'
  BY <1>1, <1>9 DEF Inv, Timely, InTrio, Kinds, time
<1> QED BY <1>5, <1>6, <1>7, <1>8, <1>9 DEF Inv, Longest

LEMMA JudgeKeeps == ASSUME Inv, Judge PROVE Inv'
<1> USE PhaseAssumption DEF PhaseAssumption
<1>1. /\ pc = "judge" /\ pc \in InTrio /\ ret' = NoReturn /\ UNCHANGED <<kind, retry, record, time, aborted, faults>>
      /\ Len(trios) < MaxTrios /\ (faults = 0 => written) /\ roundIdx <= Ordinal(kind) + 1
      /\ retry' \in BOOLEAN /\ aborted' \in BOOLEAN
  BY DEF Judge, InTrio, Inv, TypeOK, Places, RowsSettle
<1>2. \/ \E o \in Outcomes : Finish(o) /\ asked' = IF o = "awaiting-founder" THEN asked + 1 ELSE asked
      \/ kind = "plan" /\ pc' = "impl" /\ UNCHANGED <<trios, asked>>
      \/ kind = "impl" /\ pc' = "qa" /\ UNCHANGED <<trios, asked>>
  BY DEF Judge, JudgePlan, JudgeImpl, JudgeQa, AskFounder, Outcomes
<1>3. ASSUME NEW o \in Outcomes, Finish(o), asked' = IF o = "awaiting-founder" THEN asked + 1 ELSE asked
      PROVE  Inv'
  <2>1. /\ Regressions' /\ RowsFollow' /\ Asked' /\ RowsSettle'
        /\ trios' \in Seq(Outcomes) /\ Len(trios') <= MaxTrios /\ trios' # <<>> /\ pc' = "ended"
    BY <1>1, <1>3, FinishKeeps, FinishAsks, FinishSettles DEF Finish
  <2>2. TypeOK' /\ Places'
    BY <1>1, <1>3, <2>1 DEF Inv, TypeOK, Places, InTrio, Kinds, record, time
  <2>3. ASSUME NEW d \in CallMinutes, Longest(d) PROVE Timely(d)'
    BY <1>1, <2>1, <2>3 DEF Inv, Timely, InTrio, Kinds, time
  <2> QED BY <2>1, <2>2, <2>3 DEF Inv, Longest
<1>4. ASSUME \/ kind = "plan" /\ pc' = "impl" /\ UNCHANGED <<trios, asked>>
             \/ kind = "impl" /\ pc' = "qa" /\ UNCHANGED <<trios, asked>>
      PROVE  Inv'
  <2>1. TypeOK' /\ Places'
    BY <1>1, <1>4 DEF Inv, TypeOK, Places, InTrio, Kinds, record, time, Ordinal
  <2>2. Latest' = Latest
    BY <1>1, <1>4 DEF Latest, Trio, InTrio, Kinds
  <2>3. Regressions' /\ Asked' /\ RowsFollow' /\ RowsSettle'
    BY <1>1, <1>4, <2>2 DEF Inv, Regressions, Asked, RowsFollow, RowsSettle, record, InTrio, Kinds, Statuses, Ended
  <2>4. ASSUME NEW d \in CallMinutes, Longest(d) PROVE Timely(d)'
    BY <1>1, <1>4, <2>4 DEF Inv, Timely, InTrio, Kinds, time
  <2> QED BY <2>1, <2>3, <2>4 DEF Inv, Longest
<1> QED BY <1>2, <1>3, <1>4

LEMMA IdleKeeps == ASSUME Inv, Abort \/ UNCHANGED vars PROVE Inv'
<1>1. /\ UNCHANGED <<pc, kind, retry, ret, trios, written, roundIdx, rows, rounds, clock, trioClock, asked, faults>>
      /\ aborted' \in BOOLEAN
  BY DEF Abort, vars, record, time, Inv, TypeOK
<1>2. TypeOK' /\ Places' /\ Regressions' /\ Asked'
  BY <1>1 DEF Inv, TypeOK, Places, Regressions, Asked
<1>3. RowsFollow' /\ RowsSettle'
  BY <1>1 DEF Inv, RowsFollow, RowsSettle, Latest, Trio
<1>4. ASSUME NEW d \in CallMinutes, Longest(d) PROVE Timely(d)'
  BY <1>1, <1>4 DEF Inv, Timely
<1> QED BY <1>2, <1>3, <1>4 DEF Inv, Longest

LEMMA NextInv == ASSUME Inv, [Next]_vars PROVE Inv'
BY StartTrioKeeps, EndTrioKeeps, BoundaryKeeps, CallKeeps, RecordKeeps, JudgeKeeps, IdleKeeps
   DEF Next, PhaseStep, Done

-----------------------------------------------------------------------------
(* What follows from the invariant *)

LEMMA InvTells == ASSUME Inv PROVE OnlyRegressionsContinue /\ RowsTellTheOutcome /\ EndsInTime
<1>1. OnlyRegressionsContinue
  <2>1. Len(trios) \in Nat /\ (trios # <<>> => Len(trios) \in 1..Len(trios))
    BY DEF Inv, TypeOK
  <2> QED BY <2>1 DEF Inv, Regressions, OnlyRegressionsContinue, Statuses
<1>2. RowsTellTheOutcome
  <2>1. \A t \in 1..Len(trios) : rows[t] \in {"none", "in-flight", trios[t]}
    BY DEF Inv, RowsSettle
  <2>2. \A t \in 1..MaxTrios : rounds[t] # {} => rows[t] # "none"
    BY DEF Inv, RowsSettle
  <2>3. ASSUME faults = 0, pc \in Statuses, NEW t \in 1..MaxTrios
        PROVE  /\ rows[t] # "in-flight"
               /\ t <= Len(trios) /\ rows[t] = "none" => trios[t] \in {"blocked", "regressed"}
    <3>1. Latest = Len(trios) /\ Len(trios) \in Nat
      BY <2>3 DEF Latest, InTrio, Kinds, Statuses, Inv, TypeOK
    <3>2. CASE t > Len(trios)
      BY <3>1, <3>2 DEF Inv, RowsFollow
    <3>3. CASE t \in 1..Len(trios)
      BY <2>3, <3>3 DEF Inv, RowsSettle, Statuses
    <3> QED BY <3>1, <3>2, <3>3
  <2> QED BY <2>1, <2>2, <2>3 DEF RowsTellTheOutcome
<1>3. EndsInTime
  BY DEF Inv, Longest, Timely, EndsInTime
<1> QED BY <1>1, <1>2, <1>3

\* A phase goes on only after a trio that regressed, and its status is that of its last
\* (phase-orchestrator.ts), for any number of trios, failed writes and aborts.
THEOREM GoesOn == Spec => []OnlyRegressionsContinue
<1> QED BY InitInv, NextInv, InvTells, PTL DEF Spec

\* The rows tell no other outcome than the trios had (recordRound in phase-orchestrator.ts),
\* whatever writes fail.
THEOREM Rows == Spec => []RowsTellTheOutcome
<1> QED BY InitInv, NextInv, InvTells, PTL DEF Spec

\* A phase outlasts its cap by a trio, and the trio its own by a round and its re-prompt, for
\* any caps and durations: the clocks are read at boundaries only (trio.ts, phase-orchestrator.ts).
THEOREM InTime == Spec => []EndsInTime
<1> QED BY InitInv, NextInv, InvTells, PTL DEF Spec

-----------------------------------------------------------------------------
(* The contract, but for its liveness *)

ContractSafety == Contract!Init /\ [][Contract!Next]_(Contract!vars)

LEMMA InitRefines == ASSUME Init PROVE Contract!Init
BY DEF Init, Contract!Init, Ended, Statuses

\* A step that neither asks nor ends is a stutter of the contract.
LEMMA Stutters ==
  ASSUME pc \notin Ended, pc' \notin Ended, UNCHANGED asked
  PROVE  UNCHANGED Contract!vars
BY DEF Contract!vars

LEMMA NextRefines == ASSUME Inv, Inv', [Next]_vars PROVE [Contract!Next]_(Contract!vars)
<1>1. CASE StartTrio
  <2>1. pc = "boundary" /\ pc' \in {"plan", "phase-aborted"} /\ UNCHANGED asked
    BY <1>1 DEF StartTrio
  <2>2. CASE pc' = "plan"
    BY <2>1, <2>2, Stutters DEF Ended, Statuses
  <2>3. CASE pc' = "phase-aborted"
    BY <2>1, <2>3 DEF Inv, TypeOK, Asked, Contract!Next, Contract!Return, Ended, Statuses
  <2> QED BY <2>1, <2>2, <2>3
<1>2. CASE EndTrio
  <2>1. pc = "ended" /\ pc' \in Statuses \cup {"boundary"} /\ UNCHANGED asked
    <3>1. trios[Len(trios)] \in Outcomes
      BY <1>2 DEF EndTrio, Inv, TypeOK, Places
    <3> QED BY <1>2, <3>1 DEF EndTrio, StatusFor, Statuses, Outcomes
  <2>2. CASE pc' = "boundary"
    BY <2>1, <2>2, Stutters DEF Ended, Statuses
  <2>3. CASE pc' \in Statuses
    BY <2>1, <2>3 DEF Inv, TypeOK, Asked, Contract!Next, Contract!Return, Ended, Statuses
  <2> QED BY <2>1, <2>2, <2>3
<1>3. CASE Boundary
  BY <1>3, Stutters DEF Boundary, Finish, Kinds, Ended, Statuses
<1>4. CASE Call
  <2>1. pc = "call" /\ pc' \in {"call", "record", "ended", "threw"} /\ UNCHANGED asked
    BY <1>4 DEF Call, Finish
  <2>2. CASE pc' # "threw"
    BY <2>1, <2>2, Stutters DEF Ended, Statuses
  <2>3. CASE pc' = "threw"
    BY <2>1, <2>3 DEF Inv, TypeOK, Asked, Contract!Next, Contract!Throw, Ended, Statuses
  <2> QED BY <2>1, <2>2, <2>3
<1>5. CASE Record
  BY <1>5, Stutters DEF Record, Ended, Statuses
<1>6. CASE Judge
  <2>1. pc = "judge" /\ pc' \in {"impl", "qa", "ended"} /\ asked' \in {asked, asked + 1}
    BY <1>6 DEF Judge, JudgePlan, JudgeImpl, JudgeQa, AskFounder, Finish
  <2>2. CASE UNCHANGED asked
    BY <2>1, <2>2, Stutters DEF Ended, Statuses
  <2>3. CASE asked' = asked + 1
    <3>1. asked = 0
      <4>1. trios # <<>> => Len(trios) \in 1..Len(trios)
        BY DEF Inv, TypeOK
      <4> QED BY <2>1, <4>1 DEF Inv, TypeOK, Asked, Regressions, InTrio
    <3> QED BY <2>1, <2>3, <3>1 DEF Contract!Next, Contract!Ask, Ended, Statuses
  <2> QED BY <2>1, <2>2, <2>3
<1>7. CASE Abort \/ UNCHANGED vars
  BY <1>7 DEF Abort, vars, Contract!vars
<1> QED BY <1>1, <1>2, <1>3, <1>4, <1>5, <1>6, <1>7 DEF Next, PhaseStep, Done

\* The phase is what the Director relies on (runPhase in director.ts): at most one question, and
\* phase-blocked-on-founder exactly after it; it never throws once it has asked.
THEOREM Refinement == Spec => ContractSafety
<1>1. Spec => []Inv
  BY InitInv, NextInv, PTL DEF Spec
<1> QED BY <1>1, InitRefines, NextRefines, PTL DEF Spec, ContractSafety
=============================================================================

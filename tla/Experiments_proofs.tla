------------------------- MODULE Experiments_proofs -------------------------
(***************************************************************************)
(* For any number of experiments, ticks and interventions, and however deep *)
(* chains go: an intervention is judged once, and no override that failed   *)
(* stays in force.                                                         *)
(***************************************************************************)
EXTENDS Experiments, TLAPS

TickType == [at : {"off", "waits", "drains"}, waits : SUBSET Exps, level : Nat]
RunType == [at : {"idle", "probe", "record"}, made : Ids \cup {NoId}]

\* The types, but for the bound on the depth of a chain.
Typed ==
  /\ registered \subseteq Exps
  /\ run \in [Exps -> RunType]
  /\ tick \in [Ticks -> TickType]
  /\ todo \in [Ticks -> SUBSET Ids]
  /\ judging \in [Ticks -> Ids \cup {NoId}] /\ rolling \in [Ticks -> Ids \cup {NoId}]
  /\ made \in 0..MaxInterventions /\ author \in [Ids -> Exps \cup {Nobody}]
  /\ table \in [Exps -> Ids \cup {NoId}] /\ cache \in [Exps -> Ids \cup {NoId}]
  /\ validation \in [Ids -> Outcomes \cup {"none", "pending"}]
  /\ judged \in [Ids -> Nat] /\ excused \subseteq Ids /\ ripe \subseteq Ids

\* A run holds an intervention only until it has recorded it, and it is its own.
RunsRecord ==
  \A e \in Exps :
    /\ run[e].at # "record" => run[e].made = NoId
    /\ run[e].at = "record" =>
         run[e].made \in Ids /\ author[run[e].made] = e /\ validation[run[e].made] = "none"

\* One tick drains at a time; what it has read, and what it judges, is pending.
OneDrains ==
  \A k \in Ticks :
    /\ \A u \in Ticks : tick[k].at = "drains" /\ tick[u].at = "drains" => k = u
    /\ tick[k].waits # {} => tick[k].at = "waits"
    /\ tick[k].at # "drains" => todo[k] = {} /\ judging[k] = NoId /\ rolling[k] = NoId
    /\ judging[k] # NoId => rolling[k] = NoId /\ judging[k] \notin todo[k]
    /\ judging[k] # NoId => validation[judging[k]] = "pending"
    /\ \A i \in todo[k] : validation[i] = "pending"

\* Only what was made is validated, or in force, and for its author.
MadeByAuthors ==
  /\ \A i \in Ids : author[i] # Nobody <=> i <= made
  /\ \A i \in Ids : validation[i] # "none" => i <= made
  /\ \A e \in Exps : table[e] # NoId => author[table[e]] = e
  /\ \A e \in Exps : cache[e] # NoId => author[cache[e]] = e

\* What was judged is settled.
JudgedIsSettled ==
  /\ \A i \in Ids : judged[i] > 0 => validation[i] # "none"
  /\ \A i \in Ids \ excused : judged[i] > 0 => validation[i] # "pending"

Inv ==
  /\ Typed /\ RunsRecord /\ OneDrains /\ MadeByAuthors /\ JudgedIsSettled
  /\ JudgedOnce /\ NoFailedOverrideInForce

USE ExperimentsAssumption DEF Ids, NoId

-----------------------------------------------------------------------------
LEMMA InitInv == ASSUME Init PROVE Inv
<1>1. Typed
  BY DEF Init, Typed, IdleRun, Off, RunType, TickType, ExperimentsAssumption
<1>2. RunsRecord /\ OneDrains
  BY DEF Init, RunsRecord, OneDrains, IdleRun, Off
<1>3. MadeByAuthors /\ JudgedIsSettled
  BY DEF Init, MadeByAuthors, JudgedIsSettled
<1>4. JudgedOnce /\ NoFailedOverrideInForce
  BY DEF Init, JudgedOnce, NoFailedOverrideInForce
<1> QED BY <1>1, <1>2, <1>3, <1>4 DEF Inv

-----------------------------------------------------------------------------
(* What a sweep, a chain and the end of a run do to the ticks and the runs *)

\* Nothing begins or ends to drain, or one tick begins to, and reads what is due.
TicksMove ==
  /\ tick' \in [Ticks -> TickType] /\ todo' \in [Ticks -> SUBSET Ids]
  /\ \A k \in Ticks : tick'[k].waits # {} => tick'[k].at = "waits"
  /\ \/ todo' = todo /\ \A k \in Ticks : tick'[k].at = "drains" <=> tick[k].at = "drains"
     \/ /\ NoDrain
        /\ \E k \in Ticks : /\ \A u \in Ticks : tick'[u].at = "drains" <=> u = k
                            /\ todo' = [todo EXCEPT ![k] = Due]

\* From the runs of r, idle ones are claimed.
Claimed(r) ==
  /\ run' \in [Exps -> RunType]
  /\ \A e \in Exps : run'[e] = r[e] \/ (r[e].at = "idle" /\ run'[e] = [at |-> "probe", made |-> r[e].made])

LEMMA EndsMoves ==
  ASSUME Typed, OneDrains, NEW k \in Ticks, tick[k].at # "drains", Ends(k)
  PROVE  TicksMove
<1>1. CASE NoDrain /\ tick' = [tick EXCEPT ![k] = [Off EXCEPT !.at = "drains"]]
           /\ todo' = [todo EXCEPT ![k] = Due]
  <2>1. Due \in SUBSET Ids
    BY DEF Typed, Due
  <2>2. /\ tick' \in [Ticks -> TickType] /\ todo' \in [Ticks -> SUBSET Ids]
        /\ \A u \in Ticks : tick'[u].waits # {} => tick'[u].at = "waits"
        /\ \A u \in Ticks : tick'[u].at = "drains" <=> u = k
    BY <1>1, <2>1 DEF Typed, OneDrains, TickType, Off, NoDrain
  <2> QED BY <1>1, <2>2 DEF TicksMove
<1>2. CASE tick' = [tick EXCEPT ![k] = Off] /\ UNCHANGED todo
  BY <1>2 DEF Typed, OneDrains, TickType, Off, TicksMove
<1> QED BY <1>1, <1>2 DEF Ends

LEMMA SweepMoves ==
  ASSUME Typed, OneDrains, NEW k \in Ticks, tick[k].at # "drains",
         NEW level \in Nat, NEW r \in [Exps -> RunType], NEW d, Sweep(k, level, r, d)
  PROVE  TicksMove /\ Claimed(r)
<1> DEFINE claimed == {e \in registered \cap d : r[e].at = "idle"}
<1>1. CASE claimed # {}
  <2>1. claimed \subseteq Exps
    BY DEF Typed
  <2>2. /\ run' = [e \in Exps |-> IF e \in claimed THEN [r[e] EXCEPT !.at = "probe"] ELSE r[e]]
        /\ tick' = [tick EXCEPT ![k] = [at |-> "waits", waits |-> claimed, level |-> level]]
        /\ todo' = todo
    BY <1>1 DEF Sweep
  <2>3. TicksMove
    BY <2>1, <2>2 DEF TicksMove, Typed, OneDrains, TickType
  <2>4. \A e \in Exps : [r[e] EXCEPT !.at = "probe"] = [at |-> "probe", made |-> r[e].made]
    BY DEF RunType
  <2>5. Claimed(r)
    BY <2>1, <2>2, <2>4 DEF Claimed, RunType
  <2> QED BY <2>3, <2>5
<1>2. CASE claimed = {}
  <2>1. run' = r /\ Ends(k)
    BY <1>2 DEF Sweep
  <2> QED BY <2>1, EndsMoves DEF Claimed
<1> QED BY <1>1, <1>2

LEMMA RunEndsMoves ==
  ASSUME Typed, OneDrains, NEW e \in Exps, RunEnds(e)
  PROVE  TicksMove /\ Claimed([run EXCEPT ![e] = IdleRun])
<1> DEFINE freed == [run EXCEPT ![e] = IdleRun]
<1>1. freed \in [Exps -> RunType]
  BY DEF Typed, RunType, IdleRun
<1>2. CASE \E k \in Ticks : tick[k].waits = {e} /\ Chains(k, freed, due \ {e})
  <2>1. PICK k \in Ticks : tick[k].waits = {e} /\ Chains(k, freed, due \ {e})
    BY <1>2
  <2>2. tick[k].at = "waits" /\ tick[k].level + 1 \in Nat
    <3>1. tick[k].waits # {}
      BY <2>1
    <3>2. tick[k] \in TickType
      BY DEF Typed
    <3> QED BY <3>1, <3>2 DEF OneDrains, TickType
  <2>3. Sweep(k, tick[k].level + 1, freed, due \ {e}) \/ (run' = freed /\ Ends(k))
    BY <2>1 DEF Chains
  <2>4. CASE Sweep(k, tick[k].level + 1, freed, due \ {e})
    BY <1>1, <2>2, <2>4, SweepMoves
  <2>5. CASE run' = freed /\ Ends(k)
    BY <1>1, <2>2, <2>5, EndsMoves DEF Claimed
  <2> QED BY <2>3, <2>4, <2>5
<1>3. CASE /\ run' = freed /\ UNCHANGED todo
           /\ tick' = [k \in Ticks |-> [tick[k] EXCEPT !.waits = @ \ {e}]]
  <2>1. \A k \in Ticks : tick[k] \in TickType
    BY DEF Typed
  <2>2. \A k \in Ticks : /\ tick'[k].at = tick[k].at /\ tick'[k].waits = tick[k].waits \ {e}
                          /\ tick'[k] \in TickType
    BY <1>3, <2>1 DEF TickType
  <2>3. tick' \in [Ticks -> TickType] /\ todo' \in [Ticks -> SUBSET Ids]
    BY <1>3, <2>2 DEF Typed
  <2>4. TicksMove
    BY <1>3, <2>2, <2>3 DEF TicksMove, OneDrains
  <2> QED BY <1>1, <1>3, <2>4 DEF Claimed
<1> QED BY <1>2, <1>3 DEF RunEnds

-----------------------------------------------------------------------------
(* What they preserve *)

LEMMA TicksKeep ==
  ASSUME Typed, OneDrains, TicksMove, UNCHANGED <<judging, rolling>>, validation' \in [Ids -> Outcomes \cup {"none", "pending"}],
         \A i \in Ids : validation[i] = "pending" => validation'[i] = "pending"
  PROVE  OneDrains'
<1>1. CASE todo' = todo /\ \A k \in Ticks : tick'[k].at = "drains" <=> tick[k].at = "drains"
  BY <1>1 DEF OneDrains, TicksMove, Typed
<1>2. ASSUME NoDrain, NEW k \in Ticks, \A u \in Ticks : tick'[u].at = "drains" <=> u = k,
             todo' = [todo EXCEPT ![k] = Due]
      PROVE  OneDrains'
  <2>1. \A u \in Ticks : todo[u] = {} /\ judging[u] = NoId /\ rolling[u] = NoId
    BY <1>2 DEF OneDrains, NoDrain
  <2>2. \A u \in Ticks : \A i \in todo'[u] : i \in Ids /\ validation'[i] = "pending"
    BY <1>2, <2>1 DEF Due, Typed
  <2> QED BY <1>2, <2>1, <2>2 DEF OneDrains, TicksMove, Typed
<1> QED BY <1>1, <1>2 DEF TicksMove

LEMMA ClaimsKeep ==
  ASSUME Typed, RunsRecord, NEW r \in [Exps -> RunType], Claimed(r),
         \A e \in Exps : r[e] = run[e] \/ r[e] = IdleRun,
         UNCHANGED author,
         \A e \in Exps : r[e].at = "record" => validation'[r[e].made] = validation[r[e].made]
  PROVE  RunsRecord'
<1> SUFFICES ASSUME NEW e \in Exps
             PROVE  /\ run'[e].at # "record" => run'[e].made = NoId
                    /\ run'[e].at = "record" =>
                         /\ run'[e].made \in Ids /\ author[run'[e].made] = e
                         /\ validation'[run'[e].made] = "none"
  BY DEF RunsRecord
<1>1. /\ r[e].at # "record" => r[e].made = NoId
      /\ r[e].at = "record" => r[e] = run[e]
  BY DEF RunsRecord, IdleRun
<1>2. CASE run'[e] = r[e]
  BY <1>1, <1>2 DEF RunsRecord
<1>3. CASE r[e].at = "idle" /\ run'[e] = [at |-> "probe", made |-> r[e].made]
  BY <1>1, <1>3
<1> QED BY <1>2, <1>3 DEF Claimed

\* The runs of a step that ends no recording keep what they made.
LEMMA ClaimsKeepMade ==
  ASSUME Typed, RunsRecord, NEW r \in [Exps -> RunType], Claimed(r),
         \A e \in Exps : r[e] = run[e] \/ (run[e].at # "record" /\ r[e] = IdleRun)
  PROVE  \A e \in Exps : run'[e].made = run[e].made
BY DEF RunsRecord, Claimed, Typed, RunType, IdleRun

LEMMA RowsKeep ==
  ASSUME MadeByAuthors, JudgedIsSettled, JudgedOnce, UNCHANGED <<made, author, table, cache, validation, judged, excused>>
  PROVE  MadeByAuthors' /\ JudgedIsSettled' /\ JudgedOnce'
BY DEF MadeByAuthors, JudgedIsSettled, JudgedOnce

LEMMA ForceKeeps ==
  ASSUME Typed, NoFailedOverrideInForce, UNCHANGED <<table, cache, validation, rolling, excused>>,
         \A e \in Exps : run'[e].made = run[e].made
  PROVE  NoFailedOverrideInForce'
BY DEF NoFailedOverrideInForce, Typed

-----------------------------------------------------------------------------
(* One lemma per action *)

LEMMA TickFiresInv == ASSUME Inv, NEW k \in Ticks, TickFires(k) PROVE Inv'
<1> USE DEF Inv
<1>1. tick[k].at = "off" /\ tick[k].level \in Nat /\ run \in [Exps -> RunType]
  BY DEF TickFires, Typed, TickType
<1>2. /\ Sweep(k, tick[k].level, run, due)
      /\ UNCHANGED <<registered, due, judging, rolling, made, author, table, cache, validation, ripe, judged, excused>>
  BY DEF TickFires, rows, history
<1>3. TicksMove /\ Claimed(run)
  BY <1>1, <1>2, SweepMoves
<1>4. Typed'
  BY <1>2, <1>3 DEF Typed, TicksMove, Claimed
<1>5. RunsRecord' /\ OneDrains'
  BY <1>1, <1>2, <1>3, ClaimsKeep, TicksKeep DEF Typed
<1>6. MadeByAuthors' /\ JudgedIsSettled' /\ JudgedOnce'
  BY <1>2, RowsKeep
<1>7. NoFailedOverrideInForce'
  BY <1>1, <1>2, <1>3, ClaimsKeepMade, ForceKeeps
<1> QED BY <1>4, <1>5, <1>6, <1>7

LEMMA NoInterventionInv == ASSUME Inv, NEW e \in Exps, NoIntervention(e) PROVE Inv'
<1> USE DEF Inv
<1> DEFINE freed == [run EXCEPT ![e] = IdleRun]
<1>1. /\ run[e].at = "probe" /\ RunEnds(e)
      /\ UNCHANGED <<registered, judging, rolling, made, author, table, cache, validation, ripe, judged, excused>>
  BY DEF NoIntervention, rows, history
<1>2. TicksMove /\ Claimed(freed)
  BY <1>1, RunEndsMoves
<1>3. /\ freed \in [Exps -> RunType]
      /\ \A x \in Exps : freed[x] = run[x] \/ (run[x].at # "record" /\ freed[x] = IdleRun)
  BY <1>1 DEF Typed, RunType, IdleRun
<1> HIDE DEF freed
<1>4. Typed'
  BY <1>1, <1>2 DEF Typed, TicksMove, Claimed
<1>5. RunsRecord' /\ OneDrains'
  BY <1>1, <1>2, <1>3, ClaimsKeep, TicksKeep DEF Typed
<1>6. MadeByAuthors' /\ JudgedIsSettled' /\ JudgedOnce'
  BY <1>1, RowsKeep
<1>7. NoFailedOverrideInForce'
  BY <1>1, <1>2, <1>3, ClaimsKeepMade, ForceKeeps
<1> QED BY <1>4, <1>5, <1>6, <1>7

LEMMA RecordsInv == ASSUME Inv, NEW e \in Exps, Records(e) PROVE Inv'
<1> USE DEF Inv
<1> DEFINE freed == [run EXCEPT ![e] = IdleRun]
           i == run[e].made
<1>1. /\ run[e].at = "record" /\ RunEnds(e)
      /\ UNCHANGED <<registered, judging, rolling, made, author, table, cache, ripe, judged>>
      /\ \/ validation' = [validation EXCEPT ![i] = "pending"] /\ UNCHANGED excused
         \/ excused' = excused \cup {i} /\ UNCHANGED validation
  BY DEF Records
<1>2. TicksMove /\ Claimed(freed)
  BY <1>1, RunEndsMoves
<1>3. /\ freed \in [Exps -> RunType] /\ freed[e] = IdleRun
      /\ \A x \in Exps \ {e} : freed[x] = run[x]
  BY DEF Typed, RunType, IdleRun
<1>4. i \in Ids /\ author[i] = e /\ validation[i] = "none"
  BY <1>1 DEF RunsRecord
<1>5. \A x \in Exps \ {e} : run[x].at = "record" => run[x].made # i
  BY <1>4 DEF RunsRecord
<1>6. /\ validation' \in [Ids -> Outcomes \cup {"none", "pending"}] /\ excused' \subseteq Ids
      /\ \A j \in Ids \ {i} : validation'[j] = validation[j]
      /\ validation'[i] = "pending" \/ (validation'[i] = "none" /\ i \in excused')
      /\ excused \subseteq excused' /\ excused' \subseteq excused \cup {i}
  BY <1>1, <1>4 DEF Typed, Outcomes
<1> HIDE DEF freed, i
<1>7. Typed'
  BY <1>1, <1>2, <1>6 DEF Typed, TicksMove, Claimed
<1>8. \A x \in Exps : freed[x].at = "record" => validation'[freed[x].made] = validation[freed[x].made]
  BY <1>3, <1>5, <1>6 DEF RunsRecord, IdleRun
<1>9. RunsRecord'
  BY <1>1, <1>2, <1>3, <1>8, ClaimsKeep
<1>10. OneDrains'
  BY <1>1, <1>2, <1>4, <1>6, TicksKeep
<1>11. MadeByAuthors' /\ JudgedIsSettled' /\ JudgedOnce'
  <2>1. i <= made
    BY <1>4 DEF MadeByAuthors
  <2>2. ~(judged[i] > 0)
    BY <1>4 DEF JudgedIsSettled
  <2> QED BY <1>1, <1>4, <1>6, <2>1, <2>2 DEF MadeByAuthors, JudgedIsSettled, JudgedOnce, Typed
<1>12. NoFailedOverrideInForce'
  <2>1. \A x \in Exps \ {e} : run'[x].made = run[x].made
    BY <1>2, <1>3 DEF Claimed, RunType
  <2>2. \A x \in Exps, j \in Ids \ {i} : run[x].made = j => run'[x].made = j
    BY <2>1 DEF i
  <2> QED BY <1>1, <1>6, <2>2 DEF NoFailedOverrideInForce, Typed
<1> QED BY <1>7, <1>9, <1>10, <1>11, <1>12

LEMMA IntervenesInv == ASSUME Inv, NEW e \in Exps, Intervenes(e) PROVE Inv'
<1> USE DEF Inv
<1> DEFINE i == made + 1
<1>1. /\ run[e].at = "probe" /\ run[e].made = NoId /\ made < MaxInterventions
      /\ made' = i /\ author' = [author EXCEPT ![i] = e]
      /\ cache' = [cache EXCEPT ![e] = i]
      /\ run' = [run EXCEPT ![e] = [at |-> "record", made |-> i]]
      /\ UNCHANGED <<registered, tick, todo, judging, rolling, validation, ripe, judged, excused>>
  BY DEF Intervenes, Written, RunsRecord, draining, history
<1>2. table' \in {table, [table EXCEPT ![e] = NoId], [table EXCEPT ![e] = i]}
  BY DEF Intervenes, Written
<1>3. i \in Ids /\ i \notin 0..made /\ made \in Nat
  BY <1>1 DEF Typed, ExperimentsAssumption
<1>4. validation[i] = "none" /\ author[i] = Nobody
  BY <1>3 DEF MadeByAuthors, Typed
<1>5. \A x \in Exps : table[x] # i /\ cache[x] # i
  BY <1>3, <1>4 DEF MadeByAuthors, ExperimentsAssumption
<1>6. \A x \in Exps : run[x].made # i
  BY <1>3, <1>4 DEF RunsRecord, ExperimentsAssumption
<1>7. Typed'
  <2>1. [at |-> "record", made |-> i] \in RunType
    BY <1>3 DEF RunType
  <2>2. i \in 0..MaxInterventions
    BY <1>1, <1>3 DEF ExperimentsAssumption
  <2> HIDE DEF i
  <2>3. /\ table \in [Exps -> Ids \cup {NoId}] /\ cache \in [Exps -> Ids \cup {NoId}]
        /\ i \in Ids \cup {NoId} /\ NoId \in Ids \cup {NoId}
    BY <1>3 DEF Typed
  <2>4. cache' \in [Exps -> Ids \cup {NoId}]
    BY <1>1, <2>3
  <2>5. table' \in [Exps -> Ids \cup {NoId}]
    BY <1>2, <2>3
  <2> QED BY <1>1, <1>3, <2>1, <2>2, <2>4, <2>5 DEF Typed
<1> HIDE DEF i
<1>8. RunsRecord'
  BY <1>1, <1>3, <1>4, <1>6 DEF RunsRecord, Typed, RunType
<1>9. OneDrains'
  BY <1>1 DEF OneDrains
<1>10. MadeByAuthors'
  <2>1. \A j \in Ids : j <= i <=> j <= made \/ j = i
    BY <1>3 DEF i
  <2>2. \A j \in Ids : author'[j] # Nobody <=> j <= made'
    BY <1>1, <1>3, <2>1 DEF MadeByAuthors, Typed, ExperimentsAssumption
  <2>3. \A j \in Ids : validation'[j] # "none" => j <= made'
    BY <1>1, <2>1 DEF MadeByAuthors
  <2>4. \A x \in Exps : table'[x] # NoId => author'[table'[x]] = x
    <3> SUFFICES ASSUME NEW x \in Exps, table'[x] # NoId PROVE author'[table'[x]] = x
      OBVIOUS
    <3>1. (x = e /\ table'[x] = i) \/ table'[x] = table[x]
      BY <1>1, <1>2 DEF Typed
    <3>2. table'[x] = table[x] => table[x] \in Ids /\ table[x] # i /\ author[table[x]] = x
      BY <1>5 DEF MadeByAuthors, Typed
    <3> QED BY <1>1, <1>3, <3>1, <3>2 DEF Typed
  <2>5. \A x \in Exps : cache'[x] # NoId => author'[cache'[x]] = x
    BY <1>1, <1>3, <1>5 DEF MadeByAuthors, Typed
  <2> QED BY <2>2, <2>3, <2>4, <2>5 DEF MadeByAuthors
<1>11. JudgedIsSettled' /\ JudgedOnce'
  BY <1>1 DEF JudgedIsSettled, JudgedOnce
<1>12. NoFailedOverrideInForce'
  <2> SUFFICES ASSUME NEW x \in Exps, NEW j \in Ids \ excused, j \in {table'[x], cache'[x]}
               PROVE  /\ validation[j] = "none" => run'[x].made = j
                      /\ validation[j] = "failed" /\ x \in CanRollBack => \E k \in Ticks : rolling[k] = j
    BY <1>1 DEF NoFailedOverrideInForce
  <2>1. CASE j = i
    <3>1. x = e
      BY <1>1, <1>2, <1>3, <1>5, <2>1 DEF Typed
    <3> QED BY <1>1, <1>4, <2>1, <3>1 DEF Typed
  <2>2. CASE j # i
    <3>1. j \in {table[x], cache[x]}
      BY <1>1, <1>2, <2>2 DEF Typed
    <3>2. run'[x].made = run[x].made \/ (x = e /\ run[x].made = NoId)
      BY <1>1 DEF Typed
    <3> QED BY <3>1, <3>2 DEF NoFailedOverrideInForce
  <2> QED BY <2>1, <2>2
<1> QED BY <1>7, <1>8, <1>9, <1>10, <1>11, <1>12

\* Rows of runs are untouched by a drain.
LEMMA RunsKeep ==
  ASSUME RunsRecord, UNCHANGED <<run, author>>,
         \A i \in Ids : validation[i] = "none" => validation'[i] = "none"
  PROVE  RunsRecord'
BY DEF RunsRecord

LEMMA TakesUpInv == ASSUME Inv, NEW k \in Ticks, NEW i \in Ids, TakesUp(k, i) PROVE Inv'
<1> USE DEF Inv
<1>1. /\ tick[k].at = "drains" /\ judging[k] = NoId /\ rolling[k] = NoId /\ i \in todo[k]
      /\ todo' = [todo EXCEPT ![k] = @ \ {i}]
      /\ judging' \in {judging, [judging EXCEPT ![k] = i]}
      /\ UNCHANGED <<registered, run, tick, rolling, made, author, table, cache, ripe, judged>>
      /\ \/ UNCHANGED <<validation, excused>>
         \/ validation' = [validation EXCEPT ![i] = "skipped"] /\ UNCHANGED <<judging, excused>>
         \/ excused' = excused \cup {i} /\ UNCHANGED <<judging, validation>>
  BY DEF TakesUp, Draining, AtRest, running
<1>2. validation[i] = "pending" /\ i <= made
  BY <1>1 DEF OneDrains, MadeByAuthors
<1>3. Typed'
  BY <1>1 DEF Typed, Outcomes
<1>4. \A j \in Ids : (j # i => validation'[j] = validation[j]) /\ (validation'[i] = "skipped" \/ validation'[i] = validation[i])
  BY <1>1 DEF Typed
<1>5. RunsRecord'
  BY <1>1, <1>2, <1>4, RunsKeep
<1>6. OneDrains'
  <2> SUFFICES ASSUME NEW u \in Ticks
               PROVE  /\ \A v \in Ticks : tick[u].at = "drains" /\ tick[v].at = "drains" => u = v
                      /\ tick[u].waits # {} => tick[u].at = "waits"
                      /\ tick[u].at # "drains" => todo'[u] = {} /\ judging'[u] = NoId /\ rolling[u] = NoId
                      /\ judging'[u] # NoId => rolling[u] = NoId /\ judging'[u] \notin todo'[u]
                      /\ judging'[u] # NoId => validation'[judging'[u]] = "pending"
                      /\ \A j \in todo'[u] : validation'[j] = "pending"
    BY <1>1 DEF OneDrains
  <2>1. CASE u = k
    BY <1>1, <1>2, <1>4, <2>1 DEF OneDrains, Typed
  <2>2. CASE u # k
    BY <1>1, <2>2 DEF OneDrains, Typed
  <2> QED BY <2>1, <2>2
<1>7. MadeByAuthors'
  BY <1>1, <1>2, <1>4 DEF MadeByAuthors
<1>8. JudgedIsSettled' /\ JudgedOnce'
  BY <1>1, <1>4 DEF JudgedIsSettled, JudgedOnce, Typed
<1>9. NoFailedOverrideInForce'
  BY <1>1, <1>2, <1>4 DEF NoFailedOverrideInForce, Typed
<1> QED BY <1>3, <1>5, <1>6, <1>7, <1>8, <1>9

LEMMA JudgesInv == ASSUME Inv, NEW k \in Ticks, Judges(k) PROVE Inv'
<1> USE DEF Inv
<1> DEFINE i == judging[k]
<1>1. PICK outcome \in {"held", "inconclusive", "failed", "error"} :
        /\ rolling' = [rolling EXCEPT ![k] = IF outcome = "failed" /\ author[i] \in CanRollBack THEN i ELSE NoId]
        /\ \/ validation' = [validation EXCEPT ![i] = outcome] /\ UNCHANGED excused
           \/ excused' = excused \cup {i} /\ UNCHANGED validation
  BY DEF Judges
<1>2. /\ tick[k].at = "drains" /\ i # NoId
      /\ judging' = [judging EXCEPT ![k] = NoId]
      /\ judged' = [judged EXCEPT ![i] = IF @ < 2 THEN @ + 1 ELSE @]
      /\ UNCHANGED <<registered, run, tick, todo, made, author, table, cache, ripe>>
  BY DEF Judges, Draining, running
<1>3. i \in Ids /\ validation[i] = "pending" /\ i \notin todo[k] /\ rolling[k] = NoId /\ i <= made
  BY <1>2 DEF OneDrains, Typed, MadeByAuthors
<1>4. i \notin excused => judged[i] = 0
  BY <1>3 DEF JudgedIsSettled, Typed
<1>5. /\ validation'[i] \in {outcome, "pending"} /\ (validation'[i] = "pending" => i \in excused')
      /\ \A j \in Ids \ {i} : validation'[j] = validation[j]
      /\ excused \subseteq excused' /\ excused' \subseteq excused \cup {i}
      /\ judged'[i] \in Nat /\ (i \notin excused' => judged'[i] = 1)
      /\ \A j \in Ids \ {i} : judged'[j] = judged[j]
  <2>1. judged[i] \in Nat
    BY <1>3 DEF Typed
  <2> QED BY <1>1, <1>2, <1>3, <1>4, <2>1 DEF Typed
<1>6. Typed'
  <2>1. rolling' \in [Ticks -> Ids \cup {NoId}] /\ judging' \in [Ticks -> Ids \cup {NoId}]
    BY <1>1, <1>2, <1>3 DEF Typed
  <2>2. validation' \in [Ids -> Outcomes \cup {"none", "pending"}]
    BY <1>1 DEF Typed, Outcomes
  <2>3. judged' \in [Ids -> Nat] /\ excused' \subseteq Ids
    BY <1>2, <1>3, <1>5 DEF Typed
  <2> QED BY <1>2, <2>1, <2>2, <2>3 DEF Typed
<1> HIDE DEF i
<1>7. RunsRecord'
  BY <1>2, <1>3, <1>5, RunsKeep DEF Typed
<1>8. OneDrains'
  <2> SUFFICES ASSUME NEW u \in Ticks
               PROVE  /\ \A v \in Ticks : tick[u].at = "drains" /\ tick[v].at = "drains" => u = v
                      /\ tick[u].waits # {} => tick[u].at = "waits"
                      /\ tick[u].at # "drains" => todo[u] = {} /\ judging'[u] = NoId /\ rolling'[u] = NoId
                      /\ judging'[u] # NoId => rolling'[u] = NoId /\ judging'[u] \notin todo[u]
                      /\ judging'[u] # NoId => validation'[judging'[u]] = "pending"
                      /\ \A j \in todo[u] : validation'[j] = "pending"
    BY <1>2 DEF OneDrains
  <2>1. CASE u = k
    BY <1>1, <1>2, <1>3, <1>5, <2>1 DEF OneDrains, Typed
  <2>2. CASE u # k
    <3>1. todo[u] = {} /\ judging[u] = NoId /\ rolling[u] = NoId
      BY <1>2, <2>2 DEF OneDrains
    <3> QED BY <1>1, <1>2, <2>2, <3>1 DEF OneDrains, Typed
  <2> QED BY <2>1, <2>2
<1>9. MadeByAuthors'
  BY <1>2, <1>3, <1>5 DEF MadeByAuthors
<1>10. JudgedIsSettled' /\ JudgedOnce'
  <2> SUFFICES ASSUME NEW j \in Ids
               PROVE  /\ judged'[j] > 0 => validation'[j] # "none"
                      /\ j \notin excused' /\ judged'[j] > 0 => validation'[j] # "pending"
                      /\ judged'[j] > 1 => j \in excused'
    BY DEF JudgedIsSettled, JudgedOnce
  <2>1. CASE j = i
    BY <1>5, <2>1
  <2>2. CASE j # i
    BY <1>5, <2>2 DEF JudgedIsSettled, JudgedOnce
  <2> QED BY <2>1, <2>2
<1>11. NoFailedOverrideInForce'
  <2> SUFFICES ASSUME NEW x \in Exps, NEW j \in Ids \ excused', j \in {table[x], cache[x]}
               PROVE  /\ validation'[j] = "none" => run[x].made = j
                      /\ validation'[j] = "failed" /\ x \in CanRollBack => \E u \in Ticks : rolling'[u] = j
    BY <1>2 DEF NoFailedOverrideInForce
  <2>1. CASE j = i
    <3>1. author[i] = x
      BY <1>3, <2>1 DEF MadeByAuthors
    <3>2. validation'[i] = "failed" /\ x \in CanRollBack => rolling'[k] = i
      BY <1>1, <1>3, <1>5, <3>1 DEF Typed, i
    <3> QED BY <1>1, <1>5, <2>1, <3>2
  <2>2. CASE j # i
    <3>1. \A u \in Ticks : rolling[u] = j => rolling'[u] = j
      BY <1>1, <1>3 DEF Typed
    <3> QED BY <1>5, <2>2, <3>1 DEF NoFailedOverrideInForce
  <2> QED BY <2>1, <2>2
<1> QED BY <1>6, <1>7, <1>8, <1>9, <1>10, <1>11

LEMMA RollsBackInv == ASSUME Inv, NEW k \in Ticks, RollsBack(k) PROVE Inv'
<1> USE DEF Inv
<1> DEFINE i == rolling[k]
           e == author[i]
<1>1. /\ tick[k].at = "drains" /\ i # NoId
      /\ rolling' = [rolling EXCEPT ![k] = NoId]
      /\ UNCHANGED <<registered, run, tick, todo, judging, made, author, validation, ripe, judged>>
      /\ \/ /\ table' = [table EXCEPT ![e] = NoId] /\ cache' = [cache EXCEPT ![e] = NoId]
            /\ UNCHANGED excused
         \/ /\ cache' \in {cache, [cache EXCEPT ![e] = NoId]}
            /\ excused' = excused \cup {i} /\ UNCHANGED table
  BY DEF RollsBack, Restored, Draining, running
<1>2. i \in Ids
  BY <1>1 DEF Typed
<1>3. /\ \A x \in Exps : table'[x] \in {table[x], NoId} /\ cache'[x] \in {cache[x], NoId}
      /\ excused \subseteq excused' /\ excused' \subseteq Ids
      /\ table' \in [Exps -> Ids \cup {NoId}] /\ cache' \in [Exps -> Ids \cup {NoId}]
  BY <1>1, <1>2 DEF Typed
<1>4. i \notin excused' => \A x \in Exps : table'[x] # i /\ cache'[x] # i
  <2> SUFFICES ASSUME i \notin excused', NEW x \in Exps, i \in {table'[x], cache'[x]} PROVE FALSE
    OBVIOUS
  <2>1. table' = [table EXCEPT ![e] = NoId] /\ cache' = [cache EXCEPT ![e] = NoId]
    BY <1>1
  <2>2. x # e
    BY <1>2, <2>1 DEF Typed
  <2>3. i \in {table[x], cache[x]}
    BY <2>1, <2>2 DEF Typed
  <2> QED BY <1>2, <2>2, <2>3 DEF MadeByAuthors
<1> HIDE DEF i, e
<1>5. Typed'
  BY <1>1, <1>3 DEF Typed
<1>6. RunsRecord'
  BY <1>1, RunsKeep
<1>7. OneDrains'
  BY <1>1 DEF OneDrains, Typed
<1>8. MadeByAuthors'
  BY <1>1, <1>3 DEF MadeByAuthors
<1>9. JudgedIsSettled' /\ JudgedOnce'
  BY <1>1, <1>3 DEF JudgedIsSettled, JudgedOnce
<1>10. NoFailedOverrideInForce'
  <2> SUFFICES ASSUME NEW x \in Exps, NEW j \in Ids \ excused', j \in {table'[x], cache'[x]}
               PROVE  /\ validation[j] = "none" => run[x].made = j
                      /\ validation[j] = "failed" /\ x \in CanRollBack => \E u \in Ticks : rolling'[u] = j
    BY <1>1 DEF NoFailedOverrideInForce
  <2>1. j # i /\ j \in {table[x], cache[x]}
    BY <1>3, <1>4
  <2>2. \A u \in Ticks : rolling[u] = j => rolling'[u] = j
    BY <1>1, <2>1 DEF Typed, i
  <2> QED BY <1>3, <2>1, <2>2 DEF NoFailedOverrideInForce
<1> QED BY <1>5, <1>6, <1>7, <1>8, <1>9, <1>10

LEMMA DrainEndsInv == ASSUME Inv, NEW k \in Ticks, DrainEnds(k) PROVE Inv'
<1> USE DEF Inv
<1>1. /\ judging[k] = NoId /\ rolling[k] = NoId /\ todo[k] = {}
      /\ tick' = [tick EXCEPT ![k] = Off]
      /\ UNCHANGED <<registered, run, todo, judging, rolling, made, author, table, cache, validation, ripe, judged, excused>>
  BY DEF DrainEnds, AtRest, draining, rows, history
<1>2. Typed'
  BY <1>1 DEF Typed, TickType, Off
<1>3. OneDrains'
  BY <1>1 DEF OneDrains, Typed, Off
<1>4. RunsRecord' /\ MadeByAuthors' /\ JudgedIsSettled' /\ JudgedOnce'
  BY <1>1, RunsKeep, RowsKeep
<1>5. NoFailedOverrideInForce'
  BY <1>1, ForceKeeps
<1> QED BY <1>2, <1>3, <1>4, <1>5

LEMMA RestartsInv == ASSUME Inv, Restarts PROVE Inv'
<1> USE DEF Inv
<1>1. /\ registered' \subseteq Exps
      /\ run' = [e \in Exps |-> IdleRun] /\ tick' = [k \in Ticks |-> Off]
      /\ todo' = [k \in Ticks |-> {}]
      /\ judging' = [k \in Ticks |-> NoId] /\ rolling' = [k \in Ticks |-> NoId]
      /\ cache' = table
      /\ excused' = (excused \cup {run[e].made : e \in Exps}
                      \cup {judging[k] : k \in Ticks} \cup {rolling[k] : k \in Ticks}) \ {NoId}
      /\ UNCHANGED <<made, author, table, validation, ripe, judged>>
  BY DEF Restarts
<1>2. /\ \A e \in Exps : run[e].made \in Ids => run[e].made \in excused'
      /\ \A k \in Ticks : rolling[k] \in Ids => rolling[k] \in excused'
      /\ excused \subseteq excused'
  BY <1>1 DEF Typed
<1>3. excused' \subseteq Ids
  <2>1. \A e \in Exps : run[e].made \in Ids \cup {NoId}
    BY DEF Typed, RunType
  <2>2. \A k \in Ticks : judging[k] \in Ids \cup {NoId} /\ rolling[k] \in Ids \cup {NoId}
    BY DEF Typed
  <2>3. excused \subseteq Ids
    BY DEF Typed
  <2> SUFFICES ASSUME NEW i \in excused' PROVE i \in Ids
    OBVIOUS
  <2>4. /\ i # NoId
        /\ \/ i \in excused \/ \E e \in Exps : i = run[e].made
           \/ \E k \in Ticks : i = judging[k] \/ i = rolling[k]
    BY <1>1
  <2>5. CASE i \in excused
    BY <2>3, <2>5
  <2>6. CASE \E e \in Exps : i = run[e].made
    BY <2>1, <2>4, <2>6
  <2>7. CASE \E k \in Ticks : i = judging[k] \/ i = rolling[k]
    BY <2>2, <2>4, <2>7
  <2> QED BY <2>4, <2>5, <2>6, <2>7
<1>4. Typed'
  BY <1>1, <1>3 DEF Typed, TickType, RunType, Off, IdleRun
<1>5. RunsRecord' /\ OneDrains'
  BY <1>1 DEF RunsRecord, OneDrains, IdleRun, Off
<1>6. MadeByAuthors'
  BY <1>1 DEF MadeByAuthors
<1>7. JudgedIsSettled' /\ JudgedOnce'
  BY <1>1, <1>2 DEF JudgedIsSettled, JudgedOnce
<1>8. NoFailedOverrideInForce'
  <2> SUFFICES ASSUME NEW e \in Exps, NEW i \in Ids \ excused', i = table[e]
               PROVE  validation[i] # "none" /\ (validation[i] = "failed" => e \notin CanRollBack)
    BY <1>1 DEF NoFailedOverrideInForce
  <2>1. run[e].made # i /\ \A k \in Ticks : rolling[k] # i
    BY <1>2
  <2> QED BY <1>2, <2>1 DEF NoFailedOverrideInForce
<1> QED BY <1>4, <1>5, <1>6, <1>7, <1>8

LEMMA NextInv == ASSUME Inv, [Next]_vars PROVE Inv'
<1> USE DEF Inv
<1>1. ASSUME NEW k \in Ticks, TickFires(k) \/ Judges(k) \/ RollsBack(k) \/ DrainEnds(k) PROVE Inv'
  BY <1>1, TickFiresInv, JudgesInv, RollsBackInv, DrainEndsInv
<1>2. ASSUME NEW k \in Ticks, NEW i \in Ids, TakesUp(k, i) PROVE Inv'
  BY <1>2, TakesUpInv
<1>3. ASSUME NEW e \in Exps, NoIntervention(e) PROVE Inv'
  BY <1>3, NoInterventionInv
<1>4. ASSUME NEW e \in Tuners, Intervenes(e) \/ Records(e) PROVE Inv'
  BY <1>4, IntervenesInv, RecordsInv DEF ExperimentsAssumption
<1>5. CASE /\ ripe' \subseteq Ids /\ cache' \in {cache, table}
           /\ UNCHANGED <<registered, run, tick, draining, made, author, table, validation, history>>
  <2>1. UNCHANGED <<registered, run, tick, todo, judging, rolling, made, author, table, validation, judged, excused>>
    BY <1>5 DEF draining, history
  <2>2. Typed'
    BY <1>5, <2>1 DEF Typed
  <2>3. RunsRecord' /\ OneDrains' /\ JudgedIsSettled' /\ JudgedOnce'
    BY <2>1 DEF RunsRecord, OneDrains, JudgedIsSettled, JudgedOnce
  <2>4. MadeByAuthors' /\ NoFailedOverrideInForce'
    BY <1>5, <2>1 DEF MadeByAuthors, NoFailedOverrideInForce
  <2> QED BY <2>2, <2>3, <2>4
<1>6. ASSUME NEW e \in Exps, ComesDue(e) PROVE Inv'
  BY <1>5, <1>6 DEF ComesDue, rows, Typed
<1>7. ASSUME NEW i \in Ids, Ripens(i) PROVE Inv'
  BY <1>5, <1>7 DEF Ripens, running, Typed
<1>8. CASE Refreshes
  BY <1>5, <1>8 DEF Refreshes, running, Typed
<1>9. CASE Restarts
  BY <1>9, RestartsInv
<1>10. CASE UNCHANGED vars
  BY <1>5, <1>10 DEF vars, running, rows, Typed
<1> QED BY <1>1, <1>2, <1>3, <1>4, <1>6, <1>7, <1>8, <1>9, <1>10 DEF Next

-----------------------------------------------------------------------------
\* A validator answers once for an intervention, unless its answer could not be written or
\* the daemon ended in between (processingValidations in experiment-runner.ts).
THEOREM Once == Spec => []JudgedOnce
<1>1. Inv => JudgedOnce
  BY DEF Inv
<1> QED BY <1>1, InitInv, NextInv, PTL DEF Spec

\* No override that was judged to have failed, or that nobody will judge, stays in force
\* (the rollback of experiment-runner.ts, deleteRuntimeConfig).
THEOREM RolledBack == Spec => []NoFailedOverrideInForce
<1>1. Inv => NoFailedOverrideInForce
  BY DEF Inv
<1> QED BY <1>1, InitInv, NextInv, PTL DEF Spec
=============================================================================

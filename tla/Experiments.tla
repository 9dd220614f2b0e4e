---------------------------- MODULE Experiments ----------------------------
(***************************************************************************)
(* The runner of self-bench experiments                                    *)
(* (src/self-bench/experiment-runner.ts) with the queue of validations it  *)
(* owes its interventions (validation-store.ts) and the overrides of the    *)
(* runtime configuration they set and roll back (runtime-config.ts).       *)
(*                                                                         *)
(* A tick claims what is due, waits for it, sweeps again in a nested call   *)
(* as long as a sweep found something, and drains the validations when no   *)
(* chain is open.  Ticks of the interval overlap: they share the claims,   *)
(* the depth of the chains and the flag of the drain.  Probes, validators   *)
(* and rollbacks take time; the database answers at once.                  *)
(***************************************************************************)
EXTENDS Naturals, FiniteSetsExt

CONSTANTS
  Exps,              \* experiments
  Tuners,            \* those that intervene, each on an override of its own
  CanRollBack,       \* those with a rollback hook
  MaxChainDepth,     \* MAX_CHAIN_DEPTH
  Ticks,             \* bound: ticks of the interval that overlap
  MaxInterventions,  \* bound: interventions in one run
  MaxFaults,         \* bound: restarts and failed writes in one run
  Nobody

Ids == 1..MaxInterventions
NoId == 0

ASSUME ExperimentsAssumption ==
  /\ Tuners \subseteq Exps /\ CanRollBack \subseteq Tuners /\ Nobody \notin Exps
  /\ {MaxChainDepth, MaxInterventions, MaxFaults} \subseteq Nat

VARIABLES
  registered,
  due,         \* nextRunAt has passed
  run,         \* per experiment: where its run is (inFlight), the intervention it made
  tick,        \* per tick: where it is, the runs it waits for, how deep it has chained
  todo,        \* per tick: the validations its drain has read and not yet taken up
  judging,     \* per tick: the validation in progress, NoId without one
  rolling,     \* per tick: the intervention being rolled back, NoId without one
  made,        \* interventions so far
  author,      \* per intervention: the experiment that made it
  table,       \* runtime_config_overrides: the intervention whose value stands, NoId for none
  cache,       \* the map the program reads
  validation,  \* experiment_validations: the status, or the outcome of a completed row
  ripe,        \* validate_at has passed
  judged,      \* history, per intervention: how often a validator gave its answer
  excused,     \* history: interventions a failed write or a restart cut off from their validation
  faults

running == <<due, run, tick>>
draining == <<todo, judging, rolling>>
rows == <<made, author, table, cache, validation, ripe>>
history == <<judged, excused>>
vars == <<registered, running, draining, rows, history, faults>>

-----------------------------------------------------------------------------
Outcomes == {"held", "inconclusive", "failed", "error", "skipped"}

TypeOK ==
  /\ registered \subseteq Exps /\ due \subseteq Exps
  /\ run \in [Exps -> [at : {"idle", "probe", "record"}, made : Ids \cup {NoId}]]
  /\ tick \in [Ticks -> [at : {"off", "waits", "drains"}, waits : SUBSET Exps, level : 0..MaxChainDepth]]
  /\ todo \in [Ticks -> SUBSET Ids]
  /\ judging \in [Ticks -> Ids \cup {NoId}] /\ rolling \in [Ticks -> Ids \cup {NoId}]
  /\ made \in 0..MaxInterventions /\ author \in [Ids -> Exps \cup {Nobody}]
  /\ table \in [Exps -> Ids \cup {NoId}] /\ cache \in [Exps -> Ids \cup {NoId}]
  /\ validation \in [Ids -> Outcomes \cup {"none", "pending"}]
  /\ ripe \subseteq Ids /\ judged \in [Ids -> Nat] /\ excused \subseteq Ids
  /\ faults \in 0..MaxFaults

IdleRun == [at |-> "idle", made |-> NoId]
Off == [at |-> "off", waits |-> {}, level |-> 0]

Init ==
  /\ registered = Exps /\ due \in SUBSET Exps
  /\ run = [e \in Exps |-> IdleRun] /\ tick = [k \in Ticks |-> Off]
  /\ todo = [k \in Ticks |-> {}]
  /\ judging = [k \in Ticks |-> NoId] /\ rolling = [k \in Ticks |-> NoId]
  /\ made = 0 /\ author = [i \in Ids |-> Nobody]
  /\ table = [e \in Exps |-> NoId] /\ cache = [e \in Exps |-> NoId]
  /\ validation = [i \in Ids |-> "none"] /\ ripe = {}
  /\ judged = [i \in Ids |-> 0] /\ excused = {} /\ faults = 0

Fault == faults < MaxFaults /\ faults' = faults + 1
NoFault == UNCHANGED faults

-----------------------------------------------------------------------------
(* tick *)

\* What the ticks of K add to chainDepth.
Depth(K) == MapThenSumSet(LAMBDA k : tick[k].level, K)

\* Mutant: whoever comes drains.
NobodyDrains == TRUE

\* processingValidations
NoDrain == \A k \in Ticks : tick[k].at # "drains"

Due == {i \in ripe : validation[i] = "pending"}

\* Mutant: a chain that ends does not give back its depth.
EndsChained(k) ==
  IF Depth(Ticks) = 0 /\ NoDrain /\ Due # {}
    THEN tick' = [tick EXCEPT ![k] = [Off EXCEPT !.at = "drains"]] /\ todo' = [todo EXCEPT ![k] = Due]
    ELSE tick' = [tick EXCEPT ![k] = [Off EXCEPT !.level = tick[k].level]] /\ UNCHANGED todo

\* The nested calls return one after the other, and the outermost one drains, unless
\* another tick has a chain open, or drains.
Ends(k) ==
  IF Depth(Ticks \ {k}) = 0 /\ NoDrain /\ Due # {}
    THEN tick' = [tick EXCEPT ![k] = [Off EXCEPT !.at = "drains"]] /\ todo' = [todo EXCEPT ![k] = Due]
    ELSE tick' = [tick EXCEPT ![k] = Off] /\ UNCHANGED todo

\* One call of tick, with runs r and due experiments d: what is due is claimed at once, or
\* there is nothing to wait for.
Sweep(k, level, r, d) ==
  LET claimed == {e \in registered \cap d : r[e].at = "idle"} IN
  IF claimed # {}
    THEN /\ run' = [e \in Exps |-> IF e \in claimed THEN [r[e] EXCEPT !.at = "probe"] ELSE r[e]]
         /\ tick' = [tick EXCEPT ![k] = [at |-> "waits", waits |-> claimed, level |-> level]]
         /\ UNCHANGED todo
    ELSE run' = r /\ Ends(k)

\* setInterval
TickFires(k) ==
  /\ tick[k].at = "off"
  /\ Sweep(k, tick[k].level, run, due)
  /\ UNCHANGED <<registered, due, judging, rolling, rows, history>> /\ NoFault

-----------------------------------------------------------------------------
(* runOne *)

\* Once all it waited for is over, a tick sweeps again, but for the cap.
Chains(k, r, d) ==
  IF Depth(Ticks) < MaxChainDepth THEN Sweep(k, tick[k].level + 1, r, d) ELSE run' = r /\ Ends(k)

\* The run of e is over: its claim is released, it is due again in a while, and the tick
\* that waited for it last goes on.
RunEnds(e) ==
  LET freed == [run EXCEPT ![e] = IdleRun] IN
  /\ due' = due \ {e}
  /\ \/ \E k \in Ticks : tick[k].waits = {e} /\ Chains(k, freed, due \ {e})
     \/ /\ \A k \in Ticks : tick[k].waits # {e}
        /\ run' = freed /\ UNCHANGED todo
        /\ tick' = [k \in Ticks |-> [tick[k] EXCEPT !.waits = @ \ {e}]]

\* The probe, the judge or intervene throws, or there is nothing to change: a finding.
NoIntervention(e) ==
  /\ run[e].at = "probe"
  /\ RunEnds(e)
  /\ UNCHANGED <<registered, judging, rolling, rows, history>> /\ NoFault

\* setRuntimeConfig: the row is deleted and inserted, and the map set; an error the
\* database returns is not looked at.
Written(e, i) ==
  /\ cache' = [cache EXCEPT ![e] = i]
  /\ \/ table' = [table EXCEPT ![e] = i] /\ NoFault
     \/ table' \in {table, [table EXCEPT ![e] = NoId]} /\ Fault

Intervenes(e) ==
  /\ run[e].at = "probe" /\ made < MaxInterventions
  /\ made' = made + 1
  /\ author' = [author EXCEPT ![made + 1] = e]
  /\ Written(e, made + 1)
  /\ run' = [run EXCEPT ![e] = [at |-> "record", made |-> made + 1]]
  /\ UNCHANGED <<registered, due, tick, draining, validation, ripe, history>>

\* writeFinding and enqueueValidation; the run goes on without either.
Records(e) ==
  /\ run[e].at = "record"
  /\ \/ validation' = [validation EXCEPT ![run[e].made] = "pending"] /\ UNCHANGED excused /\ NoFault
     \/ excused' = excused \cup {run[e].made} /\ UNCHANGED validation /\ Fault
  /\ RunEnds(e)
  /\ UNCHANGED <<registered, judging, rolling, made, author, table, cache, ripe, judged>>

-----------------------------------------------------------------------------
(* processValidationQueue *)

Draining(k) == tick[k].at = "drains"
AtRest(k) == judging[k] = NoId /\ rolling[k] = NoId

\* The next validation (in any order); one whose experiment is gone is skipped.
TakesUp(k, i) ==
  /\ Draining(k) /\ AtRest(k) /\ i \in todo[k]
  /\ todo' = [todo EXCEPT ![k] = @ \ {i}]
  /\ IF author[i] \in registered
       THEN judging' = [judging EXCEPT ![k] = i] /\ UNCHANGED <<validation, excused>> /\ NoFault
       ELSE /\ UNCHANGED judging
            /\ \/ validation' = [validation EXCEPT ![i] = "skipped"] /\ UNCHANGED excused /\ NoFault
               \/ excused' = excused \cup {i} /\ UNCHANGED validation /\ Fault
  /\ UNCHANGED <<registered, running, rolling, made, author, table, cache, ripe, judged>>

\* validate(), or the probe once more: the row gets the outcome, and a failed one is rolled
\* back next, whether or not the row could be written.
Judges(k) ==
  LET i == judging[k] IN
  /\ Draining(k) /\ i # NoId
  /\ judging' = [judging EXCEPT ![k] = NoId]
  /\ judged' = [judged EXCEPT ![i] = IF @ < 2 THEN @ + 1 ELSE @]
  /\ \E outcome \in {"held", "inconclusive", "failed", "error"} :
       /\ rolling' = [rolling EXCEPT ![k] =
                        IF outcome = "failed" /\ author[i] \in CanRollBack THEN i ELSE NoId]
       /\ \/ validation' = [validation EXCEPT ![i] = outcome] /\ UNCHANGED excused /\ NoFault
          \/ excused' = excused \cup {i} /\ UNCHANGED validation /\ Fault
  /\ UNCHANGED <<registered, running, todo, made, author, table, cache, ripe>>

\* Mutant: the value that stood before the intervention is put back.
RolledBackTo(i) ==
  LET earlier == {j \in Ids : j < i /\ author[j] = author[i]}
  IN  IF earlier = {} THEN NoId ELSE Max(earlier)

\* rollback() deletes the override, whatever stood before it.
Restored(i) == NoId

\* rollback(), then its row; it may throw, and an error of the database is not looked at.
RollsBack(k) ==
  LET i == rolling[k] e == author[rolling[k]] IN
  /\ Draining(k) /\ i # NoId
  /\ rolling' = [rolling EXCEPT ![k] = NoId]
  /\ \/ /\ table' = [table EXCEPT ![e] = Restored(i)] /\ cache' = [cache EXCEPT ![e] = Restored(i)]
        /\ UNCHANGED excused /\ NoFault
     \/ /\ cache' \in {cache, [cache EXCEPT ![e] = Restored(i)]}
        /\ excused' = excused \cup {i} /\ UNCHANGED table /\ Fault
  /\ UNCHANGED <<registered, running, todo, judging, made, author, validation, ripe, judged>>

DrainEnds(k) ==
  /\ Draining(k) /\ AtRest(k) /\ todo[k] = {}
  /\ tick' = [tick EXCEPT ![k] = Off]
  /\ UNCHANGED <<registered, due, run, draining, rows, history>> /\ NoFault

-----------------------------------------------------------------------------
(* Time and the process *)

ComesDue(e) ==
  /\ e \notin due /\ due' = due \cup {e}
  /\ UNCHANGED <<registered, run, tick, draining, rows, history>> /\ NoFault

Ripens(i) ==
  /\ validation[i] = "pending" /\ i \notin ripe /\ ripe' = ripe \cup {i}
  /\ UNCHANGED <<registered, running, draining, made, author, table, cache, validation, history>>
  /\ NoFault

\* refreshRuntimeConfigCache, once a minute.
Refreshes ==
  /\ cache # table /\ cache' = table
  /\ UNCHANGED <<registered, running, draining, made, author, table, validation, ripe, history>>
  /\ NoFault

\* The daemon ends and starts again: not every experiment need be there, and
\* rehydrateSchedule reads from the findings what is due.
Restarts ==
  /\ Fault
  /\ registered' \in SUBSET Exps /\ due' \in SUBSET Exps
  /\ run' = [e \in Exps |-> IdleRun] /\ tick' = [k \in Ticks |-> Off]
  /\ todo' = [k \in Ticks |-> {}]
  /\ judging' = [k \in Ticks |-> NoId] /\ rolling' = [k \in Ticks |-> NoId]
  /\ cache' = table
  /\ excused' = (excused \cup {run[e].made : e \in Exps}
                  \cup {judging[k] : k \in Ticks} \cup {rolling[k] : k \in Ticks}) \ {NoId}
  /\ UNCHANGED <<made, author, table, validation, ripe, judged>>

-----------------------------------------------------------------------------
Next ==
  \/ \E k \in Ticks : TickFires(k) \/ Judges(k) \/ RollsBack(k) \/ DrainEnds(k)
  \/ \E k \in Ticks, i \in Ids : TakesUp(k, i)
  \/ \E e \in Exps : NoIntervention(e) \/ ComesDue(e)
  \/ \E e \in Tuners : Intervenes(e) \/ Records(e)
  \/ \E i \in Ids : Ripens(i)
  \/ Refreshes \/ Restarts

Spec == Init /\ [][Next]_vars

\* The interval fires; probes, validators and rollbacks end.
Fairness ==
  /\ WF_vars(\E k \in Ticks : TickFires(k))
  /\ \A k \in Ticks :
       /\ WF_vars(Judges(k)) /\ WF_vars(RollsBack(k)) /\ WF_vars(DrainEnds(k))
       /\ WF_vars(\E i \in Ids : TakesUp(k, i))
  /\ \A e \in Exps : WF_vars(NoIntervention(e)) /\ WF_vars(Records(e))

FairSpec == Spec /\ Fairness

-----------------------------------------------------------------------------
(* Properties *)

\* A validator answers once for an intervention, however ticks overlap ("two overlapping
\* ticks both calling processValidationQueue() would race"), unless the row of the
\* answer could not be written or the daemon ended in between.
JudgedOnce == \A i \in Ids : judged[i] > 1 => i \in excused

\* No override stays in force that was never to be judged, or was judged to have failed:
\* neither the next intervention of the experiment, nor the roll-back of an earlier or a
\* later one, nor a refresh of the cache brings it back.
NoFailedOverrideInForce ==
  \A e \in Exps, i \in Ids \ excused :
    i \in {table[e], cache[e]} =>
      /\ validation[i] = "none" => run[e].made = i
      /\ validation[i] = "failed" /\ e \in CanRollBack => \E k \in Ticks : rolling[k] = i

\* A tick is open while another one holds the depth above zero.
Overlap ==
  \E k, u \in Ticks : k # u /\ tick[k].at = "waits" /\ tick[k].level > 0 /\ tick[u].at # "off"

\* A validation that is due is taken up and settled, unless ticks whose chains
\* overlap go on for ever, each leaving the drain to the other.
DueValidationsAreJudged == []<>Overlap \/ \A i \in Ids : i \in Due ~> i \notin Due
=============================================================================

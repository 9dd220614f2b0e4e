-------------------------- MODULE Schedulers_proofs --------------------------
(***************************************************************************)
(* Theorems of the timers of the daemon: the conductor's loop, the cron     *)
(* scheduler with its cap on chains, and the two schedulers that act on the *)
(* ledger of approvals.  Each is a specification of its own; what they      *)
(* share is the arithmetic of counts, ranks and least numbers that comes    *)
(* first.                                                                  *)
(***************************************************************************)
EXTENDS ConductorLoop, Scheduler, Approvals, FiniteSetTheorems, SequenceTheorems, TLAPS

-----------------------------------------------------------------------------
(* Least numbers, images and ranks *)

LEMMA LeastNumber ==
  ASSUME NEW S, S \subseteq Nat, S # {}
  PROVE  \E m \in S : \A n \in S : m <= n
  <1>1. PICK m \in S : \A n \in S : ~(<<n, m>> \in OpToRel(<, Nat))
    BY WFMin, NatLessThanWellFounded, Zenon
  <1>2. \A n \in S : ~(n < m)
    BY <1>1, Zenon DEF OpToRel
  <1> QED
    BY <1>2

LEMMA MinFacts ==
  ASSUME NEW S, S \subseteq Nat, S # {}
  PROVE  Min(S) \in S /\ \A n \in S : Min(S) <= n
  <1>1. \E m \in S : \A n \in S : m <= n
    BY LeastNumber
  <1> QED
    BY <1>1, Zenon DEF Min

LEMMA GreatestNumber ==
  ASSUME NEW S, S \subseteq Nat, S # {}, NEW b \in Nat, \A n \in S : n <= b
  PROVE  \E m \in S : \A n \in S : n <= m
  <1> DEFINE B == {k \in 0..b : \A n \in S : n <= k}
  <1>1. B \subseteq Nat /\ b \in B
    OBVIOUS
  <1>2. PICK m \in B : \A n \in B : m <= n
    BY <1>1, LeastNumber
  <1>3. m \in S
    <2> SUFFICES ASSUME m \notin S PROVE FALSE
      OBVIOUS
    <2>1. PICK n \in S : TRUE
      OBVIOUS
    <2>2. m \in 0..b /\ n \in Nat /\ n <= m /\ n # m
      BY <1>2, <2>1
    <2>3. m - 1 \in 0..b
      BY <2>2
    <2>4. \A i \in S : i <= m - 1
      BY <1>2, <2>2
    <2>5. m - 1 \in B
      BY <2>3, <2>4
    <2> QED
      BY <1>2, <2>2, <2>5
  <1> QED
    BY <1>2, <1>3

LEMMA ImageIsNoLarger ==
  ASSUME NEW S, IsFiniteSet(S), NEW f, DOMAIN f = S, f = [x \in S |-> f[x]]
  PROVE  /\ IsFiniteSet({f[x] : x \in S})
         /\ Cardinality({f[x] : x \in S}) <= Cardinality(S)
  <1>1. f \in Surjection(S, {f[x] : x \in S})
    BY DEF Surjection
  <1> QED
    BY <1>1, FS_Surjection, Zenon

\* Every rank among finitely many numbers is somebody's.
LEMMA RankIsHeld ==
  ASSUME NEW n \in Nat, NEW F \in SUBSET (1..n), NEW i \in 1..Cardinality(F)
  PROVE  \E k \in F : Cardinality({j \in F : j <= k}) = i
  <1> DEFINE upto(k) == {j \in F : j <= k}
             f == [k \in F |-> Cardinality(upto(k))]
  <1>1. IsFiniteSet(F) /\ Cardinality(F) \in Nat
    <2>1. IsFiniteSet(1..n)
      BY FS_Interval
    <2> QED
      BY <2>1, FS_Subset, FS_CardinalityType
  <1>2. \A k \in F : /\ IsFiniteSet(upto(k)) /\ Cardinality(upto(k)) \in 1..Cardinality(F)
    <2> TAKE k \in F
    <2>1. upto(k) \subseteq F /\ k \in upto(k)
      OBVIOUS
    <2>2. IsFiniteSet(upto(k)) /\ Cardinality(upto(k)) <= Cardinality(F)
      BY <1>1, <2>1, FS_Subset
    <2>3. Cardinality(upto(k)) \in Nat /\ Cardinality(upto(k)) # 0
      <3> HIDE DEF upto
      <3> QED
        BY <2>1, <2>2, FS_CardinalityType, FS_EmptySet
    <2> QED
      BY <1>1, <2>2, <2>3
  <1>3. \A k, l \in F : k < l => Cardinality(upto(k)) # Cardinality(upto(l))
    <2> SUFFICES ASSUME NEW k \in F, NEW l \in F, k < l
                 PROVE  Cardinality(upto(k)) # Cardinality(upto(l))
      OBVIOUS
    <2>1. F \subseteq Nat /\ k \in Nat /\ l \in Nat /\ ~(l <= k)
      OBVIOUS
    <2>2. l \in upto(l) /\ l \notin upto(k)
      BY <2>1
    <2>3. upto(k) \subseteq upto(l)
      <3>1. \A j \in F : j <= k => j <= l
        BY <2>1
      <3> QED
        BY <3>1, Zenon
    <2> HIDE DEF upto
    <2>4. upto(k) # upto(l) /\ upto(k) \in SUBSET upto(l) /\ IsFiniteSet(upto(l))
      BY <1>2, <2>2, <2>3
    <2> QED
      BY <2>4, FS_Subset, Zenon
  <1>4. \A k, l \in F : f[k] = f[l] => k = l
    <2> SUFFICES ASSUME NEW k \in F, NEW l \in F, k # l PROVE f[k] # f[l]
      OBVIOUS
    <2>1. k < l \/ l < k
      OBVIOUS
    <2> HIDE DEF upto
    <2> QED
      BY <1>3, <2>1
  <1>5. f \in Injection(F, 1..Cardinality(F))
    <2> HIDE DEF upto
    <2>1. f \in [F -> 1..Cardinality(F)]
      BY <1>2
    <2> HIDE DEF f
    <2> QED
      BY <1>4, <2>1 DEF Injection, IsInjective
  <1>6. IsFiniteSet(1..Cardinality(F)) /\ Cardinality(1..Cardinality(F)) = Cardinality(F)
    BY <1>1, FS_Interval
  <1>7. f \in Surjection(F, 1..Cardinality(F))
    <2> HIDE DEF f
    <2> QED
      BY <1>5, <1>6, FS_Injection, Zenon
  <1>8. PICK k \in F : f[k] = i
    <2> HIDE DEF f
    <2> QED
      BY <1>7 DEF Surjection
  <1> QED
    BY <1>8

-----------------------------------------------------------------------------
(* The loop of the conductor *)

LoopInv == TypeOK /\ OneTickAtATime

\* A tick is started only when none is in flight, and then one body runs; this is where
\* tickOnce looks at the promise.
LEMMA LoopOneStart ==
  ASSUME LoopInv, TickOnce
  PROVE  /\ inflight' \in BOOLEAN /\ arcRan' \in BOOLEAN
         /\ sinceStart' \in 0..Debounce /\ bodies' \in Nat
         /\ OneTickAtATime'
  <1> USE LoopAssumption DEF LoopInv, TypeOK, OneTickAtATime, tick
  <1>1. CASE stopped \/ inflight
    BY <1>1 DEF TickOnce
  <1>2. CASE ~(stopped \/ inflight)
    <2>1. StartTick /\ bodies = 0
      BY <1>2 DEF TickOnce
    <2>2. inflight' \in BOOLEAN /\ arcRan' \in BOOLEAN /\ inflight'
      BY <2>1, Zenon DEF StartTick
    <2>3. sinceStart' \in 0..Debounce /\ bodies' \in Nat /\ bodies' <= 1 /\ bodies' = 1
      BY <2>1, SMT DEF StartTick
    <2> QED
      BY <2>2, <2>3, Zenon
  <1> QED
    BY <1>1, <1>2

LEMMA LoopInit == ASSUME Init PROVE LoopInv
  <1>1. stopped \in BOOLEAN /\ inflight \in BOOLEAN /\ arcRan \in BOOLEAN
    BY Zenon DEF Init
  <1>2. untilDue \in 0..Interval /\ sinceStart \in 0..Debounce /\ bodies \in Nat
    BY LoopAssumption, SMT DEF Init
  <1>3. bodies <= 1 /\ bodies # 1
    BY SMT DEF Init
  <1>4. ~inflight
    BY Zenon DEF Init
  <1> QED
    BY <1>1, <1>2, <1>3, <1>4, Zenon DEF LoopInv, TypeOK, OneTickAtATime

LEMMA LoopStep == ASSUME LoopInv, [Next]_vars PROVE LoopInv'
  <1> USE LoopAssumption
  <1>1. CASE TimerFires
    <2>1. TickOnce /\ untilDue' = Interval /\ UNCHANGED stopped
      BY <1>1 DEF TimerFires
    <2> QED
      BY <2>1, LoopOneStart DEF LoopInv, TypeOK
  <1>2. CASE OutsideRequest
    <2>1. UNCHANGED <<untilDue, stopped>> /\ (UNCHANGED tick \/ TickOnce)
      BY <1>2 DEF OutsideRequest
    <2>2. CASE UNCHANGED tick
      BY <2>1, <2>2 DEF LoopInv, TypeOK, OneTickAtATime, tick
    <2>3. CASE TickOnce
      BY <2>1, <2>3, LoopOneStart DEF LoopInv, TypeOK
    <2> QED
      BY <2>1, <2>2, <2>3
  <1>3. CASE ArcCloses
    <2>1. CASE Dropped
      BY <1>3, <2>1 DEF ArcCloses, LoopInv, TypeOK, OneTickAtATime
    <2>2. CASE ~Dropped
      <3>1. TickOnce /\ UNCHANGED <<untilDue, stopped>>
        BY <1>3, <2>2 DEF ArcCloses
      <3> QED
        BY <3>1, LoopOneStart DEF LoopInv, TypeOK
    <2> QED
      BY <2>1, <2>2
  <1>4. CASE TickEnds
    <2>1. bodies' \in Nat /\ bodies' <= 1 /\ bodies' # 1
      BY <1>4, SMT DEF TickEnds, LoopInv, TypeOK, OneTickAtATime
    <2>2. ~inflight' /\ inflight' \in BOOLEAN
      BY <1>4, Zenon DEF TickEnds
    <2>3. UNCHANGED <<untilDue, stopped, sinceStart, arcRan>>
      BY <1>4 DEF TickEnds
    <2>4. TypeOK'
      BY <2>1, <2>2, <2>3 DEF LoopInv, TypeOK
    <2> QED
      BY <2>1, <2>2, <2>4, Zenon DEF LoopInv, OneTickAtATime
  <1>5. CASE Stop
    BY <1>5 DEF Stop, tick, LoopInv, TypeOK, OneTickAtATime
  <1>6. CASE Pass
    BY <1>6 DEF Pass, LoopInv, TypeOK, OneTickAtATime
  <1>7. CASE UNCHANGED vars
    BY <1>7 DEF vars, LoopInv, TypeOK, OneTickAtATime
  <1> QED
    BY <1>1, <1>2, <1>3, <1>4, <1>5, <1>6, <1>7 DEF Next

\* Two bodies never overlap, and the promise of a tick is held exactly while its body runs.
THEOREM LoopSafety == Spec => [](TypeOK /\ OneTickAtATime)
  <1>1. Init => LoopInv
    BY LoopInit
  <1>2. LoopInv /\ [Next]_vars => LoopInv'
    BY LoopStep
  <1> QED
    BY <1>1, <1>2, PTL DEF Spec, LoopInv

-----------------------------------------------------------------------------
\* The step that starts a tick is one that starts it through tickOnce, not stopped.
LEMMA LoopStarts ==
  ASSUME LoopInv, [Next]_vars, Starts
  PROVE  /\ ~stopped
         /\ TimerFires \/ ~Dropped
  <1> USE DEF LoopInv, TypeOK, OneTickAtATime, Starts
  <1>1. CASE TimerFires
    BY <1>1 DEF TimerFires
  <1>2. CASE OutsideRequest
    BY <1>2 DEF OutsideRequest, Dropped, tick
  <1>3. CASE ArcCloses
    BY <1>3 DEF ArcCloses, Dropped
  <1>4. CASE TickEnds
    BY <1>4 DEF TickEnds
  <1>5. CASE Stop
    BY <1>5 DEF Stop, tick
  <1>6. CASE Pass
    BY <1>6 DEF Pass
  <1>7. CASE UNCHANGED vars
    BY <1>7 DEF vars
  <1> QED
    BY <1>1, <1>2, <1>3, <1>4, <1>5, <1>6, <1>7 DEF Next

\* After stop, or the abort signal, no tick starts on any path.
THEOREM Stopped == Spec => NothingStartsAfterStop
  <1>1. LoopInv /\ [Next]_vars => (stopped => ~Starts)
    BY LoopStarts
  <1>2. Spec => []LoopInv
    BY LoopSafety, PTL DEF LoopInv
  <1> QED
    BY <1>1, <1>2, PTL DEF Spec, NothingStartsAfterStop

\* A request starts no tick within the debounce window, whoever makes it.
THEOREM Spaced == Spec => RequestsAreSpaced
  <1>1. LoopInv /\ [Next]_vars => (Starts /\ UNCHANGED untilDue => sinceStart >= Debounce)
    <2> SUFFICES ASSUME LoopInv, [Next]_vars, Starts, UNCHANGED untilDue
                 PROVE  sinceStart >= Debounce
      OBVIOUS
    <2>1. ~TimerFires
      BY LoopAssumption DEF TimerFires
    <2>2. ~Dropped
      BY <2>1, LoopStarts
    <2> QED
      BY <2>2, LoopAssumption DEF Dropped, LoopInv, TypeOK
  <1>2. Spec => []LoopInv
    BY LoopSafety, PTL DEF LoopInv
  <1> QED
    BY <1>1, <1>2, PTL DEF Spec, RequestsAreSpaced

-----------------------------------------------------------------------------
(* The cron scheduler *)

CronInv == CronTypeOK /\ CapIsKept /\ OnlyTheCapSpins

LEMMA CronFinite ==
  /\ IsFiniteSet(Autos) /\ IsFiniteSet(Chains)
  /\ Len(Crons) \in Nat /\ DOMAIN Crons = 1..Len(Crons)
  /\ \A k \in 1..Len(Crons) : Crons[k] \in Autos
  /\ Cap \in Nat \ {0} /\ Heartbeat \in Nat \ {0}
  <1>1. Cap \in Nat \ {0} /\ Heartbeat \in Nat \ {0}
    BY SchedulerAssumption
  <1>2. Crons \in Seq(Autos)
    BY SchedulerAssumption DEF Autos
  <1>3. Len(Crons) \in Nat /\ DOMAIN Crons = 1..Len(Crons)
        /\ \A k \in 1..Len(Crons) : Crons[k] \in Autos
    BY <1>2
  <1>4. IsFiniteSet(DOMAIN Crons)
    BY <1>3, FS_Interval
  <1>5. Crons \in Surjection(DOMAIN Crons, Autos)
    <2>1. Crons \in [DOMAIN Crons -> Autos]
      BY <1>2, <1>3
    <2>2. \A t \in Autos : \E k \in DOMAIN Crons : Crons[k] = t
      BY DEF Autos, Range
    <2> QED
      BY <2>1, <2>2, Zenon DEF Surjection
  <1>6. IsFiniteSet(Autos)
    BY <1>4, <1>5, FS_Surjection
  <1>7. IsFiniteSet(1..Cap)
    BY <1>1, FS_Interval
  <1>8. IsFiniteSet(Chains)
    BY <1>6, <1>7, FS_Product DEF Chains
  <1> QED
    BY <1>1, <1>3, <1>6, <1>8

LEMMA TickedFinite == ASSUME CronTypeOK PROVE IsFiniteSet(ticked) /\ Cardinality(ticked) \in Nat
  <1>1. IsFiniteSet(ticked)
    BY CronFinite, FS_Subset DEF CronTypeOK
  <1> QED
    BY <1>1, FS_CardinalityType

LEMMA AheadFinite ==
  ASSUME NEW k \in 1..Len(Crons)
  PROVE  IsFiniteSet(Ahead(k)) /\ Cardinality(Ahead(k)) \in Nat
  <1>1. k \in Int /\ Ahead(k) \subseteq 1..(k - 1)
    BY CronFinite DEF Ahead
  <1>2. IsFiniteSet(1..(k - 1))
    BY <1>1, FS_Interval
  <1> QED
    BY <1>1, <1>2, FS_Subset, FS_CardinalityType

\* While there is room the tick starts the first that is due.
LEMMA RoomIsUsed ==
  ASSUME CronTypeOK, ~Full, NEW t \in Autos, due[t]
  PROVE  Dispatched # {}
  <1> DEFINE D == {k \in 1..Len(Crons) : due[Crons[k]]}
  <1>1. D # {} /\ D \subseteq Nat
    <2>1. PICK k \in DOMAIN Crons : Crons[k] = t
      BY DEF Autos, Range
    <2> QED
      BY <2>1, CronFinite
  <1>2. PICK k \in D : \A n \in D : k <= n
    BY <1>1, LeastNumber
  <1>3. Ahead(k) = {}
    BY <1>2, CronFinite DEF Ahead
  <1>4. Cardinality(ticked) + Cardinality(Ahead(k)) < Cap
    BY <1>3, FS_EmptySet, TickedFinite, CronFinite DEF Full
  <1>5. Crons[k] \in Dispatched
    BY <1>2, <1>4, CronFinite DEF Dispatched
  <1> QED
    BY <1>5

\* A tick starts no more than there is room for: the last it starts saw all the others ahead.
LEMMA RoomIsEnough ==
  ASSUME CronTypeOK, CapIsKept
  PROVE  /\ IsFiniteSet(Dispatched) /\ Dispatched \subseteq Autos
         /\ Cardinality(Dispatched) \in Nat
         /\ Cardinality(ticked) + Cardinality(Dispatched) <= Cap
  <1> DEFINE D == {k \in 1..Len(Crons) :
                     due[Crons[k]] /\ Cardinality(ticked) + Cardinality(Ahead(k)) < Cap}
             f == [k \in D |-> Crons[k]]
  <1>1. Dispatched = {f[k] : k \in D} /\ Dispatched \subseteq Autos
    BY CronFinite DEF Dispatched
  <1>2. IsFiniteSet(1..Len(Crons)) /\ D \subseteq 1..Len(Crons)
    BY CronFinite, FS_Interval
  <1>3. IsFiniteSet(D)
    BY <1>2, FS_Subset
  <1>4. IsFiniteSet(Dispatched) /\ Cardinality(Dispatched) <= Cardinality(D)
    <2>1. DOMAIN f = D /\ f = [k \in D |-> f[k]]
      OBVIOUS
    <2> HIDE DEF f, D
    <2> QED
      BY <1>1, <1>3, <2>1, ImageIsNoLarger
  <1>5. Cardinality(D) \in Nat /\ Cardinality(Dispatched) \in Nat
    BY <1>3, <1>4, FS_CardinalityType
  <1>6. CASE D = {}
    <2>1. Cardinality(D) = 0
      BY <1>6, FS_EmptySet
    <2> HIDE DEF D, f
    <2> QED
      BY <1>1, <1>4, <1>5, <2>1, TickedFinite, CronFinite DEF CapIsKept
  <1>7. CASE D # {}
    <2>1. PICK m \in D : \A k \in D : k <= m
      <3>1. D \subseteq Nat /\ Len(Crons) \in Nat /\ \A k \in D : k <= Len(Crons)
        BY CronFinite
      <3> HIDE DEF D
      <3> QED
        BY <1>7, <3>1, GreatestNumber
    <2>2. D \subseteq Ahead(m) \cup {m}
      BY <2>1, CronFinite DEF Ahead
    <2>3. IsFiniteSet(Ahead(m)) /\ Cardinality(Ahead(m)) \in Nat
      BY <2>1, AheadFinite
    <2>4. /\ IsFiniteSet(Ahead(m) \cup {m})
          /\ Cardinality(Ahead(m) \cup {m}) \in Nat
          /\ Cardinality(Ahead(m) \cup {m}) <= Cardinality(Ahead(m)) + 1
      <3>1. /\ IsFiniteSet(Ahead(m) \cup {m})
            /\ Cardinality(Ahead(m) \cup {m}) = IF m \in Ahead(m) THEN Cardinality(Ahead(m))
                                                ELSE Cardinality(Ahead(m)) + 1
        BY <2>3, FS_AddElement, Zenon
      <3>2. Cardinality(Ahead(m) \cup {m}) <= Cardinality(Ahead(m)) + 1
        BY <2>3, <3>1
      <3> QED
        BY <3>1, <3>2, FS_CardinalityType
    <2>5. Cardinality(D) <= Cardinality(Ahead(m) \cup {m})
      <3> HIDE DEF D
      <3> QED
        BY <2>2, <2>4, FS_Subset
    <2>6. Cardinality(ticked) + Cardinality(Ahead(m)) < Cap
      BY <2>1
    <2> HIDE DEF D
    <2> QED
      BY <1>1, <1>4, <1>5, <2>3, <2>4, <2>5, <2>6, TickedFinite, CronFinite
  <1> QED
    BY <1>1, <1>4, <1>5, <1>6, <1>7

\* A new chain has a number no chain of its cron has.
LEMMA NewChainIsNew ==
  ASSUME CronTypeOK, ~Full, NEW t \in Autos
  PROVE  NewChain(t) \in Chains /\ NewChain(t) \notin ticked /\ NewChain(t)[1] = t
  <1> SUFFICES \E n \in 1..Cap : <<t, n>> \notin ticked
    BY Zenon DEF NewChain, Chains
  <1> SUFFICES ASSUME \A n \in 1..Cap : <<t, n>> \in ticked PROVE FALSE
    OBVIOUS
  <1> DEFINE f == [n \in 1..Cap |-> <<t, n>>]
  <1>1. f \in Injection(1..Cap, ticked)
    BY DEF Injection, IsInjective
  <1>2. IsFiniteSet(ticked) /\ Cardinality(ticked) \in Nat
    BY TickedFinite
  <1> HIDE DEF f
  <1>3. Cardinality(1..Cap) <= Cardinality(ticked)
    BY <1>1, <1>2, FS_Injection
  <1>4. Cardinality(1..Cap) = Cap
    <2>1. Cap \in Int /\ Cap >= 1
      BY SchedulerAssumption
    <2>2. \A n \in Nat \ {0} : Cardinality(1..n) = n
      BY FS_Interval
    <2> QED
      BY <2>1, <2>2
  <1> QED
    BY <1>2, <1>3, <1>4, CronFinite DEF Full

\* What recalculate arms: at most the heartbeat away, and at once only for something due.
LEMMA DelaysFacts ==
  ASSUME CronTypeOK, NEW before, NEW after, NEW d \in Delays(before, after)
  PROVE  /\ d \in 0..Heartbeat \cup {Off}
         /\ (\A t \in Timed : ~before[t] /\ ~after[t]) => d # 0
  <1> DEFINE W == {wait[t] : t \in Timed} \cup {Heartbeat}
  <1>1. W \subseteq Nat \ {0} /\ Heartbeat \in W /\ Heartbeat \in Nat
    <2>1. \A t \in Timed : Period[t] \in Nat /\ wait[t] \in 1..Period[t]
      BY SchedulerAssumption DEF CronTypeOK, Timed, Autos
    <2> QED
      BY <2>1, CronFinite
  <1>2. Min(W) \in W /\ Min(W) <= Heartbeat
    <2> HIDE DEF W
    <2>1. W \subseteq Nat /\ W # {}
      BY <1>1
    <2> QED
      BY <1>1, <2>1, MinFacts
  <1>3. Min(W) \in 0..Heartbeat /\ Min(W) # 0
    BY <1>1, <1>2
  <1>4. Off \notin Nat
    BY SchedulerAssumption
  <1>5. PICK e \in {[t \in Timed |-> IF t \in seen THEN before[t] ELSE after[t]] :
                      seen \in SUBSET Autos} :
          d = IF Timed = {} THEN Off
              ELSE IF \E t \in Timed : e[t] THEN 0 ELSE Min(W)
    BY Zenon DEF Delays
  <1>6. (\A t \in Timed : ~before[t] /\ ~after[t]) => ~ \E t \in Timed : e[t]
    BY <1>5
  <1>7. 0 \in 0..Heartbeat /\ 0 \in Nat
    BY <1>1
  <1> HIDE DEF W
  <1> QED
    BY <1>3, <1>4, <1>5, <1>6, <1>7

\* Only what fires is marked.
LEMMA MarkedFacts ==
  ASSUME NEW d \in [Timed -> BOOLEAN], NEW fired, NEW m \in Marked(d, fired)
  PROVE  m \in [Timed -> BOOLEAN] /\ \A t \in Timed : d[t] /\ ~m[t] => t \in fired
  <1>1. PICK lost \in SUBSET (fired \cap Unmarked) :
          m = [t \in Timed |-> d[t] /\ t \notin fired \ lost]
    BY DEF Marked
  <1> QED
    BY <1>1

\* What a tick does: the automations it starts are marked, and each has a chain more.
LEMMA TickFacts ==
  ASSUME CronTypeOK, CapIsKept, NEW armed \in 0..Heartbeat \cup {Off}, Tick(armed)
  PROVE  /\ due' \in [Timed -> BOOLEAN]
         /\ ticked' \subseteq Chains /\ Cardinality(ticked') <= Cap
         /\ timer' \in 0..Heartbeat \cup {Off}
         /\ \A t \in Autos : due[t] /\ ~due'[t] => ChainsOf(t)' # ChainsOf(t)
  <1>1. due \in [Timed -> BOOLEAN] /\ ticked \subseteq Chains /\ timer \in 0..Heartbeat \cup {Off}
        /\ Heartbeat \in Nat
    BY CronFinite DEF CronTypeOK
  <1>2. CASE gate /\ DeferredForHeartbeat /\ UNCHANGED <<due, ticked>>
    BY <1>1, <1>2 DEF CapIsKept, DeferredForHeartbeat
  <1>3. CASE /\ ~gate
             /\ due' \in Marked(due, Fired)
             /\ ticked' = ticked \cup {NewChain(t) : t \in Dispatched}
             /\ Recalculated(due, due', armed)
    <2> DEFINE f == [t \in Dispatched |-> NewChain(t)]
    <2>1. due' \in [Timed -> BOOLEAN] /\ \A t \in Timed : due[t] /\ ~due'[t] => t \in Fired
      BY <1>1, <1>3, MarkedFacts
    <2>2. timer' \in 0..Heartbeat \cup {Off}
      BY <1>1, <1>3, DelaysFacts DEF Recalculated
    <2>3. /\ IsFiniteSet(Dispatched) /\ Dispatched \subseteq Autos
          /\ Cardinality(Dispatched) \in Nat
          /\ Cardinality(ticked) + Cardinality(Dispatched) <= Cap
      BY RoomIsEnough
    <2>4. IsFiniteSet(ticked) /\ Cardinality(ticked) \in Nat
      BY TickedFinite
    <2>5. Dispatched # {} => ~Full
      <3>1. ASSUME Dispatched # {} PROVE Cardinality(Dispatched) # 0
        BY <2>3, <3>1, FS_EmptySet
      <3> QED
        BY <2>3, <2>4, <3>1, CronFinite DEF Full
    <2>6. \A t \in Dispatched : /\ NewChain(t) \in Chains /\ NewChain(t) \notin ticked
                                /\ NewChain(t)[1] = t
      BY <2>3, <2>5, NewChainIsNew
    <2>7. ticked' \subseteq Chains
      BY <1>1, <1>3, <2>6
    <2>8. Cardinality(ticked') <= Cap
      <3> DEFINE N == {NewChain(t) : t \in Dispatched}
      <3>1. /\ N = {f[t] : t \in Dispatched} /\ DOMAIN f = Dispatched
            /\ f = [t \in Dispatched |-> f[t]]
        OBVIOUS
      <3> HIDE DEF f, N
      <3>2. IsFiniteSet(N) /\ Cardinality(N) <= Cardinality(Dispatched)
        BY <2>3, <3>1, ImageIsNoLarger
      <3>3. Cardinality(N) \in Nat
        BY <3>2, FS_CardinalityType
      <3>4. /\ IsFiniteSet(ticked \cap N)
            /\ Cardinality(ticked \cup N) =
                 Cardinality(ticked) + Cardinality(N) - Cardinality(ticked \cap N)
        BY <2>4, <3>2, FS_Union, FS_Subset
      <3>5. Cardinality(ticked \cap N) \in Nat
        BY <3>4, FS_CardinalityType
      <3>6. ticked' = ticked \cup N
        BY <1>3 DEF N
      <3> QED
        BY <2>3, <2>4, <3>2, <3>3, <3>4, <3>5, <3>6, CronFinite
    <2>9. ASSUME NEW t \in Autos, due[t], ~due'[t] PROVE ChainsOf(t)' # ChainsOf(t)
      <3>1. t \in Dispatched
        BY <2>1, <2>9, SchedulerAssumption DEF Fired, Timed, Autos
      <3>2. NewChain(t) \in ticked' /\ NewChain(t) \notin ticked /\ NewChain(t)[1] = t
        BY <1>3, <2>6, <3>1
      <3>3. NewChain(t) \in ChainsOf(t)' /\ NewChain(t) \notin ChainsOf(t)
        BY <3>2, Zenon DEF ChainsOf
      <3> QED
        BY <3>3
    <2> QED
      BY <2>1, <2>2, <2>7, <2>8, <2>9
  <1> QED
    BY <1>2, <1>3 DEF Tick

\* A tick of the timer that fired nothing was full, or arms it for later.
LEMMA NoSpin ==
  ASSUME CronTypeOK, Tick(Off), gate \/ Fired = {}, ~Full
  PROVE  timer' # 0
  <1>1. Heartbeat \in Nat \ {0} /\ Off \notin Nat /\ due \in [Timed -> BOOLEAN]
    BY CronFinite, SchedulerAssumption DEF CronTypeOK
  <1>2. CASE gate
    BY <1>1, <1>2 DEF Tick, DeferredForHeartbeat
  <1>3. CASE ~gate
    <2>1. due' \in Marked(due, Fired) /\ Recalculated(due, due', Off) /\ Fired = {}
      BY <1>3 DEF Tick
    <2>2. \A t \in Timed : ~due[t]
      BY <2>1, RoomIsUsed DEF Fired, Timed
    <2>3. \A t \in Timed : ~due'[t]
      BY <2>1, <2>2 DEF Marked
    <2>4. timer' \in Delays(due, due') \cup {Off}
      BY <2>1 DEF Recalculated
    <2>5. CASE timer' = Off
      BY <1>1, <2>5
    <2>6. CASE timer' \in Delays(due, due')
      <3>1. PICK d \in Delays(due, due') : timer' = d
        BY <2>6
      <3> QED
        BY <2>2, <2>3, <3>1, DelaysFacts
    <2> QED
      BY <2>4, <2>5, <2>6
  <1> QED
    BY <1>2, <1>3

LEMMA CronStarts == CronInit => CronInv
  <1> SUFFICES ASSUME CronInit PROVE CronInv
    OBVIOUS
  <1>1. Cardinality(ticked) = 0
    BY FS_EmptySet DEF CronInit
  <1>2. Period \in [Timed -> Nat \ {0}] /\ MaxByHand \in Nat /\ Boots \in Nat
    BY SchedulerAssumption DEF Timed, Autos
  <1>3. /\ {running, imported, gate, spun} \subseteq BOOLEAN
        /\ timer \in 0..Heartbeat \cup {Off} /\ handle \in Beats \cup {0}
    BY DEF CronInit
  <1>4. booting \in 0..Boots /\ beat \in [Beats -> 0..Heartbeat \cup {Off}]
    BY <1>2 DEF CronInit
  <1>5. due \in [Timed -> BOOLEAN] /\ byHand \in [Autos -> 0..MaxByHand] /\ ticked \subseteq Chains
    BY <1>2 DEF CronInit
  <1>6. \A t \in Timed : wait[t] \in 1..Period[t]
    BY <1>2 DEF CronInit
  <1>7. CronTypeOK
    BY <1>3, <1>4, <1>5, <1>6 DEF CronTypeOK
  <1> QED
    BY <1>1, <1>7, CronFinite DEF CronInit, CronInv, CapIsKept, OnlyTheCapSpins

\* What every step that ticks has in common.
LEMMA Ticked ==
  ASSUME CronInv, NEW armed \in 0..Heartbeat \cup {Off}, Tick(armed),
         UNCHANGED <<gate, wait, byHand>>, spun' = FALSE,
         running' \in BOOLEAN, imported' \in BOOLEAN, booting' \in 0..Boots,
         beat' \in [Beats -> 0..Heartbeat \cup {Off}], handle' \in Beats \cup {0}
  PROVE  CronInv'
  <1>1. CronTypeOK /\ CapIsKept
    BY DEF CronInv
  <1>2. /\ due' \in [Timed -> BOOLEAN]
        /\ ticked' \subseteq Chains /\ Cardinality(ticked') <= Cap
        /\ timer' \in 0..Heartbeat \cup {Off}
    BY <1>1, TickFacts
  <1>3. spun' \in BOOLEAN
    OBVIOUS
  <1>4. CronTypeOK'
    BY <1>1, <1>2, <1>3 DEF CronTypeOK
  <1> QED
    BY <1>2, <1>4 DEF CronInv, CapIsKept, OnlyTheCapSpins

\* A start that goes on.
LEMMA Begun ==
  ASSUME CronInv, Begins, running' \in BOOLEAN, imported' \in BOOLEAN, booting' \in 0..Boots
  PROVE  CronInv'
  <1>1. CronTypeOK /\ spun = FALSE /\ Heartbeat \in Nat
    BY CronFinite DEF CronInv, OnlyTheCapSpins, CronTypeOK
  <1>2. /\ Tick(timer) /\ UNCHANGED <<gate, wait, byHand>> /\ spun' = FALSE
        /\ beat' \in [Beats -> 0..Heartbeat \cup {Off}] /\ handle' \in Beats \cup {0}
    BY <1>1 DEF Begins, CronTypeOK
  <1>3. timer \in 0..Heartbeat \cup {Off}
    BY <1>1 DEF CronTypeOK
  <1> QED
    BY <1>2, <1>3, Ticked

LEMMA CronStep == ASSUME CronInv, [CronNext]_cronVars PROVE CronInv'
  <1>1. CronTypeOK /\ CapIsKept /\ OnlyTheCapSpins
    BY DEF CronInv
  <1>2. /\ Cap \in Nat \ {0} /\ Heartbeat \in Nat \ {0} /\ Off \notin Nat
        /\ MaxByHand \in Nat /\ Boots \in Nat
        /\ \A t \in Timed : Period[t] \in Nat \ {0}
    BY CronFinite, SchedulerAssumption DEF Timed, Autos
  <1> USE DEF scheduler, life, clocks
  <1>3. CASE FireTimeout
    <2>1. /\ Tick(Off) /\ UNCHANGED <<life, beat, handle, gate, wait, byHand>>
          /\ spun' = (spun \/ (timer' = 0 /\ (gate \/ Fired = {}) /\ ~Full))
      BY <1>3 DEF FireTimeout
    <2>2. ~(timer' = 0 /\ (gate \/ Fired = {}) /\ ~Full)
      BY <1>1, <2>1, NoSpin
    <2>3. spun' = FALSE
      BY <1>1, <2>1, <2>2 DEF OnlyTheCapSpins, CronTypeOK
    <2>4. running' \in BOOLEAN /\ imported' \in BOOLEAN
      BY <1>1, <2>1 DEF CronTypeOK
    <2>5. /\ booting' \in 0..Boots /\ UNCHANGED <<gate, wait, byHand>>
          /\ beat' \in [Beats -> 0..Heartbeat \cup {Off}] /\ handle' \in Beats \cup {0}
      BY <1>1, <2>1 DEF CronTypeOK
    <2>6. Off \in 0..Heartbeat \cup {Off}
      OBVIOUS
    <2> QED
      BY <2>1, <2>3, <2>4, <2>5, <2>6, Ticked
  <1>4. ASSUME NEW b \in Beats, BeatFires(b) PROVE CronInv'
    <2>1. /\ Tick(timer) /\ UNCHANGED <<life, handle, gate, wait, byHand, spun>>
          /\ beat' = [beat EXCEPT ![b] = Heartbeat]
      BY <1>4 DEF BeatFires
    <2>2. spun' = FALSE
      BY <1>1, <2>1 DEF OnlyTheCapSpins, CronTypeOK
    <2>3. running' \in BOOLEAN /\ imported' \in BOOLEAN
      BY <1>1, <2>1 DEF CronTypeOK
    <2>4. /\ booting' \in 0..Boots /\ UNCHANGED <<gate, wait, byHand>>
          /\ beat' \in [Beats -> 0..Heartbeat \cup {Off}] /\ handle' \in Beats \cup {0}
          /\ timer \in 0..Heartbeat \cup {Off}
      BY <1>1, <1>2, <2>1 DEF CronTypeOK
    <2> QED
      BY <2>1, <2>2, <2>3, <2>4, Ticked
  <1>5. CASE Started
    <2>1. Begins /\ booting' \in 0..Boots
      BY <1>1, <1>2, <1>5 DEF Started, CronTypeOK
    <2>2. running' \in BOOLEAN /\ imported' \in BOOLEAN
      BY <1>1, <1>5 DEF Started, CronTypeOK
    <2> QED
      BY <2>1, <2>2, Begun
  <1>6. CASE Start
    <2>1. CASE imported /\ Begins
      <3>1. running' \in BOOLEAN /\ imported' \in BOOLEAN
        BY <1>1, <1>6, <2>1 DEF Start, CronTypeOK
      <3>2. booting' \in 0..Boots
        BY <1>1, <1>6, <2>1 DEF Start, CronTypeOK
      <3> QED
        BY <2>1, <3>1, <3>2, Begun
    <2>2. CASE /\ booting < Boots /\ booting' = booting + 1
               /\ UNCHANGED <<imported, timer, beat, handle, gate, clocks, ticked, byHand, spun>>
      <3>1. booting' \in 0..Boots
        BY <1>1, <1>2, <2>2 DEF CronTypeOK
      <3>2. running' \in BOOLEAN /\ imported' \in BOOLEAN
        BY <1>1, <1>6, <2>2 DEF Start, CronTypeOK
      <3> QED
        BY <1>1, <2>2, <3>1, <3>2 DEF CronInv, CronTypeOK, CapIsKept, OnlyTheCapSpins
    <2> QED
      BY <1>6, <2>1, <2>2 DEF Start
  <1>7. CASE StopScheduler
    <2>1. beat' \in [Beats -> 0..Heartbeat \cup {Off}] /\ handle' \in Beats \cup {0}
      BY <1>1, <1>7 DEF StopScheduler, CronTypeOK
    <2>2. running' \in BOOLEAN
      BY <1>7 DEF StopScheduler
    <2> QED
      BY <1>1, <1>7, <2>1, <2>2
      DEF StopScheduler, CronInv, CronTypeOK, CapIsKept, OnlyTheCapSpins
  <1>8. CASE Notify
    <2>1. running /\ running' = running
      BY <1>8 DEF Notify
    <2>2. timer' \in Delays(due, due)
      BY <1>8, <2>1 DEF Notify, Recalculated
    <2>3. timer' \in 0..Heartbeat \cup {Off}
      BY <1>1, <2>2, DelaysFacts
    <2> QED
      BY <1>1, <1>8, <2>3
      DEF Notify, CronInv, CronTypeOK, CapIsKept, OnlyTheCapSpins
  <1>9. CASE \E t \in Autos : RunsByHand(t) \/ ByHandEnds(t)
    <2>1. PICK t \in Autos : RunsByHand(t) \/ ByHandEnds(t)
      BY <1>9
    <2>2. due' \in Marked(due, {t}) \/ due' = due
      BY <2>1 DEF RunsByHand, ByHandEnds, Completes, Fails
    <2>3. due' \in [Timed -> BOOLEAN] /\ UNCHANGED <<scheduler, gate, wait, ticked, spun>>
      BY <1>1, <2>1, <2>2, MarkedFacts DEF RunsByHand, ByHandEnds, CronTypeOK
    <2>4. byHand' \in [Autos -> 0..MaxByHand]
      BY <1>1, <1>2, <2>1 DEF RunsByHand, ByHandEnds, CronTypeOK
    <2> QED
      BY <1>1, <2>3, <2>4 DEF CronInv, CronTypeOK, CapIsKept, OnlyTheCapSpins
  <1>10. CASE \E chain \in ticked : TickedEnds(chain)
    <2>1. PICK chain \in ticked : TickedEnds(chain)
      BY <1>10
    <2>2. due' \in Marked(due, {chain[1]}) \/ due' = due
      BY <2>1 DEF TickedEnds, Completes, Fails
    <2>3. due' \in [Timed -> BOOLEAN] /\ ticked' = ticked \ {chain}
          /\ UNCHANGED <<scheduler, gate, wait, byHand, spun>>
      BY <1>1, <2>1, <2>2, MarkedFacts DEF TickedEnds, CronTypeOK
    <2>4. Cardinality(ticked') <= Cap
      <3>1. Cardinality(ticked') = Cardinality(ticked) - 1
        BY <1>1, <2>1, <2>3, TickedFinite, FS_RemoveElement
      <3> QED
        BY <1>1, <1>2, <3>1, TickedFinite DEF CapIsKept
    <2> QED
      BY <1>1, <2>3, <2>4 DEF CronInv, CronTypeOK, CapIsKept, OnlyTheCapSpins
  <1>11. CASE Minute
    <2>1. timer' \in 0..Heartbeat \cup {Off} /\ beat' \in [Beats -> 0..Heartbeat \cup {Off}]
      BY <1>1, <1>2, <1>11 DEF Minute, Sooner, CronTypeOK
    <2>2. due' \in [Timed -> BOOLEAN]
      BY <1>1, <1>11 DEF Minute, CronTypeOK
    <2>3. \A t \in Timed : wait'[t] \in 1..Period[t]
      BY <1>1, <1>2, <1>11 DEF Minute, CronTypeOK
    <2> QED
      BY <1>1, <1>11, <2>1, <2>2, <2>3
      DEF Minute, CronInv, CronTypeOK, CapIsKept, OnlyTheCapSpins
  <1>12. CASE GateMoves
    BY <1>1, <1>12
    DEF GateMoves, CronInv, CronTypeOK, CapIsKept, OnlyTheCapSpins
  <1>13. CASE UNCHANGED cronVars
    BY <1>1, <1>13
    DEF cronVars, CronInv, CronTypeOK, CapIsKept, OnlyTheCapSpins
  <1> QED
    BY <1>3, <1>4, <1>5, <1>6, <1>7, <1>8, <1>9, <1>10, <1>11, <1>12, <1>13 DEF CronNext

\* A timer that fired for nothing is never armed to fire again at once, unless the cap was
\* full: neither the gates nor a stopped scheduler make it spin (local-scheduler.ts,
\* deferForHeartbeat and recalculate).  The cap on chains is part of the argument.
THEOREM Cron == CronSpec => [](CronTypeOK /\ CapIsKept /\ OnlyTheCapSpins)
  <1>1. CronInit => CronInv
    BY CronStarts
  <1>2. CronInv /\ [CronNext]_cronVars => CronInv'
    BY CronStep
  <1>3. CronInv => CronTypeOK /\ CapIsKept /\ OnlyTheCapSpins
    BY DEF CronInv
  <1> QED
    BY <1>1, <1>2, <1>3, PTL DEF CronSpec

\* The cap on chains that run at once holds although a cron timer, a heartbeat and a first tick
\* may each start some (tickAutomationSchedules looks at the set before each it starts).
THEOREM Capped == CronSpec => []CapIsKept
  BY Cron, PTL

LEMMA GivenUp ==
  ASSUME CronInv, [CronNext]_cronVars, NEW t \in Autos, due[t], ~due'[t]
  PROVE  ChainsOf(t)' # ChainsOf(t) \/ byHand'[t] # byHand[t]
  <1>1. CronTypeOK /\ CapIsKept /\ t \in Timed /\ MaxByHand \in Nat
    BY SchedulerAssumption DEF CronInv, Timed
  <1>2. CASE \E armed \in {Off, timer} : Tick(armed)
    <2>1. Off \in 0..Heartbeat \cup {Off} /\ timer \in 0..Heartbeat \cup {Off}
      BY <1>1 DEF CronTypeOK
    <2> QED
      BY <1>1, <1>2, <2>1, TickFacts
  <1>3. CASE \E u \in Autos : RunsByHand(u) \/ ByHandEnds(u)
    <2>1. PICK u \in Autos : RunsByHand(u) \/ ByHandEnds(u)
      BY <1>3
    <2>2. due' \in Marked(due, {u})
      BY <2>1 DEF RunsByHand, ByHandEnds, Completes, Fails
    <2>3. u = t
      BY <1>1, <2>2, MarkedFacts DEF CronTypeOK
    <2> QED
      BY <1>1, <2>1, <2>3 DEF RunsByHand, ByHandEnds, CronTypeOK
  <1>4. CASE \E chain \in ticked : TickedEnds(chain)
    <2>1. PICK chain \in ticked : TickedEnds(chain)
      BY <1>4
    <2>2. due' \in Marked(due, {chain[1]})
      BY <2>1 DEF TickedEnds, Completes, Fails
    <2>3. chain[1] = t
      BY <1>1, <2>2, MarkedFacts DEF CronTypeOK
    <2>4. chain \in ChainsOf(t) /\ chain \notin ChainsOf(t)'
      BY <2>1, <2>3, Zenon DEF TickedEnds, ChainsOf
    <2> QED
      BY <2>4
  <1>5. CASE Minute
    BY <1>1, <1>5 DEF Minute, CronTypeOK
  <1>6. CASE UNCHANGED due
    BY <1>6
  <1>7. (\E b \in Beats : BeatFires(b)) \/ FireTimeout \/ Started \/ Start
          => (\E armed \in {Off, timer} : Tick(armed)) \/ UNCHANGED due
    BY Zenon DEF BeatFires, FireTimeout, Started, Start, Begins, clocks
  <1>8. StopScheduler \/ Notify \/ GateMoves \/ UNCHANGED cronVars => UNCHANGED due
    BY DEF StopScheduler, Notify, GateMoves, cronVars, clocks
  <1> QED
    BY <1>2, <1>3, <1>4, <1>5, <1>6, <1>7, <1>8 DEF CronNext

\* An occurrence of an automation is never dropped by the cap, the gates, a stop or a change of
\* the schedule: only the step that starts a chain of it, or in which one of its chains ends,
\* gives it up (local-trigger-service.ts, markFired).
THEOREM GivesUp == CronSpec => OnlyAFailureSkips
  <1>1. CronInit => CronInv
    BY CronStarts
  <1>2. CronInv /\ [CronNext]_cronVars => CronInv'
    BY CronStep
  <1>3. CronInv /\ [CronNext]_cronVars =>
          [\A t \in Autos : due[t] /\ ~due'[t] =>
             ChainsOf(t)' # ChainsOf(t) \/ byHand'[t] # byHand[t]]_cronVars
    BY GivenUp
  <1> QED
    BY <1>1, <1>2, <1>3, PTL DEF CronSpec, OnlyAFailureSkips

-----------------------------------------------------------------------------
(* The ledger of approvals *)

RowsOf(e, f) == {k \in DOMAIN f : f[k].id = e}
IsApplied(e, f) == \E k \in RowsOf(e, f) : f[k].status = "applied"

\* Whatever comes after the first row of an entry says applied.
Settled(f) ==
  \A e \in Entries : \A j, k \in RowsOf(e, f) : j < k => f[k].status = "applied"

LEMMA SeqDomain ==
  ASSUME NEW S, NEW f \in Seq(S)
  PROVE  /\ DOMAIN f = 1..Len(f) /\ Len(f) \in Nat /\ f \in [1..Len(f) -> S]
         /\ \A k \in DOMAIN f : f[k] \in S
  BY LenProperties

LEMMA LatestIsLast ==
  ASSUME file \in Seq(Row), NEW e \in Entries, In(e, file)
  PROVE  \E k \in RowsOf(e, file) : /\ \A j \in RowsOf(e, file) : j <= k
                                    /\ Latest(e) = file[k].status
  <1> DEFINE I == {k \in 1..Len(file) : file[k].id = e}
  <1>1. DOMAIN file = 1..Len(file) /\ Len(file) \in Nat
    BY SeqDomain
  <1>2. I = RowsOf(e, file) /\ I # {} /\ I \subseteq Nat /\ \A k \in I : k <= Len(file)
    BY <1>1 DEF RowsOf, In
  <1>3. SelectLastInSeq(file, LAMBDA row : row.id = e) = Max(I)
    BY <1>2 DEF SelectLastInSeq
  <1> HIDE DEF I
  <1>4. \E m \in I : \A n \in I : m >= n
    BY <1>1, <1>2, GreatestNumber
  <1>5. Max(I) \in I /\ \A n \in I : n <= Max(I)
    BY <1>2, <1>4 DEF Max
  <1> QED
    BY <1>2, <1>3, <1>5 DEF Latest

LEMMA FirstIsFirst ==
  ASSUME file \in Seq(Row), NEW e \in Entries, In(e, file)
  PROVE  LET first == SelectInSeq(file, LAMBDA row : row.id = e)
         IN  first \in RowsOf(e, file) /\ \A j \in RowsOf(e, file) : first <= j
  <1> DEFINE I == {k \in 1..Len(file) : file[k].id = e}
  <1>1. DOMAIN file = 1..Len(file) /\ Len(file) \in Nat
    BY SeqDomain
  <1>2. I = RowsOf(e, file) /\ I # {} /\ I \subseteq Nat
    BY <1>1 DEF RowsOf, In
  <1>3. SelectInSeq(file, LAMBDA row : row.id = e) = Min(I)
    BY <1>2 DEF SelectInSeq
  <1> HIDE DEF I
  <1> QED
    BY <1>2, <1>3, MinFacts

\* Oldest lists entries of S that have a row, each once.
LEMMA OldestFacts ==
  ASSUME file \in Seq(Row), NEW S
  PROVE  /\ Oldest(S) \in Seq(S)
         /\ \A i, j \in 1..Len(Oldest(S)) : Oldest(S)[i] = Oldest(S)[j] => i = j
  <1> DEFINE F == {k \in DOMAIN file : /\ file[k].id \in S
                                       /\ \A j \in 1..(k - 1) : file[j].id # file[k].id}
             rank(k) == Cardinality({j \in F : j <= k})
             n == Cardinality(F)
             place(i) == CHOOSE k \in F : rank(k) = i
  <1>1. DOMAIN file = 1..Len(file) /\ Len(file) \in Nat /\ F \in SUBSET (1..Len(file))
    BY SeqDomain
  <1>2. n \in Nat
    <2>1. IsFiniteSet(1..Len(file))
      BY <1>1, FS_Interval
    <2> HIDE DEF F
    <2> QED
      BY <1>1, <2>1, FS_Subset, FS_CardinalityType
  <1>3. \A i \in 1..n : place(i) \in F /\ rank(place(i)) = i
    <2> TAKE i \in 1..n
    <2>1. \E k \in F : rank(k) = i
      <3> HIDE DEF F
      <3> QED
        BY <1>1, RankIsHeld
    <2> HIDE DEF F, rank
    <2> QED
      BY <2>1
  <1>4. Oldest(S) = [i \in 1..n |-> file[place(i)].id]
    BY DEF Oldest
  <1>5. \A k \in F : /\ file[k].id \in S /\ k \in 1..Len(file)
                  /\ \A j \in 1..(k - 1) : file[j].id # file[k].id
    BY <1>1
  <1>6. \A k, l \in F : file[k].id = file[l].id => k = l
    <2> HIDE DEF F
    <2> TAKE k, l \in F
    <2> HAVE file[k].id = file[l].id
    <2>1. ~(k < l) /\ ~(l < k) /\ k \in Nat /\ l \in Nat
      BY <1>1, <1>5
    <2> QED
      BY <2>1
  <1>7. \A i, j \in 1..n : file[place(i)].id = file[place(j)].id => i = j
    <2> HIDE DEF F, rank, place, n
    <2> TAKE i, j \in 1..n
    <2> HAVE file[place(i)].id = file[place(j)].id
    <2>1. place(i) \in F /\ place(j) \in F
      BY <1>3
    <2>2. place(i) = place(j)
      BY <1>6, <2>1
    <2> QED
      BY <1>3, <2>2
  <1>8. \A i \in 1..n : file[place(i)].id \in S
    <2> HIDE DEF F, rank, place, n
    <2> QED
      BY <1>3, <1>5
  <1> HIDE DEF F, rank, place, n
  <1>9. Oldest(S) \in [1..n -> S]
    BY <1>4, <1>8
  <1>10. Oldest(S) \in Seq(S) /\ Len(Oldest(S)) = n
    BY <1>2, <1>9, SeqDef, SeqDomain
  <1> QED
    BY <1>4, <1>7, <1>10

Recorded(e) == e \in missed \/ IsApplied(e, file)

LedgerSettled == Settled(file) /\ \A s \in Scripts : script[s] # None => Settled(script[s])

SendsLeaveTraces ==
  \A e \in Entries : sent[e] > 0 => Recorded(e) /\ (e \in Posts => e \in logged \cup unlogged)

\* One tick at most has a queue; what is in it is there once, and was sent before only
\* if the row of that send is missing.
QueuesAreUnsent ==
  /\ \A t, u \in Ticks : email[t] # <<>> /\ email[u] # <<>> => t = u
  /\ \A t \in Ticks : \A i, j \in 1..Len(email[t]) : email[t][i] = email[t][j] => i = j
  /\ \A t \in Ticks : \A i \in 1..Len(email[t]) : sent[email[t][i]] > 0 => email[t][i] \in missed

PostIsUnsent == post # None /\ sent[post] > 0 => post \in missed \cap unlogged

LedgerInv ==
  /\ LedgerTypeOK /\ LedgerSettled /\ SendsLeaveTraces /\ QueuesAreUnsent /\ PostIsUnsent
  /\ SentTwiceOnlyUnrecorded

-----------------------------------------------------------------------------
(* Rows *)

LEMMA Appended ==
  ASSUME NEW f \in Seq(Row), NEW e \in Entries, NEW st \in Status
  PROVE  LET g == Append(f, [id |-> e, status |-> st])
         IN  /\ g \in Seq(Row)
             /\ RowsOf(e, g) = RowsOf(e, f) \cup {Len(f) + 1}
             /\ \A x \in Entries \ {e} : RowsOf(x, g) = RowsOf(x, f)
             /\ g[Len(f) + 1].status = st /\ \A k \in DOMAIN f : g[k] = f[k]
             /\ DOMAIN f = 1..Len(f) /\ Len(f) \in Nat
  <1> DEFINE r == [id |-> e, status |-> st]
             g == Append(f, r)
  <1>1. r \in Row /\ r.id = e /\ r.status = st
    BY DEF Row
  <1> HIDE DEF r
  <1>2. g \in Seq(Row) /\ Len(g) = Len(f) + 1 /\ g[Len(f) + 1] = r
        /\ \A k \in 1..Len(f) : g[k] = f[k]
    BY <1>1
  <1>3. DOMAIN f = 1..Len(f) /\ DOMAIN g = 1..(Len(f) + 1) /\ Len(f) \in Nat
    BY <1>2, SeqDomain
  <1> HIDE DEF g
  <1>4. \A x \in Entries : \A k \in DOMAIN f : k \in RowsOf(x, g) <=> k \in RowsOf(x, f)
    BY <1>2, <1>3 DEF RowsOf
  <1>5. \A x \in Entries : RowsOf(x, f) \subseteq DOMAIN f /\ RowsOf(x, g) \subseteq DOMAIN g
    BY DEF RowsOf
  <1>6. \A x \in Entries : Len(f) + 1 \in RowsOf(x, g) <=> x = e
    BY <1>1, <1>2, <1>3 DEF RowsOf
  <1>7. DOMAIN g = DOMAIN f \cup {Len(f) + 1}
    BY <1>3
  <1>8. RowsOf(e, g) = RowsOf(e, f) \cup {Len(f) + 1}
    BY <1>4, <1>5, <1>6, <1>7, Zenon
  <1>9. \A x \in Entries \ {e} : RowsOf(x, g) = RowsOf(x, f)
    <2> TAKE x \in Entries \ {e}
    <2>1. \A k : k \in RowsOf(x, g) <=> k \in RowsOf(x, f)
      BY <1>4, <1>5, <1>6, <1>7
    <2> QED
      BY <2>1, Zenon
  <1> QED
    BY <1>1, <1>2, <1>3, <1>8, <1>9 DEF g, r

\* A row may be appended that says applied, or that is the first of its entry.
LEMMA AppendSettles ==
  ASSUME NEW f \in Seq(Row), NEW e \in Entries, NEW st \in Status, Settled(f),
         st = "applied" \/ RowsOf(e, f) = {}
  PROVE  LET g == Append(f, [id |-> e, status |-> st])
         IN  /\ Settled(g)
             /\ \A x \in Entries : IsApplied(x, f) => IsApplied(x, g)
             /\ st = "applied" => IsApplied(e, g)
  <1> DEFINE g == Append(f, [id |-> e, status |-> st])
  <1>1. /\ RowsOf(e, g) = RowsOf(e, f) \cup {Len(f) + 1}
        /\ \A x \in Entries \ {e} : RowsOf(x, g) = RowsOf(x, f)
        /\ g[Len(f) + 1].status = st /\ \A k \in DOMAIN f : g[k] = f[k]
        /\ DOMAIN f = 1..Len(f) /\ Len(f) \in Nat
    BY Appended
  <1> HIDE DEF g
  <1>2. \A x \in Entries : RowsOf(x, f) \subseteq DOMAIN f
    BY DEF RowsOf
  <1>3. \A x \in Entries : IsApplied(x, f) => IsApplied(x, g)
    <2> TAKE x \in Entries
    <2>1. RowsOf(x, f) \subseteq RowsOf(x, g)
      BY <1>1
    <2> QED
      BY <1>1, <1>2, <2>1 DEF IsApplied
  <1>4. st = "applied" => IsApplied(e, g)
    BY <1>1 DEF IsApplied
  <1>5. ASSUME NEW x \in Entries, NEW j \in RowsOf(x, g), NEW k \in RowsOf(x, g), j < k
        PROVE  g[k].status = "applied"
    <2>1. CASE k \in RowsOf(x, f)
      <3>1. k \in 1..Len(f) /\ j # Len(f) + 1
        BY <1>1, <1>2, <1>5, <2>1
      <3>2. j \in RowsOf(x, f)
        BY <1>1, <1>5, <3>1
      <3> QED
        BY <1>1, <1>2, <1>5, <2>1, <3>2 DEF Settled
    <2>2. CASE k \notin RowsOf(x, f)
      <3>1. x = e /\ k = Len(f) + 1
        BY <1>1, <1>5, <2>2
      <3>2. j \in RowsOf(e, f)
        BY <1>1, <1>5, <3>1
      <3> QED
        BY <1>1, <3>1, <3>2
    <2> QED
      BY <2>1, <2>2
  <1>6. Settled(g)
    BY <1>5 DEF Settled
  <1> QED
    BY <1>3, <1>4, <1>6 DEF g

\* A rating may be written over the first row of an entry, whatever it says.
LEMMA RatingSettles ==
  ASSUME NEW f \in Seq(Row), Settled(f), NEW e \in Entries, NEW st \in Status,
         NEW first \in RowsOf(e, f), \A j \in RowsOf(e, f) : first <= j
  PROVE  LET g == [f EXCEPT ![first].status = st]
         IN  g \in Seq(Row) /\ Settled(g)
  <1> DEFINE g == [f EXCEPT ![first].status = st]
  <1>1. DOMAIN f = 1..Len(f) /\ Len(f) \in Nat /\ f \in [1..Len(f) -> Row]
        /\ first \in DOMAIN f /\ \A k \in DOMAIN f : f[k] \in Row
    BY SeqDomain DEF RowsOf
  <1>2. [f[first] EXCEPT !.status = st] \in Row
    BY <1>1 DEF Row
  <1>3. g \in [1..Len(f) -> Row]
    BY <1>1, <1>2
  <1>4. DOMAIN g = DOMAIN f /\ g[first].status = st /\ g[first].id = f[first].id
        /\ \A k \in DOMAIN f \ {first} : g[k] = f[k]
    BY <1>1 DEF Row
  <1>5. g \in Seq(Row)
    BY <1>1, <1>3, SeqDef
  <1> HIDE DEF g
  <1>6. \A x \in Entries : RowsOf(x, g) = RowsOf(x, f)
    BY <1>4 DEF RowsOf
  <1>7. ASSUME NEW x \in Entries, NEW j \in RowsOf(x, f), NEW k \in RowsOf(x, f), j < k
        PROVE  g[k].status = "applied"
    <2>1. k \in DOMAIN f /\ j \in Nat /\ k \in Nat
      BY <1>1, <1>7 DEF RowsOf
    <2>2. k # first
      <3> SUFFICES ASSUME k = first PROVE FALSE
        OBVIOUS
      <3>1. x = e
        BY <1>7 DEF RowsOf
      <3> QED
        BY <1>7, <2>1, <3>1
    <2> QED
      BY <1>4, <1>7, <2>1, <2>2 DEF Settled
  <1> QED
    BY <1>5, <1>6, <1>7 DEF Settled, g

\* What a rating writes.
LEMMA RatedFacts ==
  ASSUME file \in Seq(Row), Settled(file), NEW e \in Entries, In(e, file), NEW st \in Status
  PROVE  Rated(e, st) \in Seq(Row) /\ Settled(Rated(e, st))
  <1>1. PICK first : /\ first = SelectInSeq(file, LAMBDA row : row.id = e)
                     /\ first \in RowsOf(e, file) /\ \A j \in RowsOf(e, file) : first <= j
    BY FirstIsFirst
  <1>2. Rated(e, st) = [file EXCEPT ![first].status = st]
    BY <1>1 DEF Rated
  <1>3. first \in RowsOf(e, file) /\ \A j \in RowsOf(e, file) : first <= j
    BY <1>1
  <1>4. LET g == [file EXCEPT ![first].status = st] IN g \in Seq(Row) /\ Settled(g)
    BY <1>3, RatingSettles
  <1> QED
    BY <1>2, <1>4

\* The row of a send says applied, or it is missed; a row of another entry stays.
LEMMA MarksRecord ==
  ASSUME file \in Seq(Row), Settled(file), missed \subseteq Entries, faults \in 0..MaxFaults,
         NEW e \in Entries, Marks(e)
  PROVE  /\ file' \in Seq(Row) /\ Settled(file') /\ faults' \in 0..MaxFaults
         /\ missed' \subseteq Entries /\ missed \subseteq missed'
         /\ Recorded(e)' /\ \A x \in Entries : Recorded(x) => Recorded(x)'
  <1>1. CASE /\ file' = Append(file, [id |-> e, status |-> "applied"])
             /\ UNCHANGED missed /\ NoFault
    <2>1. "applied" \in Status
      BY DEF Status
    <2>2. file' \in Seq(Row)
      BY <1>1, <2>1, Appended
    <2>3. Settled(file') /\ IsApplied(e, file')
          /\ \A x \in Entries : IsApplied(x, file) => IsApplied(x, file')
      BY <1>1, <2>1, AppendSettles
    <2> QED
      BY <1>1, <2>2, <2>3 DEF Recorded, NoFault
  <1>2. CASE UNCHANGED file /\ missed' = missed \cup {e} /\ Fault
    BY <1>2, ApprovalsAssumption DEF Recorded, Fault
  <1> QED
    BY <1>1, <1>2 DEF Marks

-----------------------------------------------------------------------------
(* Steps of the ledger *)

\* A queue moves on by one email, and the sends so far of those it keeps do not change.
LEMMA QueueMovesOn ==
  ASSUME LedgerTypeOK, QueuesAreUnsent, NEW t \in Ticks, email[t] # <<>>, NextEmail(t),
         missed \subseteq missed',
         \A e \in Emails : e # Head(email[t]) => sent'[e] = sent[e]
  PROVE  /\ Head(email[t]) \in Emails /\ email' \in [Ticks -> Seq(Emails)] /\ QueuesAreUnsent'
         /\ sent[Head(email[t])] > 0 => Head(email[t]) \in missed
  <1> DEFINE q == email[t]
  <1>1. q \in Seq(Emails) /\ email \in [Ticks -> Seq(Emails)]
    BY DEF LedgerTypeOK
  <1>2. /\ Tail(q) \in Seq(Emails) /\ Len(Tail(q)) = Len(q) - 1 /\ Len(q) \in Nat /\ Len(q) > 0
        /\ \A i \in 1..Len(Tail(q)) : Tail(q)[i] = q[i + 1]
        /\ Head(q) = q[1] /\ q[1] \in Emails
    BY <1>1
  <1>3. email' = [email EXCEPT ![t] = Tail(q)]
    BY DEF NextEmail
  <1>4. email' \in [Ticks -> Seq(Emails)]
    BY <1>1, <1>2, <1>3
  <1>5. /\ \A i, j \in 1..Len(q) : q[i] = q[j] => i = j
        /\ \A i \in 1..Len(q) : sent[q[i]] > 0 => q[i] \in missed
    BY DEF QueuesAreUnsent
  <1>6. \A u \in Ticks \ {t} : email[u] = <<>> /\ email'[u] = <<>>
    BY <1>1, <1>3 DEF QueuesAreUnsent
  <1>7. email'[t] = Tail(q)
    BY <1>1, <1>3
  <1> HIDE DEF q
  <1>8. \A i, j \in 1..Len(Tail(q)) : Tail(q)[i] = Tail(q)[j] => i = j
    BY <1>2, <1>5
  <1>9. \A i \in 1..Len(Tail(q)) : Tail(q)[i] \in Emails /\ Tail(q)[i] # Head(q)
    <2> TAKE i \in 1..Len(Tail(q))
    <2>1. i + 1 \in 1..Len(q) /\ 1 \in 1..Len(q) /\ i + 1 # 1
      BY <1>2
    <2> QED
      BY <1>2, <1>5, <2>1
  <1>10. \A i \in 1..Len(Tail(q)) : sent'[Tail(q)[i]] > 0 => Tail(q)[i] \in missed'
    <2> TAKE i \in 1..Len(Tail(q))
    <2>1. i + 1 \in 1..Len(q) /\ Tail(q)[i] = q[i + 1]
      BY <1>2
    <2>2. sent'[Tail(q)[i]] = sent[Tail(q)[i]]
      BY <1>9 DEF q
    <2> QED
      BY <1>5, <2>1, <2>2
  <1>11. Len(<<>>) = 0
    OBVIOUS
  <1>12. QueuesAreUnsent'
    <2>1. \A u, v \in Ticks : email'[u] # <<>> /\ email'[v] # <<>> => u = v
      BY <1>6
    <2>2. \A u \in Ticks : \A i, j \in 1..Len(email'[u]) : email'[u][i] = email'[u][j] => i = j
      <3> TAKE u \in Ticks
      <3>1. CASE u = t
        <4>1. email'[u] = Tail(q)
          BY <1>7, <3>1
        <4> QED
          BY <1>8, <4>1
      <3>2. CASE u # t
        BY <1>6, <1>11, <3>2
      <3> QED
        BY <3>1, <3>2
    <2>3. \A u \in Ticks : \A i \in 1..Len(email'[u]) :
            sent'[email'[u][i]] > 0 => email'[u][i] \in missed'
      <3> TAKE u \in Ticks
      <3>1. CASE u = t
        BY <1>7, <1>10, <3>1
      <3>2. CASE u # t
        BY <1>6, <1>11, <3>2
      <3> QED
        BY <3>1, <3>2
    <2> QED
      BY <2>1, <2>2, <2>3 DEF QueuesAreUnsent
  <1>13. 1 \in 1..Len(q)
    BY <1>2
  <1> QED
    BY <1>2, <1>4, <1>5, <1>12, <1>13 DEF q

\* Queues that do not change keep what is known of them while no email is sent.
LEMMA QueuesStay ==
  ASSUME LedgerTypeOK, QueuesAreUnsent, UNCHANGED email, missed \subseteq missed',
         \A e \in Emails : sent'[e] = sent[e]
  PROVE  QueuesAreUnsent'
  <1>1. \A t \in Ticks : \A i \in 1..Len(email[t]) : email[t][i] \in Emails
    BY DEF LedgerTypeOK
  <1> QED
    BY <1>1 DEF QueuesAreUnsent

\* What is approved and was sent before has lost the row of that send.
LEMMA ApprovedIsUnsent ==
  ASSUME LedgerInv, NEW e \in Entries, Approved(e), sent[e] > 0
  PROVE  e \in missed
  <1>1. file \in Seq(Row)
    BY DEF LedgerInv, LedgerTypeOK
  <1>2. PICK k \in RowsOf(e, file) : /\ \A j \in RowsOf(e, file) : j <= k
                                     /\ Latest(e) = file[k].status
    BY <1>1, LatestIsLast DEF Approved
  <1>3. file[k].status # "applied"
    BY <1>2 DEF Approved
  <1>4. ~IsApplied(e, file)
    <2> SUFFICES ASSUME IsApplied(e, file) PROVE FALSE
      OBVIOUS
    <2>1. PICK m \in RowsOf(e, file) : file[m].status = "applied"
      BY DEF IsApplied
    <2>2. m <= k /\ m # k /\ m \in Nat /\ k \in Nat
      BY <1>1, <1>2, <1>3, <2>1, SeqDomain DEF RowsOf
    <2>3. m < k
      BY <2>2
    <2> QED
      BY <1>2, <1>3, <2>1, <2>3 DEF LedgerInv, LedgerSettled, Settled
  <1> QED
    BY <1>4 DEF LedgerInv, SendsLeaveTraces, Recorded

LEMMA TickStartsSafe == ASSUME LedgerInv, NEW t \in Ticks, TickStarts(t) PROVE LedgerInv'
  <1> USE DEF cli
  <1> DEFINE S == {e \in Emails : Approved(e)}
             due_ == Oldest(S)
             n == Min({Len(due_), MaxSends})
             q == SubSeq(due_, 1, n)
  <1>1. /\ Free(t) /\ email' = [email EXCEPT ![t] = q]
        /\ UNCHANGED <<file, cli, post, touched, logged, sent, missed, unlogged, commands>>
        /\ UNCHANGED faults
    BY Zenon DEF TickStarts, NoFault
  <1>2. LedgerTypeOK /\ file \in Seq(Row) /\ email \in [Ticks -> Seq(Emails)]
    BY DEF LedgerInv, LedgerTypeOK
  <1>3. due_ \in Seq(S) /\ \A i, j \in 1..Len(due_) : due_[i] = due_[j] => i = j
    <2> HIDE DEF S
    <2> QED
      BY <1>2, OldestFacts
  <1>4. S \subseteq Emails /\ \A e \in S : sent[e] > 0 => e \in missed
    BY ApprovedIsUnsent DEF Entries
  <1> HIDE DEF S, due_
  <1>5. Len(due_) \in Nat /\ \A i \in 1..Len(due_) : due_[i] \in S
    BY <1>3, SeqDomain
  <1>6. n \in Nat /\ n <= Len(due_)
    <2>1. {Len(due_), MaxSends} \subseteq Nat
      BY <1>5, ApprovalsAssumption
    <2> QED
      BY <2>1, MinFacts
  <1> HIDE DEF n
  <1>7. q \in Seq(S) /\ Len(q) = n /\ \A i \in 1..n : q[i] = due_[i]
    <2>1. \A i \in 1..n : due_[i] \in S
      BY <1>5, <1>6
    <2>2. /\ q \in Seq(S) /\ Len(q) = IF 1 <= n THEN n - 1 + 1 ELSE 0
          /\ \A i \in 1..(n - 1 + 1) : q[i] = due_[1 + i - 1]
      BY <1>6, <2>1, SubSeqProperties
    <2> QED
      BY <1>6, <2>2
  <1> HIDE DEF q
  <1>8. \A i, j \in 1..Len(q) : q[i] = q[j] => i = j
    BY <1>3, <1>5, <1>6, <1>7
  <1>9. \A i \in 1..Len(q) : q[i] \in S
    BY <1>5, <1>6, <1>7
  <1>10. email' \in [Ticks -> Seq(Emails)] /\ email'[t] = q
    BY <1>1, <1>2, <1>4, <1>7, SeqMonotonic
  <1>11. \A u \in Ticks \ {t} : email'[u] = <<>>
    BY <1>1, <1>2 DEF Free
  <1>12. Len(<<>>) = 0
    OBVIOUS
  <1>13. QueuesAreUnsent'
    <2>1. \A u, v \in Ticks : email'[u] # <<>> /\ email'[v] # <<>> => u = v
      BY <1>11
    <2>2. \A u \in Ticks : \A i, j \in 1..Len(email'[u]) : email'[u][i] = email'[u][j] => i = j
      BY <1>8, <1>10, <1>11, <1>12
    <2>3. \A u \in Ticks : \A i \in 1..Len(email'[u]) :
            sent'[email'[u][i]] > 0 => email'[u][i] \in missed'
      BY <1>1, <1>4, <1>9, <1>10, <1>11, <1>12
    <2> QED
      BY <2>1, <2>2, <2>3 DEF QueuesAreUnsent
  <1>14. LedgerTypeOK'
    BY <1>1, <1>2, <1>10 DEF LedgerTypeOK
  <1> QED
    BY <1>1, <1>13, <1>14
    DEF LedgerInv, LedgerSettled, SendsLeaveTraces, Recorded, PostIsUnsent, SentTwiceOnlyUnrecorded

LEMMA LedgerFinite == None \notin Posts /\ Emails \subseteq Entries /\ Posts \subseteq Entries
                      /\ \A e \in Emails : e \notin Posts
  BY ApprovalsAssumption DEF Entries

LEMMA ProposesEmailSafe ==
  ASSUME LedgerInv, NEW e \in Emails, ProposesEmail(e) PROVE LedgerInv'
  <1> USE DEF cli
  <1>1. /\ Fresh(e) /\ file' = Append(file, [id |-> e, status |-> "pending"])
        /\ touched' = touched \cup {e}
        /\ UNCHANGED <<cli, email, post, logged, sent, missed, unlogged, commands, faults>>
    BY DEF ProposesEmail, NoFault
  <1>2. LedgerTypeOK /\ file \in Seq(Row) /\ Settled(file) /\ e \in Entries /\ "pending" \in Status
    BY LedgerFinite DEF LedgerInv, LedgerTypeOK, LedgerSettled, Status
  <1>3. RowsOf(e, file) = {}
    BY <1>1 DEF Fresh, In, RowsOf
  <1>4. file' \in Seq(Row)
    BY <1>1, <1>2, Appended
  <1>5. Settled(file') /\ \A x \in Entries : IsApplied(x, file) => IsApplied(x, file')
    BY <1>1, <1>2, <1>3, AppendSettles
  <1>6. \A x \in Entries : Recorded(x) => Recorded(x)'
    BY <1>1, <1>5 DEF Recorded
  <1>7. QueuesAreUnsent'
    BY <1>1, <1>2, QueuesStay DEF LedgerInv
  <1>8. LedgerTypeOK'
    BY <1>1, <1>2, <1>4 DEF LedgerTypeOK
  <1>9. LedgerSettled' /\ SendsLeaveTraces' /\ PostIsUnsent' /\ SentTwiceOnlyUnrecorded'
    BY <1>1, <1>5, <1>6
    DEF LedgerInv, LedgerSettled, SendsLeaveTraces, PostIsUnsent, SentTwiceOnlyUnrecorded
  <1> QED
    BY <1>7, <1>8, <1>9 DEF LedgerInv

\* A step of a script that leaves the ledger alone, and what goes out of the daemon: what it is
\* about to write is settled.
LEMMA ScriptsSafe ==
  ASSUME LedgerInv, UNCHANGED <<file, outbound, missed>>,
         faults' \in 0..MaxFaults, commands' \in 0..MaxCommands,
         todo' \in [Scripts -> Seq(Entries)], draft' \in [Scripts -> Posts \cup {None}],
         byScript' \in [Entries -> Nat], NEW s \in Scripts,
         \/ UNCHANGED script
         \/ \E g \in Seq(Row) : script' = [script EXCEPT ![s] = g] /\ Settled(g)
  PROVE  LedgerInv'
  <1>1. LedgerTypeOK /\ LedgerSettled
    BY DEF LedgerInv
  <1>2. script' \in [Scripts -> {None} \cup Seq(Row)]
        /\ \A u \in Scripts : script'[u] # None => Settled(script'[u])
    <2>1. CASE UNCHANGED script
      BY <1>1, <2>1 DEF LedgerTypeOK, LedgerSettled
    <2>2. ASSUME NEW g \in Seq(Row), script' = [script EXCEPT ![s] = g], Settled(g)
          PROVE  /\ script' \in [Scripts -> {None} \cup Seq(Row)]
                 /\ \A u \in Scripts : script'[u] # None => Settled(script'[u])
      <3>1. \A u \in Scripts : script'[u] = IF u = s THEN g ELSE script[u]
        BY <1>1, <2>2 DEF LedgerTypeOK
      <3>2. script' \in [Scripts -> {None} \cup Seq(Row)]
        BY <1>1, <2>2 DEF LedgerTypeOK
      <3> QED
        BY <1>1, <2>2, <3>1, <3>2 DEF LedgerSettled
    <2> QED
      BY <2>1, <2>2
  <1>3. LedgerSettled'
    <2>1. file' = file
      OBVIOUS
    <2> QED
      BY <1>1, <1>2, <2>1 DEF LedgerSettled
  <1>4. LedgerTypeOK'
    BY <1>1, <1>2 DEF LedgerTypeOK, outbound
  <1> QED
    BY <1>3, <1>4
    DEF LedgerInv, SendsLeaveTraces, Recorded, QueuesAreUnsent, PostIsUnsent,
        SentTwiceOnlyUnrecorded, outbound

LEMMA LoadsSafe == ASSUME LedgerInv, NEW s \in Scripts, Loads(s) PROVE LedgerInv'
  <1>1. /\ commands < MaxCommands /\ commands' = commands + 1
        /\ UNCHANGED <<file, todo, byScript, outbound, missed, faults>>
    BY DEF Loads, NoFault
  <1>2. LedgerTypeOK /\ file \in Seq(Row) /\ Settled(file)
    BY DEF LedgerInv, LedgerTypeOK, LedgerSettled
  <1>3. /\ draft' \in [Scripts -> Posts \cup {None}]
        /\ \E g \in Seq(Row) : script' = [script EXCEPT ![s] = g] /\ Settled(g)
    <2>1. ASSUME NEW e \in Posts, NEW trust \in {"pending", "auto_applied"}, Fresh(e),
                 script' = [script EXCEPT ![s] = Append(file, [id |-> e, status |-> trust])],
                 draft' = [draft EXCEPT ![s] = IF e \in Trusted THEN e ELSE None]
          PROVE  /\ draft' \in [Scripts -> Posts \cup {None}]
                 /\ \E g \in Seq(Row) : script' = [script EXCEPT ![s] = g] /\ Settled(g)
      <3>1. e \in Entries /\ trust \in Status /\ RowsOf(e, file) = {}
        BY <2>1, LedgerFinite DEF Status, Fresh, In, RowsOf
      <3>2. Append(file, [id |-> e, status |-> trust]) \in Seq(Row)
        BY <1>2, <3>1, Appended
      <3>3. Settled(Append(file, [id |-> e, status |-> trust]))
        BY <1>2, <3>1, AppendSettles
      <3>4. draft' \in [Scripts -> Posts \cup {None}]
        BY <1>2, <2>1 DEF LedgerTypeOK
      <3> QED
        BY <2>1, <3>2, <3>3, <3>4
    <2>2. ASSUME NEW e \in Entries, NEW rating \in {"approved", "rejected"}, In(e, file),
                 script' = [script EXCEPT ![s] = Rated(e, rating)], UNCHANGED draft
          PROVE  /\ draft' \in [Scripts -> Posts \cup {None}]
                 /\ \E g \in Seq(Row) : script' = [script EXCEPT ![s] = g] /\ Settled(g)
      <3>1. rating \in Status
        BY DEF Status
      <3>2. Rated(e, rating) \in Seq(Row) /\ Settled(Rated(e, rating))
        BY <1>2, <2>2, <3>1, RatedFacts
      <3> QED
        BY <1>2, <2>2, <3>2 DEF LedgerTypeOK
    <2>3. \A e : (IF e \in Trusted THEN "auto_applied" ELSE "pending")
                 \in {"pending", "auto_applied"}
      OBVIOUS
    <2> QED
      BY <2>1, <2>2, <2>3, Zenon DEF Loads
  <1>4. /\ commands' \in 0..MaxCommands /\ faults' \in 0..MaxFaults
        /\ todo' \in [Scripts -> Seq(Entries)] /\ byScript' \in [Entries -> Nat]
    BY <1>1, <1>2, ApprovalsAssumption DEF LedgerTypeOK
  <1> QED
    BY <1>1, <1>3, <1>4, ScriptsSafe

LEMMA StartsApplySafe == ASSUME LedgerInv, NEW s \in Scripts, StartsApply(s) PROVE LedgerInv'
  <1>1. PICK S : /\ S \subseteq Entries
                 /\ todo' = [todo EXCEPT ![s] = Oldest(S)]
                 /\ commands < MaxCommands /\ commands' = commands + 1
                 /\ UNCHANGED <<file, script, draft, byScript, outbound, missed, faults>>
    <2> DEFINE approved == {e \in Entries : Contains(file, [id |-> e, status |-> "approved"])}
               posts == Oldest(approved \cap Posts)
               now == Range(SubSeq(posts, 1, Min({Len(posts), MaxApply})))
               S == (approved \cap Emails) \cup now
    <2>1. /\ todo' = [todo EXCEPT ![s] = Oldest(S)]
          /\ commands < MaxCommands /\ commands' = commands + 1
          /\ UNCHANGED <<file, script, draft, byScript, outbound, missed, faults>>
      BY Zenon DEF StartsApply, NoFault
    <2>2. now \subseteq Entries
      <3>1. file \in Seq(Row) /\ approved \cap Posts \subseteq Entries
        BY DEF LedgerInv, LedgerTypeOK
      <3> HIDE DEF approved
      <3>2. posts \in Seq(approved \cap Posts)
        BY <3>1, OldestFacts
      <3> HIDE DEF posts
      <3>3. Len(posts) \in Nat /\ \A i \in 1..Len(posts) : posts[i] \in Entries
        BY <3>1, <3>2, SeqDomain
      <3>4. PICK n : n = Min({Len(posts), MaxApply})
        OBVIOUS
      <3>5. n \in Nat /\ n <= Len(posts)
        <4>1. {Len(posts), MaxApply} \subseteq Nat
          BY <3>3, ApprovalsAssumption
        <4> QED
          BY <3>4, <4>1, MinFacts
      <3>6. SubSeq(posts, 1, n) \in Seq(Entries)
        <4>1. \A i \in 1..n : posts[i] \in Entries
          BY <3>3, <3>5
        <4> QED
          BY <3>5, <4>1, SubSeqProperties
      <3>7. \A i \in DOMAIN SubSeq(posts, 1, n) : SubSeq(posts, 1, n)[i] \in Entries
        BY <3>6, SeqDomain
      <3> QED
        BY <3>4, <3>7 DEF Range
    <2>3. S \subseteq Entries
      BY <2>2
    <2> HIDE DEF S
    <2> QED
      BY <2>1, <2>3
  <1>2. LedgerTypeOK /\ file \in Seq(Row)
    BY DEF LedgerInv, LedgerTypeOK
  <1>3. Oldest(S) \in Seq(Entries)
    BY <1>1, <1>2, OldestFacts, SeqMonotonic
  <1>4. /\ todo' \in [Scripts -> Seq(Entries)] /\ draft' \in [Scripts -> Posts \cup {None}]
        /\ byScript' \in [Entries -> Nat]
        /\ commands' \in 0..MaxCommands /\ faults' \in 0..MaxFaults
    BY <1>1, <1>2, <1>3, ApprovalsAssumption DEF LedgerTypeOK
  <1> QED
    BY <1>1, <1>4, ScriptsSafe

LEMMA ActsOnSafe == ASSUME LedgerInv, NEW s \in Scripts, ActsOn(s) PROVE LedgerInv'
  <1>1. PICK e : e = Head(todo[s])
    OBVIOUS
  <1>2. PICK rating \in {"applied", "rejected"}, posted \in BOOLEAN :
          /\ byScript' = [byScript EXCEPT ![e] = IF posted THEN @ + 1 ELSE @]
          /\ IF In(e, file)
               THEN /\ script' = [script EXCEPT ![s] = Rated(e, rating)]
                    /\ todo' = [todo EXCEPT ![s] = Tail(@)]
               ELSE todo' = [todo EXCEPT ![s] = <<>>] /\ UNCHANGED script
    BY <1>1 DEF ActsOn
  <1>3. todo[s] # <<>> /\ UNCHANGED <<file, draft, outbound, missed, commands, faults>>
    BY DEF ActsOn, NoFault
  <1>4. LedgerTypeOK /\ file \in Seq(Row) /\ Settled(file)
    BY DEF LedgerInv, LedgerTypeOK, LedgerSettled
  <1>5. todo[s] \in Seq(Entries) /\ e \in Entries /\ Tail(todo[s]) \in Seq(Entries)
    BY <1>1, <1>3, <1>4 DEF LedgerTypeOK
  <1>6. rating \in Status
    BY DEF Status
  <1>7. todo' \in [Scripts -> Seq(Entries)]
    <2>1. PICK q \in Seq(Entries) : todo' = [todo EXCEPT ![s] = q]
      <3>1. <<>> \in Seq(Entries)
        OBVIOUS
      <3> QED
        BY <1>2, <1>5, <3>1, Zenon
    <2> QED
      BY <1>4, <2>1 DEF LedgerTypeOK
  <1>8. byScript' \in [Entries -> Nat]
    <2>1. byScript \in [Entries -> Nat] /\ e \in Entries /\ byScript[e] + 1 \in Nat
      BY <1>4, <1>5 DEF LedgerTypeOK
    <2>2. PICK n \in Nat : byScript' = [byScript EXCEPT ![e] = n]
      <3>1. CASE posted
        <4>1. byScript' = [byScript EXCEPT ![e] = byScript[e] + 1]
          BY <1>2, <3>1, Zenon
        <4> QED
          BY <2>1, <4>1
      <3>2. CASE ~posted
        <4>1. byScript' = [byScript EXCEPT ![e] = byScript[e]]
          BY <1>2, <3>2, Zenon
        <4> QED
          BY <2>1, <4>1
      <3> QED
        BY <3>1, <3>2
    <2> QED
      BY <2>1, <2>2
  <1>9. \/ UNCHANGED script
        \/ \E g \in Seq(Row) : script' = [script EXCEPT ![s] = g] /\ Settled(g)
    BY <1>2, <1>4, <1>5, <1>6, RatedFacts
  <1>10. /\ draft' \in [Scripts -> Posts \cup {None}]
         /\ commands' \in 0..MaxCommands /\ faults' \in 0..MaxFaults
    BY <1>3, <1>4 DEF LedgerTypeOK
  <1> QED
    BY <1>3, <1>7, <1>8, <1>9, <1>10, ScriptsSafe

LEMMA PostsDraftSafe == ASSUME LedgerInv, NEW s \in Scripts, PostsDraft(s) PROVE LedgerInv'
  <1>1. /\ draft[s] # None /\ draft' = [draft EXCEPT ![s] = None]
        /\ \/ byScript' = [byScript EXCEPT ![draft[s]] = @ + 1]
           \/ UNCHANGED byScript
        /\ UNCHANGED <<file, script, todo, outbound, missed, commands, faults>>
    BY DEF PostsDraft, NoFault
  <1>2. LedgerTypeOK
    BY DEF LedgerInv
  <1>3. draft[s] \in Entries
    BY <1>1, <1>2, LedgerFinite DEF LedgerTypeOK
  <1>4. byScript' \in [Entries -> Nat]
    <2>1. byScript \in [Entries -> Nat] /\ byScript[draft[s]] + 1 \in Nat
      BY <1>2, <1>3 DEF LedgerTypeOK
    <2> QED
      BY <1>1, <2>1
  <1>5. /\ draft' \in [Scripts -> Posts \cup {None}] /\ todo' \in [Scripts -> Seq(Entries)]
        /\ commands' \in 0..MaxCommands /\ faults' \in 0..MaxFaults
    BY <1>1, <1>2 DEF LedgerTypeOK
  <1> QED
    BY <1>1, <1>4, <1>5, ScriptsSafe

LEMMA WritesSafe == ASSUME LedgerInv, NEW s \in Scripts, Writes(s) PROVE LedgerInv'
  <1>1. /\ script[s] # None /\ file' = script[s] /\ script' = [script EXCEPT ![s] = None]
        /\ missed' = missed \cup (Applied(file) \ Applied(script[s]))
        /\ UNCHANGED <<todo, draft, byScript, outbound, commands, faults>>
    BY DEF Writes, NoFault
  <1>2. LedgerTypeOK /\ file \in Seq(Row) /\ script[s] \in Seq(Row) /\ Settled(script[s])
    BY <1>1 DEF LedgerInv, LedgerTypeOK, LedgerSettled
  <1>3. \A f \in Seq(Row) : Applied(f) = {e \in Entries : IsApplied(e, f)}
    <2> TAKE f \in Seq(Row)
    <2>1. \A k \in DOMAIN f : f[k] \in Row
      BY SeqDomain
    <2>2. \A e \in Entries, r \in Row :
            r = [id |-> e, status |-> "applied"] <=> r.id = e /\ r.status = "applied"
      BY DEF Row
    <2> QED
      BY <2>1, <2>2 DEF Applied, IsApplied, RowsOf
  <1>4. \A x \in Entries : Recorded(x) => Recorded(x)'
    BY <1>1, <1>2, <1>3 DEF Recorded
  <1>5. missed \subseteq missed' /\ missed' \subseteq Entries
    BY <1>1, <1>2 DEF LedgerTypeOK, Applied
  <1>6. script' \in [Scripts -> {None} \cup Seq(Row)]
        /\ \A u \in Scripts : script'[u] # None => script'[u] = script[u]
    BY <1>1, <1>2 DEF LedgerTypeOK
  <1>7. LedgerSettled'
    BY <1>1, <1>2, <1>6 DEF LedgerInv, LedgerSettled
  <1>8. LedgerTypeOK'
    BY <1>1, <1>2, <1>5, <1>6 DEF LedgerTypeOK, outbound
  <1>9. QueuesAreUnsent'
    BY <1>1, <1>2, <1>5, QueuesStay DEF LedgerInv, outbound
  <1>10. SendsLeaveTraces' /\ PostIsUnsent' /\ SentTwiceOnlyUnrecorded'
    BY <1>1, <1>4, <1>5
    DEF LedgerInv, SendsLeaveTraces, PostIsUnsent, SentTwiceOnlyUnrecorded, outbound
  <1> QED
    BY <1>7, <1>8, <1>9, <1>10 DEF LedgerInv

LEMMA SkipsSafe == ASSUME LedgerInv, NEW t \in Ticks, Skips(t) PROVE LedgerInv'
  <1> USE DEF cli
  <1> DEFINE e == Head(email[t])
  <1>1. /\ email[t] # <<>> /\ NextEmail(t) /\ Marks(e)
        /\ UNCHANGED <<cli, post, touched, logged, sent, unlogged, commands>>
    BY DEF Skips
  <1>2. LedgerTypeOK /\ LedgerSettled /\ QueuesAreUnsent
    BY DEF LedgerInv
  <1>3. e \in Emails
    BY <1>1, <1>2 DEF LedgerTypeOK
  <1> HIDE DEF e
  <1>4. /\ file' \in Seq(Row) /\ Settled(file') /\ faults' \in 0..MaxFaults
        /\ missed' \subseteq Entries /\ missed \subseteq missed'
        /\ \A x \in Entries : Recorded(x) => Recorded(x)'
    BY <1>1, <1>2, <1>3, MarksRecord, LedgerFinite DEF LedgerTypeOK, LedgerSettled
  <1>5. email' \in [Ticks -> Seq(Emails)] /\ QueuesAreUnsent'
    BY <1>1, <1>2, <1>4, QueueMovesOn
  <1>6. LedgerTypeOK'
    BY <1>1, <1>2, <1>4, <1>5 DEF LedgerTypeOK
  <1>7. LedgerSettled' /\ SendsLeaveTraces' /\ PostIsUnsent' /\ SentTwiceOnlyUnrecorded'
    BY <1>1, <1>4
    DEF LedgerInv, LedgerSettled, SendsLeaveTraces, PostIsUnsent, SentTwiceOnlyUnrecorded
  <1> QED
    BY <1>5, <1>6, <1>7 DEF LedgerInv

LEMMA SendsSafe == ASSUME LedgerInv, NEW t \in Ticks, Sends(t) PROVE LedgerInv'
  <1> USE DEF cli
  <1>1. PICK e : e = Head(email[t])
    OBVIOUS
  <1>2. /\ email[t] # <<>> /\ NextEmail(t) /\ Marks(e)
        /\ sent' = [sent EXCEPT ![e] = @ + 1] /\ touched' = touched \cup {e}
        /\ UNCHANGED <<cli, post, logged, unlogged, commands>>
    BY <1>1 DEF Sends
  <1>3. LedgerTypeOK /\ LedgerSettled /\ QueuesAreUnsent
    BY DEF LedgerInv
  <1>4. e \in Emails /\ e \in Entries /\ e \notin Posts
    BY <1>1, <1>2, <1>3, LedgerFinite DEF LedgerTypeOK
  <1>5. /\ file' \in Seq(Row) /\ Settled(file') /\ faults' \in 0..MaxFaults
        /\ missed' \subseteq Entries /\ missed \subseteq missed'
        /\ Recorded(e)' /\ \A x \in Entries : Recorded(x) => Recorded(x)'
    BY <1>2, <1>3, <1>4, MarksRecord DEF LedgerTypeOK, LedgerSettled
  <1>6. /\ sent' \in [Entries -> Nat] /\ sent'[e] = sent[e] + 1 /\ sent[e] \in Nat
        /\ \A x \in Entries \ {e} : sent'[x] = sent[x]
    BY <1>2, <1>3, <1>4 DEF LedgerTypeOK
  <1>7. \A x \in Emails : x # Head(email[t]) => sent'[x] = sent[x]
    BY <1>1, <1>6, LedgerFinite
  <1>8. email' \in [Ticks -> Seq(Emails)] /\ QueuesAreUnsent' /\ (sent[e] > 0 => e \in missed)
    BY <1>1, <1>2, <1>3, <1>5, <1>7, QueueMovesOn
  <1>9. LedgerTypeOK'
    BY <1>2, <1>3, <1>4, <1>5, <1>6, <1>8 DEF LedgerTypeOK
  <1>10. LedgerSettled'
    BY <1>2, <1>5 DEF LedgerInv, LedgerSettled
  <1>11. SendsLeaveTraces'
    BY <1>2, <1>4, <1>5, <1>6 DEF LedgerInv, SendsLeaveTraces
  <1>12. PostIsUnsent'
    <2>1. post # None => post \in Entries \ {e}
      BY <1>3, <1>4, LedgerFinite DEF LedgerTypeOK
    <2> QED
      BY <1>2, <1>5, <1>6, <2>1 DEF LedgerInv, PostIsUnsent
  <1>13. SentTwiceOnlyUnrecorded'
    <2> SUFFICES ASSUME NEW x \in Entries, sent'[x] > 1
                 PROVE  x \in missed' /\ (x \in Posts => x \in unlogged')
      BY DEF SentTwiceOnlyUnrecorded
    <2>1. CASE x = e
      BY <1>4, <1>5, <1>6, <1>8, <2>1
    <2>2. CASE x # e
      BY <1>2, <1>5, <1>6, <2>2 DEF LedgerInv, SentTwiceOnlyUnrecorded
    <2> QED
      BY <2>1, <2>2
  <1> QED
    BY <1>8, <1>9, <1>10, <1>11, <1>12, <1>13 DEF LedgerInv

LEMMA RefusedSafe == ASSUME LedgerInv, NEW t \in Ticks, Refused(t) PROVE LedgerInv'
  <1> USE DEF cli
  <1>1. /\ email[t] # <<>> /\ NextEmail(t)
        /\ UNCHANGED <<file, cli, post, touched, logged, sent, missed, unlogged, commands,
                      faults>>
    BY DEF Refused, NoFault
  <1>2. LedgerTypeOK /\ QueuesAreUnsent
    BY DEF LedgerInv
  <1>3. email' \in [Ticks -> Seq(Emails)] /\ QueuesAreUnsent'
    BY <1>1, <1>2, QueueMovesOn
  <1>4. LedgerTypeOK'
    BY <1>1, <1>2, <1>3 DEF LedgerTypeOK
  <1> QED
    BY <1>1, <1>3, <1>4
    DEF LedgerInv, LedgerSettled, SendsLeaveTraces, Recorded, PostIsUnsent, SentTwiceOnlyUnrecorded

LEMMA CoolsSafe == ASSUME LedgerInv, NEW e \in Emails, Cools(e) PROVE LedgerInv'
  <1> USE DEF cli
  <1>1. /\ touched' = touched \ {e}
        /\ UNCHANGED <<file, cli, email, post, logged, sent, missed, unlogged, commands, faults>>
    BY DEF Cools, NoFault
  <1> QED
    BY <1>1
    DEF LedgerInv, LedgerTypeOK, LedgerSettled, SendsLeaveTraces, Recorded, QueuesAreUnsent,
        PostIsUnsent, SentTwiceOnlyUnrecorded

LEMMA PostStartsSafe == ASSUME LedgerInv, PostStarts PROVE LedgerInv'
  <1> USE DEF cli
  <1> DEFINE S == {e \in Posts : Approved(e) /\ ~Consumed(e) /\ e \notin logged}
  <1>1. /\ Oldest(S) # <<>> /\ post' = Head(Oldest(S))
        /\ UNCHANGED <<file, cli, email, touched, logged, sent, missed, unlogged, commands,
                      faults>>
    BY DEF PostStarts, NoFault
  <1>2. LedgerTypeOK /\ file \in Seq(Row)
    BY DEF LedgerInv, LedgerTypeOK
  <1>3. post' \in S
    <2> HIDE DEF S
    <2>1. Oldest(S) \in Seq(S)
      BY <1>2, OldestFacts
    <2> QED
      BY <1>1, <2>1, HeadTailProperties
  <1>4. sent[post'] > 0 => post' \in missed \cap unlogged
    <2>1. ~IsApplied(post', file)
      BY <1>3 DEF Consumed, IsApplied, RowsOf
    <2> QED
      BY <1>3, <2>1, LedgerFinite DEF LedgerInv, SendsLeaveTraces, Recorded
  <1>5. LedgerTypeOK'
    BY <1>1, <1>2, <1>3 DEF LedgerTypeOK
  <1>6. PostIsUnsent'
    BY <1>1, <1>4 DEF PostIsUnsent
  <1> QED
    BY <1>1, <1>5, <1>6
    DEF LedgerInv, LedgerSettled, SendsLeaveTraces, Recorded, QueuesAreUnsent,
        SentTwiceOnlyUnrecorded

LEMMA PostedSafe == ASSUME LedgerInv, Posted PROVE LedgerInv'
  <1> USE DEF cli
  <1>1. PICK e : e = post
    OBVIOUS
  <1>2. /\ e # None /\ post' = None /\ Marks(e) /\ sent' = [sent EXCEPT ![e] = @ + 1]
        /\ \/ logged' = logged \cup {e} /\ UNCHANGED unlogged
           \/ unlogged' = unlogged \cup {e} /\ UNCHANGED logged
        /\ UNCHANGED <<cli, email, touched, commands>>
    BY <1>1 DEF Posted
  <1>3. LedgerTypeOK /\ LedgerSettled /\ QueuesAreUnsent
    BY DEF LedgerInv
  <1>4. e \in Posts /\ e \in Entries /\ e \notin Emails
    BY <1>1, <1>2, <1>3, LedgerFinite DEF LedgerTypeOK
  <1>5. /\ file' \in Seq(Row) /\ Settled(file') /\ faults' \in 0..MaxFaults
        /\ missed' \subseteq Entries /\ missed \subseteq missed'
        /\ Recorded(e)' /\ \A x \in Entries : Recorded(x) => Recorded(x)'
    BY <1>2, <1>3, <1>4, MarksRecord DEF LedgerTypeOK, LedgerSettled
  <1>6. /\ sent' \in [Entries -> Nat] /\ sent'[e] = sent[e] + 1 /\ sent[e] \in Nat
        /\ \A x \in Entries \ {e} : sent'[x] = sent[x]
    BY <1>2, <1>3, <1>4 DEF LedgerTypeOK
  <1>7. /\ logged \subseteq logged' /\ unlogged \subseteq unlogged' /\ e \in logged' \cup unlogged'
        /\ logged' \subseteq Posts /\ unlogged' \subseteq Posts
    BY <1>2, <1>3, <1>4 DEF LedgerTypeOK
  <1>8. QueuesAreUnsent'
    <2>1. \A x \in Emails : sent'[x] = sent[x]
      BY <1>4, <1>6, LedgerFinite
    <2> QED
      BY <1>2, <1>3, <1>5, <2>1, QueuesStay
  <1>9. LedgerTypeOK'
    BY <1>2, <1>3, <1>5, <1>6, <1>7 DEF LedgerTypeOK
  <1>10. LedgerSettled' /\ PostIsUnsent'
    BY <1>2, <1>5 DEF LedgerInv, LedgerSettled, PostIsUnsent
  <1>11. SendsLeaveTraces'
    BY <1>4, <1>5, <1>6, <1>7 DEF LedgerInv, SendsLeaveTraces
  <1>12. SentTwiceOnlyUnrecorded'
    <2> SUFFICES ASSUME NEW x \in Entries, sent'[x] > 1
                 PROVE  x \in missed' /\ (x \in Posts => x \in unlogged')
      BY DEF SentTwiceOnlyUnrecorded
    <2>1. CASE x = e
      <3>1. sent[e] > 0
        BY <1>6, <2>1
      <3> QED
        BY <1>1, <1>2, <1>5, <1>7, <2>1, <3>1 DEF LedgerInv, PostIsUnsent
    <2>2. CASE x # e
      BY <1>5, <1>6, <1>7, <2>2 DEF LedgerInv, SentTwiceOnlyUnrecorded
    <2> QED
      BY <2>1, <2>2
  <1> QED
    BY <1>8, <1>9, <1>10, <1>11, <1>12 DEF LedgerInv

LEMMA PostFailsSafe == ASSUME LedgerInv, PostFails PROVE LedgerInv'
  <1> USE DEF cli
  <1>1. /\ post' = None
        /\ UNCHANGED <<file, cli, email, touched, logged, sent, missed, unlogged, commands,
                      faults>>
    BY DEF PostFails, NoFault
  <1> QED
    BY <1>1
    DEF LedgerInv, LedgerTypeOK, LedgerSettled, SendsLeaveTraces, Recorded, QueuesAreUnsent,
        PostIsUnsent, SentTwiceOnlyUnrecorded

LEMMA CrashesSafe == ASSUME LedgerInv, Crashes PROVE LedgerInv'
  <1> USE DEF cli
  <1>1. LedgerTypeOK
    BY DEF LedgerInv
  <1> DEFINE Heads == {Head(email[t]) : t \in {u \in Ticks : email[u] # <<>>}}
  <1>2. PICK out \in SUBSET ((Heads \ (touched \cup Barred)) \cup ({post} \ {None})) :
          /\ sent' = [e \in Entries |-> IF e \in out THEN sent[e] + 1 ELSE sent[e]]
          /\ missed' = missed \cup out /\ unlogged' = unlogged \cup (out \cap Posts)
    BY DEF Crashes
  <1>3. /\ faults' \in 0..MaxFaults
        /\ email' = [t \in Ticks |-> <<>>] /\ post' = None
        /\ UNCHANGED <<file, cli, touched, logged, commands>>
    BY <1>1, ApprovalsAssumption DEF Crashes, Fault, LedgerTypeOK
  <1>4. \A e \in Heads : e \in Emails /\ (sent[e] > 0 => e \in missed)
    <2> SUFFICES ASSUME NEW t \in Ticks, email[t] # <<>>
                 PROVE  /\ Head(email[t]) \in Emails
                        /\ sent[Head(email[t])] > 0 => Head(email[t]) \in missed
      OBVIOUS
    <2>1. email[t] \in Seq(Emails)
      BY <1>1 DEF LedgerTypeOK
    <2>2. Head(email[t]) = email[t][1] /\ 1 \in 1..Len(email[t]) /\ email[t][1] \in Emails
      BY <2>1
    <2> QED
      BY <2>2 DEF LedgerInv, QueuesAreUnsent
  <1> HIDE DEF Heads
  <1>5. out \subseteq Entries
    BY <1>1, <1>2, <1>4, LedgerFinite DEF LedgerTypeOK
  <1>6. sent' \in [Entries -> Nat] /\ missed \subseteq missed' /\ unlogged \subseteq unlogged'
    BY <1>1, <1>2 DEF LedgerTypeOK
  <1>7. LedgerTypeOK'
    BY <1>1, <1>2, <1>3, <1>5, <1>6 DEF LedgerTypeOK
  <1>8. QueuesAreUnsent'
    <2>1. \A t \in Ticks : email'[t] = <<>> /\ Len(email'[t]) = 0
      BY <1>3
    <2> QED
      BY <2>1 DEF QueuesAreUnsent
  <1>9. LedgerSettled' /\ PostIsUnsent'
    BY <1>3 DEF LedgerInv, LedgerSettled, PostIsUnsent
  <1>10. \A x \in Entries \ out : sent'[x] = sent[x]
    BY <1>2
  <1>11. \A x \in Entries : Recorded(x) => Recorded(x)'
    BY <1>3, <1>6 DEF Recorded
  <1>12. \A x \in out : Recorded(x)' /\ (x \in Posts => x \in unlogged')
    BY <1>2 DEF Recorded
  <1>13. SendsLeaveTraces' /\ SentTwiceOnlyUnrecorded'
    BY <1>2, <1>3, <1>6, <1>10, <1>11, <1>12
    DEF LedgerInv, SendsLeaveTraces, SentTwiceOnlyUnrecorded
  <1> QED
    BY <1>7, <1>8, <1>9, <1>13 DEF LedgerInv

LEMMA LedgerStarts == LedgerInit => LedgerInv
  <1> SUFFICES ASSUME LedgerInit PROVE LedgerInv
    OBVIOUS
  <1>1. /\ file \in Seq(Row) /\ DOMAIN file = 1..Len(Waiting)
        /\ \A k \in 1..Len(Waiting) : file[k].id = Waiting[k]
    <2>1. Len(Waiting) \in Nat /\ \A k \in 1..Len(Waiting) : Waiting[k] \in Entries
      BY ApprovalsAssumption, SeqDomain, LedgerFinite
    <2>2. file = [k \in 1..Len(Waiting) |-> [id |-> Waiting[k], status |-> "pending"]]
      BY DEF LedgerInit
    <2>3. file \in [1..Len(Waiting) -> Row]
      BY <2>1, <2>2 DEF Row, Status
    <2> QED
      BY <2>1, <2>2, <2>3, SeqDef
  <1>2. email \in [Ticks -> Seq(Emails)] /\ \A t \in Ticks : email[t] = <<>> /\ Len(email[t]) = 0
    BY DEF LedgerInit
  <1>3. \A s \in Scripts : script[s] = None
    BY DEF LedgerInit
  <1>4. Settled(file)
    <2> SUFFICES ASSUME NEW e \in Entries, NEW j \in RowsOf(e, file), NEW k \in RowsOf(e, file),
                        j < k
                 PROVE  FALSE
      BY DEF Settled
    <2>1. /\ j \in 1..Len(Waiting) /\ k \in 1..Len(Waiting) /\ Waiting[j] = Waiting[k]
      BY <1>1 DEF RowsOf
    <2>2. j = k /\ j \in Nat /\ Len(Waiting) \in Nat
      BY <2>1, ApprovalsAssumption
    <2> QED
      BY <2>2
  <1>5. LedgerTypeOK
    BY <1>1, <1>2, ApprovalsAssumption DEF LedgerInit, LedgerTypeOK
  <1>6. LedgerSettled
    BY <1>3, <1>4 DEF LedgerSettled
  <1>7. QueuesAreUnsent
    BY <1>2 DEF QueuesAreUnsent
  <1>8. SendsLeaveTraces /\ PostIsUnsent /\ SentTwiceOnlyUnrecorded
    BY DEF LedgerInit, SendsLeaveTraces, PostIsUnsent, SentTwiceOnlyUnrecorded
  <1> QED
    BY <1>5, <1>6, <1>7, <1>8 DEF LedgerInv

LEMMA LedgerStep == ASSUME LedgerInv, [LedgerNext]_ledgerVars PROVE LedgerInv'
  <1>1. CASE \E e \in Emails : ProposesEmail(e) \/ Cools(e)
    BY <1>1, ProposesEmailSafe, CoolsSafe
  <1>2. CASE \E s \in Scripts :
                \/ Loads(s) \/ StartsApply(s) \/ ActsOn(s) \/ PostsDraft(s) \/ Writes(s)
    BY <1>2, LoadsSafe, StartsApplySafe, ActsOnSafe, PostsDraftSafe, WritesSafe
  <1>3. CASE \E t \in Ticks : TickStarts(t) \/ Skips(t) \/ Sends(t) \/ Refused(t)
    BY <1>3, TickStartsSafe, SkipsSafe, SendsSafe, RefusedSafe
  <1>4. CASE PostStarts \/ Posted \/ PostFails \/ Crashes
    BY <1>4, PostStartsSafe, PostedSafe, PostFailsSafe, CrashesSafe
  <1>5. CASE UNCHANGED ledgerVars
    BY <1>5
    DEF ledgerVars, cli, outbound, LedgerInv, LedgerTypeOK, LedgerSettled, SendsLeaveTraces, Recorded,
        QueuesAreUnsent, PostIsUnsent, SentTwiceOnlyUnrecorded
  <1> QED
    BY <1>1, <1>2, <1>3, <1>4, <1>5 DEF LedgerNext

\* The daemon sends no email and no post twice while the row of its send stands in the ledger,
\* for any number of entries, scripts that rewrite the file, apply and post, overlapping ticks,
\* crashes and lost rows.  (What the scripts post besides is another matter: OneSender.)
THEOREM SentOnce == LedgerSpec => [](LedgerTypeOK /\ SentTwiceOnlyUnrecorded)
  <1>1. LedgerInit => LedgerInv
    BY LedgerStarts
  <1>2. LedgerInv /\ [LedgerNext]_ledgerVars => LedgerInv'
    BY LedgerStep
  <1>3. LedgerInv => LedgerTypeOK /\ SentTwiceOnlyUnrecorded
    BY DEF LedgerInv
  <1> QED
    BY <1>1, <1>2, <1>3, PTL DEF LedgerSpec
=============================================================================

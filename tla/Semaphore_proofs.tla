-------------------------- MODULE Semaphore_proofs --------------------------
(***************************************************************************)
(* The task semaphore never oversubscribes its slots, never loses a         *)
(* wakeup, serves in order, and implements its contract, for every number   *)
(* of slots and every finite set of callers.                                *)
(*                                                                         *)
(* The invariant is the conjunction of the four that TLC checks: counting   *)
(* the holders needs that only the queue's head, a waiting caller, gets a   *)
(* freed slot, and that needs the queue to be exactly the waiters.          *)
(***************************************************************************)
EXTENDS Semaphore, FiniteSetTheorems, TLAPS

IInv == TypeOK /\ HoldersAreCounted /\ NobodyWaitsForAFreeSlot /\ QueueIsTheWaiters

-----------------------------------------------------------------------------
(* What each method does to the fields of the record *)

LEMMA AcquireEffect ==
  ASSUME TypeOK, NEW c \in Callers, Acquire(c)
  PROVE  /\ sem.entry[c] = "none"
         /\ \/ /\ sem.current < Max
               /\ sem' = [current |-> sem.current + 1, queue |-> sem.queue,
                          entry |-> [sem.entry EXCEPT ![c] = "granted"]]
            \/ /\ ~(sem.current < Max)
               /\ sem' = [current |-> sem.current, queue |-> Append(sem.queue, c),
                          entry |-> [sem.entry EXCEPT ![c] = "waiting"]]
  BY DEF TypeOK, Acquire, Acquired

LEMMA ReleaseEffect ==
  ASSUME TypeOK, NEW c \in Callers, Release(c), sem.current # 0
  PROVE  /\ sem.entry[c] = "granted"
         /\ \/ /\ sem.queue = <<>>
               /\ sem' = [current |-> sem.current - 1, queue |-> <<>>,
                          entry |-> [sem.entry EXCEPT ![c] = "none"]]
            \/ /\ sem.queue # <<>>
               /\ sem' = [current |-> sem.current, queue |-> Tail(sem.queue),
                          entry |-> [[sem.entry EXCEPT ![c] = "none"]
                                       EXCEPT ![Head(sem.queue)] = "granted"]]
  BY DEF TypeOK, Release, Released, Forgotten

LEMMA TimeoutEffect ==
  ASSUME TypeOK, NEW i \in 1..Len(sem.queue), sem' = TimedOut(sem, i)
  PROVE  sem' = [current |-> sem.current, queue |-> Spliced(sem.queue, i),
                 entry |-> [sem.entry EXCEPT ![sem.queue[i]] = "rejected"]]
  BY DEF TypeOK, TimedOut

LEMMA RejectAllEffect ==
  ASSUME TypeOK, RejectAll
  PROVE  sem' = [current |-> sem.current, queue |-> <<>>,
                 entry |-> [c \in Callers |->
                              IF InQueue(sem, c) THEN "rejected" ELSE sem.entry[c]]]
  BY DEF TypeOK, RejectAll, Drained

LEMMA NoticeEffect ==
  ASSUME TypeOK, NEW c \in Callers, Notice(c)
  PROVE  /\ sem.entry[c] = "rejected"
         /\ sem' = [current |-> sem.current, queue |-> sem.queue,
                    entry |-> [sem.entry EXCEPT ![c] = "none"]]
  BY DEF TypeOK, Notice, Forgotten

-----------------------------------------------------------------------------
(* Sequences and counting *)

LEMMA SplicedType ==
  ASSUME NEW S, NEW q \in Seq(S), NEW i \in 1..Len(q)
  PROVE  Spliced(q, i) \in Seq(S) /\ Len(Spliced(q, i)) = Len(q) - 1
  BY DEF Spliced

LEMMA HoldersAreFinite ==
  ASSUME TypeOK
  PROVE  /\ IsFiniteSet(With("granted")) /\ Cardinality(With("granted")) \in Nat
         /\ \A c \in With("granted") : Cardinality(With("granted")) # 0
  BY SemaphoreAssumption, FS_Subset, FS_CardinalityType, FS_EmptySet DEF With

-----------------------------------------------------------------------------
LEMMA InitIInv == Init => IInv
  <1> SUFFICES ASSUME Init PROVE IInv
    OBVIOUS
  <1>1. sem = [current |-> 0, queue |-> <<>>, entry |-> [c \in Callers |-> "none"]]
    BY DEF Init, Idle
  <1>2. TypeOK
    BY <1>1, SemaphoreAssumption DEF TypeOK, Entries
  <1>3. With("granted") = {}
    BY <1>1 DEF With
  <1>4. HoldersAreCounted
    BY <1>1, <1>3, FS_EmptySet, SemaphoreAssumption DEF HoldersAreCounted
  <1>5. NobodyWaitsForAFreeSlot /\ QueueIsTheWaiters
    BY <1>1 DEF NobodyWaitsForAFreeSlot, QueueIsTheWaiters, InQueue
  <1> QED
    BY <1>2, <1>4, <1>5 DEF IInv

LEMMA AcquireIInv == ASSUME IInv, NEW c \in Callers, Acquire(c) PROVE IInv'
  <1> USE DEF IInv
  <1>1. sem.entry[c] = "none" /\ ~InQueue(sem, c) /\ c \notin With("granted")
    BY AcquireEffect DEF QueueIsTheWaiters, With
  <1>2. CASE /\ sem.current < Max
             /\ sem' = [current |-> sem.current + 1, queue |-> sem.queue,
                        entry |-> [sem.entry EXCEPT ![c] = "granted"]]
    <2>1. TypeOK'
      BY <1>2, SemaphoreAssumption DEF TypeOK, Entries
    <2>2. With("granted")' = With("granted") \cup {c}
      BY <1>2 DEF With, TypeOK
    <2>3. HoldersAreCounted'
      BY <1>1, <1>2, <2>2, HoldersAreFinite, FS_AddElement, SemaphoreAssumption
      DEF HoldersAreCounted, TypeOK
    <2>4. sem.queue = <<>>
      BY <1>2, SemaphoreAssumption DEF NobodyWaitsForAFreeSlot, TypeOK
    <2>5. NobodyWaitsForAFreeSlot'
      BY <1>2, <2>4 DEF NobodyWaitsForAFreeSlot
    <2>6. QueueIsTheWaiters'
      BY <1>1, <1>2 DEF QueueIsTheWaiters, InQueue, TypeOK
    <2> QED
      BY <2>1, <2>3, <2>5, <2>6
  <1>3. CASE /\ ~(sem.current < Max)
             /\ sem' = [current |-> sem.current, queue |-> Append(sem.queue, c),
                        entry |-> [sem.entry EXCEPT ![c] = "waiting"]]
    <2>1. TypeOK'
      BY <1>3 DEF TypeOK, Entries
    <2>2. With("granted")' = With("granted")
      BY <1>1, <1>3 DEF With, TypeOK
    <2>3. HoldersAreCounted'
      BY <1>3, <2>2 DEF HoldersAreCounted
    <2>4. NobodyWaitsForAFreeSlot'
      BY <1>3, SemaphoreAssumption DEF NobodyWaitsForAFreeSlot, HoldersAreCounted, TypeOK
    <2>5. /\ Len(sem'.queue) = Len(sem.queue) + 1
          /\ sem'.queue[Len(sem.queue) + 1] = c
          /\ \A i \in 1..Len(sem.queue) : sem'.queue[i] = sem.queue[i] /\ sem.queue[i] # c
      BY <1>1, <1>3 DEF TypeOK, InQueue
    <2>6. QueueIsTheWaiters'
      <3>1. \A i, j \in 1..Len(sem'.queue) : sem'.queue[i] = sem'.queue[j] => i = j
        BY <2>5 DEF QueueIsTheWaiters, TypeOK
      <3>2. \A d \in Callers : InQueue(sem', d) <=> InQueue(sem, d) \/ d = c
        BY <2>5 DEF InQueue, TypeOK
      <3>3. \A d \in Callers : sem'.entry[d] = "waiting" <=> sem.entry[d] = "waiting" \/ d = c
        BY <1>3 DEF TypeOK
      <3> QED
        BY <3>1, <3>2, <3>3 DEF QueueIsTheWaiters
    <2> QED
      BY <2>1, <2>3, <2>4, <2>6
  <1> QED
    BY <1>2, <1>3, AcquireEffect

LEMMA ReleaseIInv == ASSUME IInv, NEW c \in Callers, Release(c) PROVE IInv'
  <1> USE DEF IInv
  <1>1. c \in With("granted") /\ sem.entry[c] = "granted" /\ ~InQueue(sem, c)
    BY DEF Release, With, QueueIsTheWaiters
  <1>2. sem.current # 0
    BY <1>1, HoldersAreFinite DEF HoldersAreCounted
  <1>3. CASE /\ sem.queue = <<>>
             /\ sem' = [current |-> sem.current - 1, queue |-> <<>>,
                        entry |-> [sem.entry EXCEPT ![c] = "none"]]
    <2>1. TypeOK'
      BY <1>2, <1>3, SemaphoreAssumption DEF TypeOK, Entries
    <2>2. With("granted")' = With("granted") \ {c}
      BY <1>3 DEF With, TypeOK
    <2>3. HoldersAreCounted'
      BY <1>1, <1>3, <2>2, HoldersAreFinite, FS_RemoveElement, SemaphoreAssumption
      DEF HoldersAreCounted, TypeOK
    <2>4. NobodyWaitsForAFreeSlot' /\ QueueIsTheWaiters'
      BY <1>1, <1>3 DEF NobodyWaitsForAFreeSlot, QueueIsTheWaiters, InQueue, TypeOK
    <2> QED
      BY <2>1, <2>3, <2>4
  <1>4. CASE /\ sem.queue # <<>>
             /\ sem' = [current |-> sem.current, queue |-> Tail(sem.queue),
                        entry |-> [[sem.entry EXCEPT ![c] = "none"]
                                     EXCEPT ![Head(sem.queue)] = "granted"]]
    <2> DEFINE h == Head(sem.queue)
    <2>1. /\ h \in Callers /\ h = sem.queue[1] /\ 1 \in 1..Len(sem.queue)
          /\ sem.entry[h] = "waiting" /\ h # c
      BY <1>1, <1>4 DEF TypeOK, QueueIsTheWaiters, InQueue
    <2>2. TypeOK'
      BY <1>4, <2>1 DEF TypeOK, Entries
    <2>3. With("granted")' = (With("granted") \ {c}) \cup {h} /\ h \notin With("granted")
      BY <1>4, <2>1 DEF With, TypeOK
    <2>4. HoldersAreCounted'
      <3>1. IsFiniteSet(With("granted") \ {c})
            /\ Cardinality(With("granted") \ {c}) = Cardinality(With("granted")) - 1
        BY <1>1, HoldersAreFinite, FS_RemoveElement
      <3>2. Cardinality(With("granted")') = Cardinality(With("granted") \ {c}) + 1
        BY <2>3, <3>1, FS_AddElement
      <3> QED
        BY <1>4, <3>1, <3>2, HoldersAreFinite DEF HoldersAreCounted
    <2>5. NobodyWaitsForAFreeSlot'
      BY <1>4 DEF NobodyWaitsForAFreeSlot
    <2>6. /\ Len(sem'.queue) = Len(sem.queue) - 1
          /\ \A i \in 1..Len(sem'.queue) : sem'.queue[i] = sem.queue[i + 1]
      BY <1>4 DEF TypeOK
    <2>7. \A i, j \in 1..Len(sem'.queue) : sem'.queue[i] = sem'.queue[j] => i = j
      BY <2>6 DEF QueueIsTheWaiters, TypeOK
    <2>8. \A d \in Callers : InQueue(sem', d) <=> InQueue(sem, d) /\ d # h
      <3> SUFFICES ASSUME NEW d \in Callers
                   PROVE  InQueue(sem', d) <=> InQueue(sem, d) /\ d # h
        OBVIOUS
      <3>1. InQueue(sem', d) => InQueue(sem, d) /\ d # h
        <4> SUFFICES ASSUME NEW i \in 1..Len(sem'.queue), sem'.queue[i] = d
                     PROVE  InQueue(sem, d) /\ d # h
          BY DEF InQueue
        <4>1. i + 1 \in 1..Len(sem.queue) /\ sem.queue[i + 1] = d /\ i + 1 # 1
          BY <2>6 DEF TypeOK
        <4> QED
          BY <4>1, <2>1 DEF InQueue, QueueIsTheWaiters
      <3>2. ASSUME InQueue(sem, d), d # h PROVE InQueue(sem', d)
        <4>1. PICK i \in 1..Len(sem.queue) : sem.queue[i] = d
          BY <3>2 DEF InQueue
        <4>2. i - 1 \in 1..Len(sem'.queue) /\ sem'.queue[i - 1] = d
          BY <4>1, <3>2, <2>1, <2>6 DEF TypeOK
        <4> QED
          BY <4>2 DEF InQueue
      <3> QED
        BY <3>1, <3>2
    <2>9. \A d \in Callers : sem'.entry[d] = "waiting" <=> sem.entry[d] = "waiting" /\ d # h
      BY <1>1, <1>4, <2>1 DEF TypeOK
    <2>10. QueueIsTheWaiters'
      BY <2>7, <2>8, <2>9 DEF QueueIsTheWaiters
    <2> QED
      BY <2>2, <2>4, <2>5, <2>10
  <1> QED
    BY <1>2, <1>3, <1>4, ReleaseEffect

LEMMA TimeoutIInv ==
  ASSUME IInv, NEW i \in 1..Len(sem.queue), sem' = TimedOut(sem, i) PROVE IInv'
  <1> USE DEF IInv
  <1> DEFINE c == sem.queue[i]
  <1>1. sem' = [current |-> sem.current, queue |-> Spliced(sem.queue, i),
                entry |-> [sem.entry EXCEPT ![c] = "rejected"]]
    BY TimeoutEffect
  <1>2. c \in Callers /\ sem.entry[c] = "waiting" /\ sem.queue # <<>>
    BY DEF TypeOK, QueueIsTheWaiters, InQueue
  <1>3. sem'.queue \in Seq(Callers) /\ Len(sem'.queue) = Len(sem.queue) - 1
    BY <1>1, SplicedType DEF TypeOK
  <1>4. TypeOK'
    BY <1>1, <1>2, <1>3 DEF TypeOK, Entries
  <1>5. With("granted")' = With("granted")
    BY <1>1, <1>2 DEF With, TypeOK
  <1>6. HoldersAreCounted' /\ NobodyWaitsForAFreeSlot'
    BY <1>1, <1>2, <1>5 DEF HoldersAreCounted, NobodyWaitsForAFreeSlot
  <1>7. \A j \in 1..Len(sem'.queue) :
          sem'.queue[j] = IF j < i THEN sem.queue[j] ELSE sem.queue[j + 1]
    BY <1>1, <1>3 DEF Spliced, TypeOK
  <1>8. \A j, k \in 1..Len(sem'.queue) : sem'.queue[j] = sem'.queue[k] => j = k
    <2> SUFFICES ASSUME NEW j \in 1..Len(sem'.queue), NEW k \in 1..Len(sem'.queue),
                        sem'.queue[j] = sem'.queue[k]
                 PROVE  j = k
      OBVIOUS
    <2> DEFINE a == IF j < i THEN j ELSE j + 1
               b == IF k < i THEN k ELSE k + 1
    <2>1. a \in 1..Len(sem.queue) /\ b \in 1..Len(sem.queue)
      BY <1>3 DEF TypeOK
    <2>2. sem.queue[a] = sem.queue[b]
      BY <1>7
    <2>3. a = b
      BY <2>1, <2>2 DEF QueueIsTheWaiters
    <2> QED
      BY <2>3
  <1>9. \A d \in Callers : InQueue(sem', d) <=> InQueue(sem, d) /\ d # c
    <2> SUFFICES ASSUME NEW d \in Callers PROVE InQueue(sem', d) <=> InQueue(sem, d) /\ d # c
      OBVIOUS
    <2>1. ASSUME NEW j \in 1..Len(sem'.queue), sem'.queue[j] = d
          PROVE  InQueue(sem, d) /\ d # c
      <3> DEFINE a == IF j < i THEN j ELSE j + 1
      <3>1. a \in 1..Len(sem.queue) /\ a # i /\ sem.queue[a] = d
        BY <1>3, <1>7, <2>1 DEF TypeOK
      <3> QED
        BY <3>1 DEF InQueue, QueueIsTheWaiters
    <2>2. ASSUME NEW k \in 1..Len(sem.queue), sem.queue[k] = d, d # c
          PROVE  InQueue(sem', d)
      <3> DEFINE b == IF k < i THEN k ELSE k - 1
      <3>1. k # i
        BY <2>2
      <3>2. b \in 1..Len(sem'.queue) /\ sem'.queue[b] = d
        BY <1>3, <1>7, <2>2, <3>1 DEF TypeOK
      <3> QED
        BY <3>2 DEF InQueue
    <2> QED
      BY <2>1, <2>2 DEF InQueue
  <1>10. \A d \in Callers : sem'.entry[d] = "waiting" <=> sem.entry[d] = "waiting" /\ d # c
    BY <1>1, <1>2 DEF TypeOK
  <1>11. QueueIsTheWaiters'
    BY <1>8, <1>9, <1>10 DEF QueueIsTheWaiters
  <1> QED
    BY <1>4, <1>6, <1>11

LEMMA RejectAllIInv == ASSUME IInv, RejectAll PROVE IInv'
  <1> USE DEF IInv
  <1>1. sem' = [current |-> sem.current, queue |-> <<>>,
                entry |-> [c \in Callers |->
                             IF InQueue(sem, c) THEN "rejected" ELSE sem.entry[c]]]
    BY RejectAllEffect
  <1>2. TypeOK'
    BY <1>1 DEF TypeOK, Entries
  <1>3. With("granted")' = With("granted")
    BY <1>1 DEF With, TypeOK, QueueIsTheWaiters
  <1>4. HoldersAreCounted' /\ NobodyWaitsForAFreeSlot'
    BY <1>1, <1>3 DEF HoldersAreCounted, NobodyWaitsForAFreeSlot
  <1>5. \A c \in Callers : sem'.entry[c] # "waiting" /\ ~InQueue(sem', c)
    BY <1>1 DEF QueueIsTheWaiters, InQueue
  <1>6. QueueIsTheWaiters'
    BY <1>1, <1>5 DEF QueueIsTheWaiters
  <1> QED
    BY <1>2, <1>4, <1>6

LEMMA NoticeIInv == ASSUME IInv, NEW c \in Callers, Notice(c) PROVE IInv'
  <1> USE DEF IInv
  <1>1. /\ sem.entry[c] = "rejected"
        /\ sem' = [current |-> sem.current, queue |-> sem.queue,
                   entry |-> [sem.entry EXCEPT ![c] = "none"]]
    BY NoticeEffect
  <1>2. TypeOK'
    BY <1>1 DEF TypeOK, Entries
  <1>3. With("granted")' = With("granted")
    BY <1>1 DEF With, TypeOK
  <1>4. HoldersAreCounted' /\ NobodyWaitsForAFreeSlot' /\ QueueIsTheWaiters'
    BY <1>1, <1>3
    DEF HoldersAreCounted, NobodyWaitsForAFreeSlot, QueueIsTheWaiters, InQueue, TypeOK
  <1> QED
    BY <1>2, <1>4

LEMMA NextIInv == IInv /\ [Next]_sem => IInv'
  <1> SUFFICES ASSUME IInv, [Next]_sem PROVE IInv'
    OBVIOUS
  <1>1. CASE UNCHANGED sem
    BY <1>1 DEF IInv, TypeOK, HoldersAreCounted, NobodyWaitsForAFreeSlot, QueueIsTheWaiters,
                InQueue, With
  <1>2. ASSUME NEW c \in Callers, Acquire(c) PROVE IInv'
    BY <1>2, AcquireIInv
  <1>3. ASSUME NEW c \in Callers, Release(c) PROVE IInv'
    BY <1>3, ReleaseIInv
  <1>4. ASSUME NEW c \in Callers, Notice(c) PROVE IInv'
    BY <1>4, NoticeIInv
  <1>5. CASE Timeout
    BY <1>5, TimeoutIInv DEF Timeout
  <1>6. CASE RejectAll
    BY <1>6, RejectAllIInv
  <1> QED
    BY <1>1, <1>2, <1>3, <1>4, <1>5, <1>6 DEF Next

\* The counter counts the holders, who never outnumber the slots; nobody waits beside a free
\* slot; the queue is the waiters (semaphore.ts, acquire, release, rejectAll).
THEOREM Safety ==
  Spec => [](TypeOK /\ HoldersAreCounted /\ NobodyWaitsForAFreeSlot /\ QueueIsTheWaiters)
  <1>1. Init => IInv
    BY InitIInv
  <1>2. IInv /\ [Next]_sem => IInv'
    BY NextIInv
  <1>3. IInv => TypeOK /\ HoldersAreCounted /\ NobodyWaitsForAFreeSlot /\ QueueIsTheWaiters
    BY DEF IInv
  <1> QED
    BY <1>1, <1>2, <1>3, PTL DEF Spec

-----------------------------------------------------------------------------
(* Order *)

InTurn(c) == IF sem.entry[c] = "waiting" THEN sem.queue[1] = c ELSE sem.queue = <<>>

LEMMA NextInTurn ==
  ASSUME IInv, Next, NEW c \in Callers, Granted(c)
  PROVE  InTurn(c)
  <1> USE DEF IInv, Granted, InTurn
  <1>1. ASSUME NEW d \in Callers, Acquire(d) PROVE InTurn(c)
    BY <1>1, AcquireEffect, SemaphoreAssumption DEF NobodyWaitsForAFreeSlot, TypeOK
  <1>2. ASSUME NEW d \in Callers, Release(d) PROVE InTurn(c)
    <2>1. d \in With("granted") /\ sem.current # 0
      BY <1>2, HoldersAreFinite DEF Release, With, HoldersAreCounted
    <2>2. CASE sem.queue = <<>>
      BY <1>2, <2>1, <2>2, ReleaseEffect DEF TypeOK
    <2>3. CASE sem.queue # <<>>
      <3>1. c = Head(sem.queue) /\ Head(sem.queue) = sem.queue[1] /\ 1 \in 1..Len(sem.queue)
        BY <1>2, <2>1, <2>3, ReleaseEffect DEF TypeOK
      <3>2. sem.entry[c] = "waiting"
        BY <3>1 DEF QueueIsTheWaiters, InQueue
      <3> QED
        BY <3>1, <3>2
    <2> QED
      BY <2>2, <2>3
  <1>3. ASSUME NEW d \in Callers, Notice(d) PROVE InTurn(c)
    BY <1>3, NoticeEffect DEF TypeOK
  <1>4. CASE Timeout
    <2>1. PICK i \in 1..Len(sem.queue) : sem' = TimedOut(sem, i)
      BY <1>4 DEF Timeout
    <2> QED
      BY <2>1, TimeoutEffect DEF TypeOK
  <1>5. CASE RejectAll
    BY <1>5, RejectAllEffect DEF TypeOK
  <1> QED
    BY <1>1, <1>2, <1>3, <1>4, <1>5 DEF Next

LEMMA NextJoinsBehind ==
  ASSUME IInv, Next, NEW c \in Callers, Queued(c)
  PROVE  sem'.queue = Append(sem.queue, c)
  <1> USE DEF IInv, Queued
  <1>1. ASSUME NEW d \in Callers, Acquire(d) PROVE sem'.queue = Append(sem.queue, c)
    BY <1>1, AcquireEffect DEF TypeOK
  <1>2. ASSUME NEW d \in Callers, Release(d) PROVE FALSE
    <2>1. d \in With("granted") /\ sem.current # 0
      BY <1>2, HoldersAreFinite DEF Release, With, HoldersAreCounted
    <2>2. CASE sem.queue = <<>>
      BY <1>2, <2>1, <2>2, ReleaseEffect DEF TypeOK
    <2>3. CASE sem.queue # <<>>
      <3>1. Head(sem.queue) \in Callers
        BY <2>3 DEF TypeOK
      <3> QED
        BY <1>2, <2>1, <2>3, <3>1, ReleaseEffect DEF TypeOK
    <2> QED
      BY <2>2, <2>3
  <1>3. ASSUME NEW d \in Callers, Notice(d) PROVE FALSE
    BY <1>3, NoticeEffect DEF TypeOK
  <1>4. CASE Timeout
    <2>1. PICK i \in 1..Len(sem.queue) : sem' = TimedOut(sem, i)
      BY <1>4 DEF Timeout
    <2> QED
      BY <2>1, TimeoutEffect DEF TypeOK
  <1>5. CASE RejectAll
    BY <1>5, RejectAllEffect DEF TypeOK
  <1> QED
    BY <1>1, <1>2, <1>3, <1>4, <1>5 DEF Next

\* Slots are granted in the order they were asked for: nobody overtakes the queue, and who
\* joins it goes to its end.
THEOREM Order == Spec => FirstComeFirstServed
  <1> DEFINE A == \A c \in Callers :
                    /\ Granted(c) => IF sem.entry[c] = "waiting" THEN sem.queue[1] = c
                                                                 ELSE sem.queue = <<>>
                    /\ Queued(c) => sem'.queue = Append(sem.queue, c)
  <1>1. IInv /\ [Next]_sem => [A]_sem
    BY NextInTurn, NextJoinsBehind DEF InTurn
  <1>2. Spec => []IInv
    BY InitIInv, NextIInv, PTL DEF Spec
  <1>3. [][A]_sem => FirstComeFirstServed
    BY DEF FirstComeFirstServed
  <1> HIDE DEF A
  <1> QED
    BY <1>1, <1>2, <1>3, PTL DEF Spec

-----------------------------------------------------------------------------
(* The contract *)

LEMMA SameCardinality == ASSUME NEW S PROVE Contract!Cardinality(S) = Cardinality(S)
  BY DEF Contract!Cardinality, Cardinality

LEMMA InitRefines == Init => Contract!Init
  BY DEF Init, Idle, Contract!Init, With

LEMMA NextRefines == IInv /\ [Next]_sem => [Contract!Next]_(Contract!vars)
  <1> SUFFICES ASSUME IInv, [Next]_sem PROVE Contract!Next \/ UNCHANGED Contract!vars
    OBVIOUS
  <1> USE DEF IInv
  <1>1. CASE UNCHANGED sem
    BY <1>1 DEF Contract!vars, With
  <1>2. ASSUME NEW c \in Callers, Acquire(c) PROVE Contract!Enter(c) \/ Contract!Wait(c)
    <2>1. c \notin With("granted") \cup With("waiting")
      BY <1>2, AcquireEffect DEF With
    <2>2. CASE sem.current < Max
      <3>1. With("granted")' = With("granted") \cup {c} /\ With("waiting")' = With("waiting")
        BY <1>2, <2>2, AcquireEffect DEF With, TypeOK
      <3> QED
        BY <2>1, <2>2, <3>1, SameCardinality DEF Contract!Enter, HoldersAreCounted
    <2>3. CASE ~(sem.current < Max)
      <3>1. With("granted")' = With("granted") /\ With("waiting")' = With("waiting") \cup {c}
        BY <1>2, <2>3, AcquireEffect DEF With, TypeOK
      <3>2. Cardinality(With("granted")) = Max
        BY <2>3, SemaphoreAssumption DEF HoldersAreCounted, TypeOK
      <3> QED
        BY <2>1, <3>1, <3>2, SameCardinality DEF Contract!Wait
    <2> QED
      BY <2>2, <2>3
  <1>3. ASSUME NEW c \in Callers, Release(c) PROVE Contract!Leave(c)
    <2>1. c \in With("granted") /\ sem.current # 0
      BY <1>3, HoldersAreFinite DEF Release, With, HoldersAreCounted
    <2>2. CASE sem.queue = <<>>
      <3>1. With("waiting") = {}
        BY <2>2 DEF With, QueueIsTheWaiters, InQueue
      <3>2. With("granted")' = With("granted") \ {c} /\ With("waiting")' = With("waiting")
        BY <1>3, <2>1, <2>2, ReleaseEffect DEF With, TypeOK
      <3> QED
        BY <2>1, <3>1, <3>2 DEF Contract!Leave
    <2>3. CASE sem.queue # <<>>
      <3> DEFINE h == Head(sem.queue)
      <3>1. h \in Callers /\ h = sem.queue[1] /\ 1 \in 1..Len(sem.queue)
        BY <2>3 DEF TypeOK
      <3>2. sem.entry[h] = "waiting"
        BY <3>1 DEF QueueIsTheWaiters, InQueue
      <3>3. sem'.entry = [[sem.entry EXCEPT ![c] = "none"] EXCEPT ![h] = "granted"]
            /\ sem.entry[c] = "granted"
        BY <1>3, <2>1, <2>3, ReleaseEffect
      <3>4. /\ With("granted")' = (With("granted") \ {c}) \cup {h}
            /\ With("waiting")' = With("waiting") \ {h}
            /\ h \in With("waiting")
        BY <3>1, <3>2, <3>3 DEF With, TypeOK
      <3> QED
        BY <2>1, <3>4 DEF Contract!Leave
    <2> QED
      BY <2>2, <2>3
  <1>4. ASSUME NEW c \in Callers, Notice(c) PROVE UNCHANGED Contract!vars
    BY <1>4, NoticeEffect DEF Contract!vars, With, TypeOK
  <1>5. CASE Timeout
    <2>1. PICK i \in 1..Len(sem.queue) : sem' = TimedOut(sem, i)
      BY <1>5 DEF Timeout
    <2> DEFINE c == sem.queue[i]
    <2>2. c \in Callers /\ c \in With("waiting")
      BY DEF TypeOK, QueueIsTheWaiters, InQueue, With
    <2>3. With("granted")' = With("granted") /\ With("waiting")' = With("waiting") \ {c}
      BY <2>1, <2>2, TimeoutEffect DEF With, TypeOK
    <2>4. Contract!GiveUp({c}) /\ {c} \in SUBSET With("waiting")
      BY <2>2, <2>3 DEF Contract!GiveUp
    <2> QED
      BY <2>4 DEF Contract!Next
  <1>6. CASE RejectAll
    <2>1. With("waiting") # {}
      <3>1. 1 \in 1..Len(sem.queue) /\ sem.queue[1] \in Callers
        BY <1>6 DEF RejectAll, TypeOK
      <3> QED
        BY <3>1 DEF QueueIsTheWaiters, InQueue, With
    <2>2. With("granted")' = With("granted")
          /\ With("waiting")' = With("waiting") \ With("waiting")
      BY <1>6, RejectAllEffect DEF With, TypeOK, QueueIsTheWaiters
    <2>3. Contract!GiveUp(With("waiting"))
      BY <2>1, <2>2 DEF Contract!GiveUp
    <2> QED
      BY <2>3 DEF Contract!Next
  <1> QED
    BY <1>1, <1>2, <1>3, <1>4, <1>5, <1>6 DEF Next, Contract!Next

\* The semaphore implements the abstract one: with its holders and its waiters as sets, every
\* method is a step of Slots or changes neither.
THEOREM Refinement == Spec => ImplementsContract
  <1>1. Spec => []IInv
    BY InitIInv, NextIInv, PTL DEF Spec
  <1> QED
    BY <1>1, InitRefines, NextRefines, PTL DEF Spec, ImplementsContract, Contract!Spec
=============================================================================

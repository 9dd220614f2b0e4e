----------------------------- MODULE Semaphore ------------------------------
(***************************************************************************)
(* The counting semaphore that bounds task executions                      *)
(* (src/execution/semaphore.ts), used as its contract asks: a caller that   *)
(* was granted a slot releases it once.                                     *)
(*                                                                         *)
(* The methods run to completion between two turns of the event loop, so    *)
(* each is one step; a caller learns the fate of its promise afterwards.    *)
(* They are functions of the semaphore's record, for the engine to compose. *)
(***************************************************************************)
EXTENDS Naturals, Sequences, FiniteSets

CONSTANTS
  Callers,   \* calls to acquire() (an id may be used again)
  Max        \* concurrency

ASSUME SemaphoreAssumption == IsFiniteSet(Callers) /\ Max \in Nat \ {0}

VARIABLE sem \* current, queue, and the entry (the promise) of each caller

InQueue(s, c) == \E i \in 1..Len(s.queue) : s.queue[i] = c

\* new Semaphore(max)
Idle == [current |-> 0, queue |-> <<>>, entry |-> [c \in Callers |-> "none"]]

\* Mutant: a caller is put before those that wait.
AcquiredFirst(s, c) ==
  IF s.current < Max
    THEN [s EXCEPT !.current = @ + 1, !.entry[c] = "granted"]
    ELSE [s EXCEPT !.queue = <<c>> \o @, !.entry[c] = "waiting"]

\* acquire(): a free slot at once, or a place at the end of the queue.
Acquired(s, c) ==
  IF s.current < Max
    THEN [s EXCEPT !.current = @ + 1, !.entry[c] = "granted"]
    ELSE [s EXCEPT !.queue = Append(@, c), !.entry[c] = "waiting"]

\* Mutants: the slot handed on is given back as well; the queue is not looked at.
ReleasedTwice(s) ==
  IF s.current = 0 THEN s
  ELSE IF s.queue = <<>> THEN [s EXCEPT !.current = @ - 1]
  ELSE [s EXCEPT !.queue = Tail(@), !.entry[Head(s.queue)] = "granted", !.current = @ - 1]

ReleasedToNobody(s) == IF s.current = 0 THEN s ELSE [s EXCEPT !.current = @ - 1]

\* release(): nothing if nobody holds a slot; else the slot goes to the first of the queue.
Released(s) ==
  IF s.current = 0 THEN s
  ELSE IF s.queue = <<>> THEN [s EXCEPT !.current = @ - 1]
  ELSE [s EXCEPT !.queue = Tail(@), !.entry[Head(s.queue)] = "granted"]

\* The queue without its i-th entry (splice).
Spliced(q, i) == [j \in 1..(Len(q) - 1) |-> IF j < i THEN q[j] ELSE q[j + 1]]

\* The timer of a queued entry rejects it.
TimedOut(s, i) ==
  [s EXCEPT !.queue = Spliced(@, i), !.entry[s.queue[i]] = "rejected"]

\* Mutant: whoever holds a slot is rejected too.
DrainedHoldersToo(s) ==
  [s EXCEPT !.queue = <<>>,
            !.entry = [c \in Callers |-> IF @[c] # "none" THEN "rejected" ELSE @[c]]]

\* rejectAll()
Drained(s) ==
  [s EXCEPT !.queue = <<>>,
            !.entry = [c \in Callers |-> IF InQueue(s, c) THEN "rejected" ELSE @[c]]]

\* The caller forgets its promise: it is done with the slot, or has seen the rejection.
Forgotten(s, c) == [s EXCEPT !.entry[c] = "none"]

-----------------------------------------------------------------------------
Init == sem = Idle

Acquire(c) == sem.entry[c] = "none" /\ sem' = Acquired(sem, c)
Release(c) == sem.entry[c] = "granted" /\ sem' = Released(Forgotten(sem, c))
Timeout == \E i \in 1..Len(sem.queue) : sem' = TimedOut(sem, i)
RejectAll == sem.queue # <<>> /\ sem' = Drained(sem)
Notice(c) == sem.entry[c] = "rejected" /\ sem' = Forgotten(sem, c)

Next ==
  \/ \E c \in Callers : Acquire(c) \/ Release(c) \/ Notice(c)
  \/ Timeout
  \/ RejectAll

Spec == Init /\ [][Next]_sem

\* Whoever was granted a slot gives it back: executeTask releases in its finally.
FairSpec == Spec /\ \A c \in Callers : WF_sem(Release(c))

-----------------------------------------------------------------------------
(* Properties *)

Entries == {"none", "waiting", "granted", "rejected"}

TypeOK == sem \in [current : 0..Max, queue : Seq(Callers), entry : [Callers -> Entries]]

With(e) == {c \in Callers : sem.entry[c] = e}

\* The counter counts the callers that hold a slot, and they are never more than the slots:
\* a slot handed from release() to a waiter is neither lost nor counted twice.
HoldersAreCounted == Cardinality(With("granted")) = sem.current /\ sem.current <= Max

\* Nobody waits beside a free slot: no wakeup is lost, whatever timeouts and drains remove
\* from the queue.
NobodyWaitsForAFreeSlot == sem.queue # <<>> => sem.current = Max

\* The queue holds each waiting caller once, and nobody whose promise is settled.
QueueIsTheWaiters ==
  /\ \A i, j \in 1..Len(sem.queue) : sem.queue[i] = sem.queue[j] => i = j
  /\ \A c \in Callers : InQueue(sem, c) <=> sem.entry[c] = "waiting"

\* First come, first served: a caller is granted a slot at once only if nobody waits, and
\* from the queue only if it is the first; one that has to wait goes behind those who do.
Granted(c) == sem.entry[c] # "granted" /\ sem'.entry[c] = "granted"
Queued(c) == sem.entry[c] # "waiting" /\ sem'.entry[c] = "waiting"
FirstComeFirstServed ==
  [][\A c \in Callers :
       /\ Granted(c) => IF sem.entry[c] = "waiting" THEN sem.queue[1] = c ELSE sem.queue = <<>>
       /\ Queued(c) => sem'.queue = Append(sem.queue, c)]_sem

\* Every caller that waits is served or rejected.
WaitersAreServed == \A c \in Callers : sem.entry[c] = "waiting" ~> sem.entry[c] # "waiting"

\* The semaphore implements its contract.
Contract == INSTANCE Slots WITH holders <- With("granted"), waiting <- With("waiting")
ImplementsContract == Contract!Spec
=============================================================================

------------------------------- MODULE Slots --------------------------------
(***************************************************************************)
(* What the task semaphore promises its callers (src/execution/semaphore.ts *)
(* and its tests): at most Max of them hold a slot, a caller waits only     *)
(* while every slot is taken, and a slot given back goes to a waiter.       *)
(***************************************************************************)
EXTENDS Naturals, FiniteSets

CONSTANTS Callers, Max

VARIABLES holders, waiting

vars == <<holders, waiting>>

Init == holders = {} /\ waiting = {}

Enter(c) ==
  /\ c \notin holders \cup waiting
  /\ Cardinality(holders) < Max
  /\ holders' = holders \cup {c} /\ UNCHANGED waiting

Wait(c) ==
  /\ c \notin holders \cup waiting
  /\ Cardinality(holders) = Max
  /\ waiting' = waiting \cup {c} /\ UNCHANGED holders

Leave(c) ==
  /\ c \in holders
  /\ \/ waiting = {} /\ holders' = holders \ {c} /\ UNCHANGED waiting
     \/ \E w \in waiting : holders' = (holders \ {c}) \cup {w} /\ waiting' = waiting \ {w}

GiveUp(W) == W # {} /\ waiting' = waiting \ W /\ UNCHANGED holders

Next ==
  \/ \E c \in Callers : Enter(c) \/ Wait(c) \/ Leave(c)
  \/ \E W \in SUBSET waiting : GiveUp(W)

Spec == Init /\ [][Next]_vars
=============================================================================

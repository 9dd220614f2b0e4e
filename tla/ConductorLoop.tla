---------------------------- MODULE ConductorLoop ----------------------------
(***************************************************************************)
(* The loop that fires conductor ticks (startConductorLoop in              *)
(* src/autonomy/conductor.ts): an idle timer, immediate requests that are  *)
(* debounced, one tick in flight at a time, stop.                          *)
(*                                                                         *)
(* A tick is what conductorTick does as the loop sees it: it takes some    *)
(* time, it may run an arc, and an arc that closes calls                   *)
(* requestImmediateTick from inside the tick (director.ts, wire-daemon.ts).*)
(* Clocks are kept as differences, so that time is not bounded.            *)
(***************************************************************************)
EXTENDS Naturals

CONSTANTS
  Interval,  \* intervalMs
  Debounce   \* debounceMs

ASSUME LoopAssumption == Interval \in Nat \ {0} /\ Debounce \in Nat

VARIABLES
  untilDue,    \* time until setInterval fires
  stopped,
  inflight,    \* the promise of the running tick is held
  sinceStart,  \* Date.now() - lastTickStartedAtMs, as far as the debounce tells it
  bodies,      \* how many tick bodies run
  arcRan       \* the running tick ran an arc and has closed it

vars == <<untilDue, stopped, inflight, sinceStart, bodies, arcRan>>
tick == <<inflight, sinceStart, bodies, arcRan>>

TypeOK ==
  /\ untilDue \in 0..Interval /\ sinceStart \in 0..Debounce /\ bodies \in Nat
  /\ stopped \in BOOLEAN /\ inflight \in BOOLEAN /\ arcRan \in BOOLEAN

\* The abort signal may have fired before the loop was started; no tick has ever started.
Init ==
  /\ untilDue = Interval /\ stopped \in BOOLEAN /\ inflight = FALSE /\ sinceStart = Debounce
  /\ bodies = 0 /\ arcRan = FALSE

StartTick ==
  /\ inflight' = TRUE /\ sinceStart' = 0 /\ bodies' = bodies + 1
  /\ arcRan' = FALSE

\* Mutant: a tick does not wait for the one in flight.
TickOnceMore == IF stopped THEN UNCHANGED tick ELSE StartTick

\* tickOnce joins the tick in flight, or starts one.
TickOnce == IF stopped \/ inflight THEN UNCHANGED tick ELSE StartTick

Dropped == stopped \/ inflight \/ sinceStart < Debounce

\* The interval is cleared by stop; its callback calls tickOnce.
TimerFires ==
  /\ ~stopped /\ untilDue = 0
  /\ untilDue' = Interval
  /\ TickOnce
  /\ UNCHANGED stopped

\* requestImmediateTick by a caller that holds the loop's handle: dropped when stopped, in
\* flight, or within the debounce window.
OutsideRequest ==
  /\ IF Dropped THEN UNCHANGED tick ELSE TickOnce
  /\ UNCHANGED <<untilDue, stopped>>

\* Inside the tick an arc closes, and the Director's hook makes the same request.
ArcCloses ==
  /\ bodies > 0 /\ ~arcRan
  /\ IF Dropped THEN arcRan' = TRUE /\ UNCHANGED <<inflight, sinceStart, bodies>>
                ELSE TickOnce
  /\ UNCHANGED <<untilDue, stopped>>

\* Mutant: the promise of a tick that ended is kept.
TickEndsHeld ==
  /\ bodies > 0
  /\ bodies' = bodies - 1
  /\ UNCHANGED <<untilDue, stopped, inflight, sinceStart, arcRan>>

\* The tick returns or throws; its promise is dropped either way.
TickEnds ==
  /\ bodies > 0
  /\ bodies' = bodies - 1 /\ inflight' = FALSE
  /\ UNCHANGED <<untilDue, stopped, sinceStart, arcRan>>

\* stop(), or the abort signal.
Stop ==
  /\ ~stopped /\ stopped' = TRUE
  /\ UNCHANGED <<untilDue, tick>>

\* Time passes, but a timer that is due fires first.
Pass ==
  /\ stopped \/ untilDue > 0
  /\ untilDue' = IF stopped THEN untilDue ELSE untilDue - 1
  /\ sinceStart' = IF sinceStart < Debounce THEN sinceStart + 1 ELSE Debounce
  /\ UNCHANGED <<stopped, inflight, bodies, arcRan>>

Next == TimerFires \/ OutsideRequest \/ ArcCloses \/ TickEnds \/ Stop \/ Pass

Spec == Init /\ [][Next]_vars

\* Time passes, a due timer is serviced, a tick ends.  No request is ever owed.
FairSpec == Spec /\ WF_vars(TimerFires) /\ WF_vars(Pass) /\ WF_vars(TickEnds)

-----------------------------------------------------------------------------
(* Properties *)

\* Two bodies never overlap, and the promise is held exactly while one runs.
OneTickAtATime == bodies <= 1 /\ (inflight <=> bodies = 1)

Starts == bodies' > bodies

\* A request never starts a tick within the debounce window of the last start, whoever
\* started that one; only the timer may.
RequestsAreSpaced == [][Starts /\ UNCHANGED untilDue => sinceStart >= Debounce]_vars

\* After stop no tick starts; the one in flight runs to its end.
NothingStartsAfterStop == [][stopped => ~Starts]_vars

\* The loop never goes quiet: ticks start again and again until it is stopped.
KeepsTicking == <>stopped \/ []<><<Starts>>_vars
=============================================================================

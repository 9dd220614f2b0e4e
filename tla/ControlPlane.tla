---------------------------- MODULE ControlPlane ----------------------------
(***************************************************************************)
(* The daemon's link to the cloud (src/control-plane/client.ts) and the     *)
(* queue of what it could not tell it (src/control-plane/outbound-queue.ts).*)
(*                                                                         *)
(* Three things run at once: the poll loop, which fetches commands, calls   *)
(* their handlers and connects again after a 401; the heartbeats, each of   *)
(* which ends in a drain of the queue that nobody waits for; and whoever    *)
(* reports a task or a changed resource.  They interleave at their requests *)
(* to the cloud: the database answers at once.                             *)
(*                                                                         *)
(* The cloud is external.  It may refuse any request, take it and lose the  *)
(* answer, or not answer at all; a connection or a poll that is refused or  *)
(* not answered leaves the client as it was, and it tries again.            *)
(***************************************************************************)
EXTENDS Naturals, FiniteSets

CONSTANTS
  Reports,      \* what the daemon has to tell: task reports, session metadata, resources
  Known,        \* those of a type drainOutboundQueue knows how to send
  MaxAttempts,  \* MAX_ATTEMPTS
  Batch,        \* rows one drain reads
  Drains,       \* bound: drains that overlap
  LastCommand,  \* bound: commands the cloud posts
  Malformed,    \* commands whose handler throws
  Bare,         \* commands that name a task and do not bring it
  MaxFaults,    \* bound: revoked sessions and ends of the process
  NoRow

Commands == 1..LastCommand

ASSUME ControlPlaneAssumption ==
  /\ IsFiniteSet(Reports) /\ Known \subseteq Reports
  /\ {MaxAttempts, Batch} \subseteq Nat \ {0}
  /\ {LastCommand, MaxFaults} \subseteq Nat
  /\ Malformed \subseteq Commands /\ Bare \subseteq Commands
  /\ NoRow \notin Nat

VARIABLES
  up, token,       \* the daemon runs; sessionToken is not null
  session,         \* the cloud honours the token
  report,          \* per report: where the call that makes it is
  attempts,        \* outbound_queue: the attempts of the row of each report, or NoRow
  created,         \* created_at of the rows, as their order
  left,            \* per drain: the attempts it read of each row it has still to send, or NoRow
  delivered,       \* what the cloud got
  failures,        \* history, per report: failed attempts to send it from the queue
  posted, old,     \* the cloud's commands so far, and those over an hour old
  lastSequence,
  rows,            \* commands whose task has a row, pending
  dispatches,      \* history, per command: how often this process called onTaskDispatch
  passed,          \* history: commands a poll brought and another one's throw dropped
  faults

link == <<up, token, session>>
outbox == <<attempts, created>>
told == <<report, outbox, left, delivered, failures>>
commands == <<posted, old, lastSequence, rows, dispatches, passed>>
vars == <<link, told, commands, faults>>

-----------------------------------------------------------------------------
LinkOK == up \in BOOLEAN /\ token \in BOOLEAN /\ session \in BOOLEAN /\ faults \in 0..MaxFaults

ToldOK ==
  /\ report \in [Reports -> {"none", "sending", "made", "died"}]
  /\ attempts \in [Reports -> Nat \cup {NoRow}] /\ created \in [Reports -> Nat]
  /\ left \in [Drains -> [Reports -> Nat \cup {NoRow}]]
  /\ delivered \subseteq Reports /\ failures \in [Reports -> 0..MaxAttempts]

CommandsOK ==
  /\ posted \in 0..LastCommand /\ lastSequence \in 0..posted
  /\ old \subseteq Commands /\ passed \subseteq Commands
  /\ rows \subseteq Commands
  /\ dispatches \in [Commands -> Nat]

TypeOK == LinkOK /\ ToldOK /\ CommandsOK

Init ==
  /\ up = TRUE /\ token = FALSE /\ session = FALSE
  /\ report = [r \in Reports |-> "none"]
  /\ attempts = [r \in Reports |-> NoRow] /\ created = [r \in Reports |-> 0]
  /\ left = [d \in Drains |-> [r \in Reports |-> NoRow]]
  /\ delivered = {} /\ failures = [r \in Reports |-> 0]
  /\ posted = 0 /\ old = {} /\ lastSequence = 0
  /\ rows = {} /\ dispatches = [c \in Commands |-> 0]
  /\ passed = {} /\ faults = 0

Fault == faults < MaxFaults /\ faults' = faults + 1
NoFault == UNCHANGED faults

-----------------------------------------------------------------------------
(* The queue *)

Queued == {r \in Reports : attempts[r] # NoRow}

\* enqueue: a new row, behind the others.
Enqueued(r) ==
  /\ attempts' = [attempts EXCEPT ![r] = 0]
  /\ created' = [created EXCEPT ![r] = Cardinality({q \in Reports : report[q] = "made"})]

\* order('created_at').limit(50)
Oldest == {r \in Queued : Cardinality({q \in Queued : created[q] < created[r]}) < Batch}

\* Mutant: a row is dropped an attempt early.
ExhaustedEarly(n) == n + 1 >= MaxAttempts

Exhausted(n) == n >= MaxAttempts

\* Mutant: the attempts are written as they were read.
FailureNotCounted(r, seen) ==
  attempts' = [attempts EXCEPT ![r] = IF Exhausted(seen + 1) \/ @ = NoRow THEN NoRow ELSE seen]

\* recordFailure: one more than the drain read some requests ago, whatever the row
\* says by now; a row that is gone stays gone.
FailureRecorded(r, seen) ==
  attempts' = [attempts EXCEPT ![r] = IF Exhausted(seen + 1) \/ @ = NoRow THEN NoRow ELSE seen + 1]

Idle(d) == \A r \in Reports : left[d][r] = NoRow

\* drainOutboundQueue: nothing keeps it from starting while another one sends.
DrainStarts(d) ==
  /\ Idle(d)
  /\ left' = [left EXCEPT ![d] = [r \in Reports |-> IF r \in Oldest THEN attempts[r] ELSE NoRow]]

\* The next row of a drain: the cloud takes it, or not, or the answer is lost.
\* A row of a type not known is a failure without a request.
Sends(d, r) ==
  /\ up /\ left[d][r] # NoRow
  /\ \A q \in Reports : left[d][q] # NoRow => created[r] <= created[q]
  /\ left' = [left EXCEPT ![d][r] = NoRow]
  /\ \/ /\ r \in Known /\ delivered' = delivered \cup {r}
        /\ attempts' = [attempts EXCEPT ![r] = NoRow] /\ UNCHANGED failures
     \/ /\ FailureRecorded(r, left[d][r])
        /\ failures' = [failures EXCEPT ![r] = IF @ < MaxAttempts THEN @ + 1 ELSE @]
        /\ \/ r \in Known /\ delivered' = delivered \cup {r}
           \/ UNCHANGED delivered
  /\ UNCHANGED <<link, report, created, commands>> /\ NoFault

\* sendHeartbeat: the drain follows whatever the cloud answered.
HeartbeatDrains ==
  /\ up /\ token /\ Queued # {}
  /\ \E d \in Drains : DrainStarts(d)
  /\ UNCHANGED <<link, report, outbox, delivered, failures, commands>> /\ NoFault

-----------------------------------------------------------------------------
(* Reporting: reportTask, reportResource *)

Offline(r) ==
  /\ up /\ ~token /\ report[r] = "none"
  /\ report' = [report EXCEPT ![r] = "made"] /\ Enqueued(r)
  /\ UNCHANGED <<link, left, delivered, failures, commands>> /\ NoFault

Reported(r) ==
  /\ up /\ token /\ report[r] = "none"
  /\ report' = [report EXCEPT ![r] = "sending"]
  /\ UNCHANGED <<link, outbox, left, delivered, failures, commands>> /\ NoFault

\* Without a good answer the report is queued, even if the cloud took it.
Answered(r) ==
  /\ up /\ report[r] = "sending"
  /\ report' = [report EXCEPT ![r] = "made"]
  /\ \/ delivered' = delivered \cup {r} /\ UNCHANGED outbox
     \/ /\ \/ delivered' = delivered \cup {r}
           \/ UNCHANGED delivered
        /\ Enqueued(r)
  /\ UNCHANGED <<link, left, failures, commands>> /\ NoFault

-----------------------------------------------------------------------------
(* The session *)

\* connect: at boot, and from the poll loop while there is no token.
Connect ==
  /\ up /\ ~token
  /\ token' = TRUE /\ session' = TRUE
  /\ \/ Queued # {} /\ \E d \in Drains : DrainStarts(d)
     \/ (Queued = {} \/ \A d \in Drains : ~Idle(d)) /\ UNCHANGED left
  /\ UNCHANGED <<up, report, outbox, delivered, failures, commands>> /\ NoFault

\* The token expires, or the cloud forgets it.
Revoked ==
  /\ session /\ session' = FALSE /\ Fault
  /\ UNCHANGED <<up, token, told, commands>>

\* Mutant: the token is kept after a 401.
UnauthorizedKept == up /\ token /\ ~session /\ UNCHANGED <<vars>>

\* A poll is answered 401.  (The pauses before the next try are left out.)
Unauthorized ==
  /\ up /\ token /\ ~session /\ token' = FALSE
  /\ UNCHANGED <<up, session, told, commands>> /\ NoFault

\* The process ends: it crashes, is stopped, or another device replaced it
\* (handleReplaced exits at once).  Its memory goes, the tables stay.
Ends ==
  /\ up /\ up' = FALSE /\ token' = FALSE /\ Fault
  /\ session' = FALSE
  /\ report' = [r \in Reports |-> IF report[r] = "sending" THEN "died" ELSE report[r]]
  /\ left' = [d \in Drains |-> [r \in Reports |-> NoRow]]
  /\ lastSequence' = 0 /\ dispatches' = [c \in Commands |-> 0]
  /\ UNCHANGED <<outbox, delivered, failures, posted, old, rows, passed>>

Boots ==
  /\ ~up /\ up' = TRUE
  /\ UNCHANGED <<token, session, told, commands>> /\ NoFault

-----------------------------------------------------------------------------
(* Commands *)

Posts ==
  /\ posted < LastCommand /\ posted' = posted + 1
  /\ UNCHANGED <<link, told, old, lastSequence, rows, dispatches, passed>> /\ NoFault

\* Commands grow older than an hour in the order they were posted.
Ages(c) ==
  /\ c <= posted /\ old = 1..(c - 1) /\ old' = old \cup {c}
  /\ UNCHANGED <<link, told, posted, lastSequence, rows, dispatches, passed>> /\ NoFault

\* What a poll brings: the cloud sends what is past the cursor.
Brought == (lastSequence + 1)..posted

\* Stale commands are skipped, and a handler that throws leaves the loop.
Handled == {c \in Brought \ old : \A m \in (Brought \ old) \cap Malformed : c < m}

\* Mutant: the cursor follows the handlers, so a throw leaves it behind.
PolledCursorLast ==
  /\ up /\ token /\ session /\ lastSequence < posted
  /\ lastSequence' = IF (Brought \ old) \cap Malformed = {} THEN posted ELSE lastSequence
  /\ rows' = rows \cup (Handled \ Bare)
  /\ dispatches' = [c \in Commands |-> IF c \in Handled THEN dispatches[c] + 1 ELSE dispatches[c]]
  /\ passed' = passed \cup ((Brought \ old) \ Handled)
  /\ UNCHANGED <<link, told, posted, old>> /\ NoFault

\* One round of pollLoop: the cursor moves first, then each handler in turn
\* writes the row of the task it brings (syncTaskToLocal: status pending, whatever
\* the row was) and calls onTaskDispatch.  The call is all there is to a dispatch: it
\* asks a context for its engine, and nothing ever gives that context one (start.ts
\* builds it with none), so the row stays pending.
Polled ==
  /\ up /\ token /\ session /\ lastSequence < posted
  /\ lastSequence' = posted
  /\ rows' = rows \cup (Handled \ Bare)
  /\ dispatches' = [c \in Commands |-> IF c \in Handled THEN dispatches[c] + 1 ELSE dispatches[c]]
  /\ passed' = passed \cup ((Brought \ old) \ Handled)
  /\ UNCHANGED <<link, told, posted, old>> /\ NoFault

-----------------------------------------------------------------------------
Next ==
  \/ \E d \in Drains, r \in Reports : Sends(d, r)
  \/ HeartbeatDrains
  \/ \E r \in Reports : Offline(r) \/ Reported(r) \/ Answered(r)
  \/ Connect \/ Revoked \/ Unauthorized \/ Ends \/ Boots
  \/ Posts \/ \E c \in Commands : Ages(c)
  \/ Polled

Spec == Init /\ [][Next]_vars

\* Requests end, heartbeats and polls go on, and a dead daemon is started again.
\* The loop tries to connect and to poll for ever; that the cloud accepts in the end
\* is assumed of the cloud.
Fairness ==
  /\ \A d \in Drains : WF_vars(\E r \in Reports : Sends(d, r))
  /\ \A r \in Reports : WF_vars(Answered(r))
  /\ WF_vars(HeartbeatDrains) /\ WF_vars(Connect) /\ WF_vars(Unauthorized)
  /\ WF_vars(Polled) /\ WF_vars(Boots)

FairSpec == Spec /\ Fairness

-----------------------------------------------------------------------------
(* Properties *)

\* A report is lost only to MAX_ATTEMPTS failures, or with the process that was
\* sending it for the first time: however drains overlap, read stale attempts and
\* delete under one another, what was made is queued or with the cloud otherwise.
LostOnlyAfterFailures ==
  \A r \in Reports :
    report[r] = "made" => r \in Queued \/ r \in delivered \/ failures[r] >= MaxAttempts

\* Every row leaves the queue.  Rows of types the drain cannot send hold places at
\* its head only until they are dropped, and a drain that writes back an older
\* count of attempts than another has written delays the end but cannot repeat it
\* for ever.
QueueEmpties == \A r \in Reports : r \in Queued ~> r \notin Queued

\* One process dispatches a command once: not again after a 401, a connection that
\* starts anew, or a handler that throws in the middle of what the poll brought.
DispatchedOnceALife == \A c \in Commands : dispatches[c] <= 1

\* Every posted command reaches this machine, as the row of the task it brings or,
\* if it brings none, as a call of onTaskDispatch: also across 401s and restarts,
\* unless it ages past its hour or is dropped with the rest of a batch whose
\* handler threw.
CommandsArrive ==
  \A c \in Commands :
    c <= posted ~> \/ c \in rows \cup old \cup passed
                   \/ c \in Bare /\ dispatches[c] > 0
=============================================================================

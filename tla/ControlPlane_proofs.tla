------------------------ MODULE ControlPlane_proofs ------------------------
(***************************************************************************)
(* For any number of reports, drains and commands: no report is lost short  *)
(* of MAX_ATTEMPTS failures, and no command dispatched twice by one process.*)
(***************************************************************************)
EXTENDS ControlPlane, FiniteSetTheorems, TLAPS

\* The attempts of a row, and what a drain has read of them, lag behind what failed.
Counted ==
  \A r \in Reports :
    /\ attempts[r] # NoRow => attempts[r] <= failures[r]
    /\ \A d \in Drains : left[d][r] # NoRow => left[d][r] <= failures[r]

ToldInv == ToldOK /\ Counted /\ LostOnlyAfterFailures

\* What was dispatched lies behind the cursor.
BehindTheCursor == \A c \in Commands : dispatches[c] > 0 => c <= lastSequence

CommandsInv == CommandsOK /\ BehindTheCursor /\ DispatchedOnceALife

Inv == LinkOK /\ ToldInv /\ CommandsInv

-----------------------------------------------------------------------------
LEMMA InitInv == ASSUME Init PROVE Inv
<1> USE ControlPlaneAssumption DEF ControlPlaneAssumption
<1>1. LinkOK
  <2>1. faults \in 0..MaxFaults
    BY DEF Init
  <2>2. up \in BOOLEAN /\ token \in BOOLEAN /\ session \in BOOLEAN
    BY Zenon DEF Init
  <2> QED BY <2>1, <2>2 DEF LinkOK
<1>2. ToldOK
  BY DEF Init, ToldOK
<1>3. Counted /\ LostOnlyAfterFailures
  BY DEF Init, Counted, LostOnlyAfterFailures
<1>4. CommandsOK
  BY DEF Init, CommandsOK
<1>5. BehindTheCursor /\ DispatchedOnceALife
  BY DEF Init, BehindTheCursor, DispatchedOnceALife, Commands
<1> QED BY <1>1, <1>2, <1>3, <1>4, <1>5 DEF Inv, ToldInv, CommandsInv

LEMMA ToldUnchanged == ASSUME ToldInv, UNCHANGED told PROVE ToldInv'
BY DEF ToldInv, ToldOK, Counted, LostOnlyAfterFailures, Queued, told, outbox

LEMMA CommandsUnchanged == ASSUME CommandsInv, UNCHANGED commands PROVE CommandsInv'
BY DEF CommandsInv, CommandsOK, BehindTheCursor, DispatchedOnceALife, commands

LEMMA FaultTyped ==
  ASSUME faults \in 0..MaxFaults, Fault \/ NoFault
  PROVE  faults' \in 0..MaxFaults
BY ControlPlaneAssumption DEF Fault, NoFault, ControlPlaneAssumption

LEMMA LinkUnchanged == ASSUME LinkOK, UNCHANGED link, NoFault PROVE LinkOK'
BY DEF LinkOK, link, NoFault

-----------------------------------------------------------------------------
(* What the operations of the queue do *)

LEMMA EnqueuedRow ==
  ASSUME ToldOK, NEW r \in Reports, Enqueued(r)
  PROVE  /\ attempts' \in [Reports -> Nat \cup {NoRow}] /\ created' \in [Reports -> Nat]
         /\ attempts'[r] = 0 /\ \A q \in Reports : q # r => attempts'[q] = attempts[q]
<1>1. IsFiniteSet({q \in Reports : report[q] = "made"})
  BY FS_Subset, ControlPlaneAssumption DEF ControlPlaneAssumption
<1>2. Cardinality({q \in Reports : report[q] = "made"}) \in Nat
  BY <1>1, FS_CardinalityType
<1> QED BY <1>2 DEF ToldOK, Enqueued

LEMMA DrainTyped ==
  ASSUME ToldOK, Counted, NEW d \in Drains, DrainStarts(d)
  PROVE  /\ left' \in [Drains -> [Reports -> Nat \cup {NoRow}]]
         /\ \A e \in Drains, r \in Reports : left'[e][r] \in {left[e][r], attempts[r], NoRow}
BY DEF ToldOK, DrainStarts

LEMMA DrainKeeps ==
  ASSUME ToldInv, NEW d \in Drains, DrainStarts(d), UNCHANGED <<report, outbox, delivered, failures>>
  PROVE  ToldInv'
<1>1. /\ left' \in [Drains -> [Reports -> Nat \cup {NoRow}]]
      /\ \A e \in Drains, r \in Reports : left'[e][r] \in {left[e][r], attempts[r], NoRow}
  BY DrainTyped DEF ToldInv
<1>2. ToldOK'
  BY <1>1 DEF ToldInv, ToldOK, outbox
<1>3. Counted'
  BY <1>1 DEF ToldInv, Counted, outbox
<1>4. LostOnlyAfterFailures'
  BY DEF ToldInv, LostOnlyAfterFailures, Queued, outbox
<1> QED BY <1>2, <1>3, <1>4 DEF ToldInv

-----------------------------------------------------------------------------
(* One lemma per action that touches the reports *)

LEMMA SendsInv ==
  ASSUME ToldInv, NEW d \in Drains, NEW r \in Reports, Sends(d, r)
  PROVE  ToldInv'
<1> USE ControlPlaneAssumption DEF ControlPlaneAssumption
<1>1. /\ left' \in [Drains -> [Reports -> Nat \cup {NoRow}]]
      /\ \A e \in Drains, q \in Reports : left'[e][q] \in {left[e][q], NoRow}
      /\ report' = report /\ created' = created
  BY DEF Sends, ToldInv, ToldOK
<1>2. left[d][r] \in Nat /\ left[d][r] <= failures[r] /\ failures[r] \in 0..MaxAttempts
  BY DEF Sends, ToldInv, ToldOK, Counted
<1>3. CASE /\ delivered' = delivered \cup {r}
           /\ attempts' = [attempts EXCEPT ![r] = NoRow] /\ UNCHANGED failures
  <2>1. ToldOK'
    BY <1>1, <1>3 DEF ToldInv, ToldOK
  <2>2. Counted'
    BY <1>1, <1>3 DEF ToldInv, ToldOK, Counted
  <2>3. LostOnlyAfterFailures'
    BY <1>1, <1>3 DEF ToldInv, ToldOK, LostOnlyAfterFailures, Queued
  <2> QED BY <2>1, <2>2, <2>3 DEF ToldInv
<1>4. CASE /\ FailureRecorded(r, left[d][r])
           /\ failures' = [failures EXCEPT ![r] = IF @ < MaxAttempts THEN @ + 1 ELSE @]
           /\ delivered' \in {delivered, delivered \cup {r}}
  <2>1. /\ failures' \in [Reports -> 0..MaxAttempts]
        /\ \A q \in Reports : failures[q] <= failures'[q]
        /\ failures[r] < MaxAttempts => failures'[r] = failures[r] + 1
    BY <1>4 DEF ToldInv, ToldOK
  <2>2. /\ attempts' \in [Reports -> Nat \cup {NoRow}]
        /\ \A q \in Reports : q # r => attempts'[q] = attempts[q]
        /\ attempts'[r] \in {NoRow, left[d][r] + 1}
    BY <1>2, <1>4 DEF FailureRecorded, ToldInv, ToldOK
  <2>3. attempts'[r] # NoRow => left[d][r] + 1 < MaxAttempts
    BY <1>2, <1>4 DEF FailureRecorded, Exhausted, ToldInv, ToldOK
  <2>4. attempts'[r] = NoRow => attempts[r] = NoRow \/ left[d][r] + 1 >= MaxAttempts
    BY <1>2, <1>4 DEF FailureRecorded, Exhausted, ToldInv, ToldOK
  <2>5. ToldOK'
    BY <1>1, <1>4, <2>1, <2>2 DEF ToldInv, ToldOK
  <2>6. Counted'
    <3> SUFFICES ASSUME NEW q \in Reports
                 PROVE  /\ attempts'[q] # NoRow => attempts'[q] <= failures'[q]
                        /\ \A e \in Drains : left'[e][q] # NoRow => left'[e][q] <= failures'[q]
      BY DEF Counted
    <3>1. failures[q] \in Nat /\ failures'[q] \in Nat /\ failures[q] <= failures'[q]
      BY <2>1 DEF ToldInv, ToldOK
    <3>2. \A e \in Drains : left'[e][q] # NoRow => left'[e][q] <= failures'[q]
      <4> TAKE e \in Drains
      <4> HAVE left'[e][q] # NoRow
      <4>1. left'[e][q] = left[e][q] /\ left[e][q] \in Nat /\ left[e][q] <= failures[q]
        BY <1>1 DEF ToldInv, ToldOK, Counted
      <4> QED BY <3>1, <4>1
    <3>3. CASE q = r
      BY <1>2, <2>1, <2>2, <2>3, <3>1, <3>2, <3>3
    <3>4. CASE q # r
      <4>1. attempts'[q] = attempts[q] /\ attempts[q] \in Nat \cup {NoRow}
        BY <2>2, <3>4 DEF ToldInv, ToldOK
      <4>2. attempts[q] # NoRow => attempts[q] <= failures[q]
        BY DEF ToldInv, Counted
      <4> QED BY <3>1, <3>2, <4>1, <4>2
    <3> QED BY <3>3, <3>4
  <2>7. LostOnlyAfterFailures'
    <3> SUFFICES ASSUME NEW q \in Reports, report[q] = "made", attempts'[q] = NoRow, q \notin delivered'
                 PROVE  failures'[q] >= MaxAttempts
      BY <1>1 DEF LostOnlyAfterFailures, Queued
    <3>1. q \notin delivered
      BY <1>4
    <3>2. failures[q] \in Nat /\ failures'[q] \in Nat /\ failures[q] <= failures'[q]
      BY <2>1 DEF ToldInv, ToldOK
    <3>3. CASE attempts[q] = NoRow
      BY <3>1, <3>2, <3>3 DEF ToldInv, LostOnlyAfterFailures, Queued
    <3>4. CASE attempts[q] # NoRow
      BY <1>2, <2>1, <2>2, <2>4, <3>2, <3>4
    <3> QED BY <3>3, <3>4
  <2> QED BY <2>5, <2>6, <2>7 DEF ToldInv
<1> QED BY <1>3, <1>4 DEF Sends

LEMMA OfflineInv ==
  ASSUME ToldInv, NEW r \in Reports, Offline(r)
  PROVE  ToldInv'
<1> USE ControlPlaneAssumption DEF ControlPlaneAssumption
<1>1. /\ attempts' \in [Reports -> Nat \cup {NoRow}] /\ created' \in [Reports -> Nat]
      /\ attempts'[r] = 0 /\ \A q \in Reports : q # r => attempts'[q] = attempts[q]
  BY EnqueuedRow DEF ToldInv, Offline
<1>2. /\ report' = [report EXCEPT ![r] = "made"]
      /\ left' = left /\ delivered' = delivered /\ failures' = failures
  BY DEF Offline
<1>3. ToldOK'
  BY <1>1, <1>2 DEF ToldInv, ToldOK
<1>4. Counted'
  BY <1>1, <1>2 DEF ToldInv, ToldOK, Counted
<1>5. LostOnlyAfterFailures'
  BY <1>1, <1>2 DEF ToldInv, ToldOK, LostOnlyAfterFailures, Queued
<1> QED BY <1>3, <1>4, <1>5 DEF ToldInv

LEMMA AnsweredInv ==
  ASSUME ToldInv, NEW r \in Reports, Answered(r)
  PROVE  ToldInv'
<1> USE ControlPlaneAssumption DEF ControlPlaneAssumption
<1>1. /\ report' = [report EXCEPT ![r] = "made"]
      /\ left' = left /\ failures' = failures
      /\ delivered' \in {delivered, delivered \cup {r}}
  BY DEF Answered
<1>2. CASE delivered' = delivered \cup {r} /\ UNCHANGED outbox
  <2>1. ToldOK'
    BY <1>1, <1>2 DEF ToldInv, ToldOK, outbox
  <2>2. Counted'
    BY <1>1, <1>2 DEF ToldInv, Counted, outbox
  <2>3. LostOnlyAfterFailures'
    BY <1>1, <1>2 DEF ToldInv, ToldOK, LostOnlyAfterFailures, Queued, outbox
  <2> QED BY <2>1, <2>2, <2>3 DEF ToldInv
<1>3. CASE Enqueued(r)
  <2>1. /\ attempts' \in [Reports -> Nat \cup {NoRow}] /\ created' \in [Reports -> Nat]
        /\ attempts'[r] = 0 /\ \A q \in Reports : q # r => attempts'[q] = attempts[q]
    BY <1>3, EnqueuedRow DEF ToldInv
  <2>2. ToldOK'
    BY <1>1, <2>1 DEF ToldInv, ToldOK
  <2>3. Counted'
    BY <1>1, <2>1 DEF ToldInv, ToldOK, Counted
  <2>4. LostOnlyAfterFailures'
    BY <1>1, <2>1 DEF ToldInv, ToldOK, LostOnlyAfterFailures, Queued
  <2> QED BY <2>2, <2>3, <2>4 DEF ToldInv
<1> QED BY <1>2, <1>3 DEF Answered

\* A report that is being sent, or whose process dies, is not made yet.
LEMMA NotMade ==
  ASSUME ToldInv, UNCHANGED <<outbox, delivered, failures>>,
         report' \in [Reports -> {"none", "sending", "made", "died"}],
         left' \in [Drains -> [Reports -> Nat \cup {NoRow}]],
         \A r \in Reports : report'[r] = "made" => report[r] = "made",
         \A d \in Drains, r \in Reports : left'[d][r] \in {left[d][r], NoRow}
  PROVE  ToldInv'
<1>1. ToldOK'
  BY DEF ToldInv, ToldOK, outbox
<1>2. Counted'
  BY DEF ToldInv, Counted, outbox
<1>3. LostOnlyAfterFailures'
  BY DEF ToldInv, LostOnlyAfterFailures, Queued, outbox
<1> QED BY <1>1, <1>2, <1>3 DEF ToldInv

LEMMA ReportedInv ==
  ASSUME ToldInv, NEW r \in Reports, Reported(r)
  PROVE  ToldInv'
<1>1. /\ report' \in [Reports -> {"none", "sending", "made", "died"}]
      /\ \A q \in Reports : report'[q] = "made" => report[q] = "made"
  BY DEF Reported, ToldInv, ToldOK
<1>2. left' = left /\ UNCHANGED <<outbox, delivered, failures>>
  BY DEF Reported
<1> QED BY <1>1, <1>2, NotMade DEF ToldInv, ToldOK

LEMMA EndsInv == ASSUME Inv, Ends PROVE Inv'
<1> USE ControlPlaneAssumption DEF ControlPlaneAssumption
<1>1. LinkOK'
  BY FaultTyped DEF Inv, LinkOK, Ends
<1>2. /\ report' \in [Reports -> {"none", "sending", "made", "died"}]
      /\ \A q \in Reports : report'[q] = "made" => report[q] = "made"
      /\ left' \in [Drains -> [Reports -> Nat \cup {NoRow}]]
      /\ \A d \in Drains, r \in Reports : left'[d][r] \in {left[d][r], NoRow}
  BY DEF Ends, Inv, ToldInv, ToldOK
<1>3. ToldInv'
  BY <1>2, NotMade DEF Ends, Inv
<1>4. CommandsOK'
  BY DEF Ends, Inv, CommandsInv, CommandsOK
<1>5. BehindTheCursor' /\ DispatchedOnceALife'
  BY DEF Ends, BehindTheCursor, DispatchedOnceALife
<1> QED BY <1>1, <1>3, <1>4, <1>5 DEF Inv, CommandsInv

-----------------------------------------------------------------------------
(* The commands *)

LEMMA PolledInv == ASSUME CommandsInv, Polled PROVE CommandsInv'
<1> USE ControlPlaneAssumption DEF ControlPlaneAssumption, Commands
<1>1. posted \in Nat /\ lastSequence \in Nat /\ LastCommand \in Nat /\ posted <= LastCommand
      /\ lastSequence <= posted
  BY DEF CommandsInv, CommandsOK
<1>2. \A c \in Handled : c \in Commands /\ lastSequence < c /\ c <= posted
  BY <1>1 DEF Handled, Brought
<1>3. dispatches' \in [Commands -> Nat]
  <2> HIDE DEF Commands
  <2> QED BY DEF Polled, CommandsInv, CommandsOK
<1>4. rows' \subseteq Commands /\ passed' \subseteq Commands
  <2>1. Brought \subseteq Commands
    BY <1>1 DEF Brought
  <2> HIDE DEF Commands
  <2> QED BY <1>2, <2>1 DEF Polled, CommandsInv, CommandsOK
<1>5. CommandsOK'
  BY <1>1, <1>3, <1>4 DEF Polled, CommandsInv, CommandsOK
<1>6. \A c \in Commands : c \in Handled => dispatches[c] = 0
  BY <1>1, <1>2 DEF CommandsInv, CommandsOK, BehindTheCursor
<1>7. DispatchedOnceALife'
  BY <1>6 DEF Polled, CommandsInv, CommandsOK, DispatchedOnceALife
<1>8. BehindTheCursor'
  BY <1>1, <1>2 DEF Polled, CommandsInv, CommandsOK, BehindTheCursor
<1> QED BY <1>5, <1>7, <1>8 DEF CommandsInv

LEMMA PostsInv == ASSUME CommandsInv, Posts PROVE CommandsInv'
BY ControlPlaneAssumption DEF Posts, CommandsInv, CommandsOK, BehindTheCursor, DispatchedOnceALife, ControlPlaneAssumption

LEMMA AgesInv == ASSUME CommandsInv, NEW c \in Commands, Ages(c) PROVE CommandsInv'
BY DEF Ages, CommandsInv, CommandsOK, BehindTheCursor, DispatchedOnceALife

-----------------------------------------------------------------------------
LEMMA NextInv == ASSUME Inv, [Next]_vars PROVE Inv'
<1>1. ASSUME NEW d \in Drains, NEW r \in Reports, Sends(d, r) PROVE Inv'
  BY <1>1, SendsInv, LinkUnchanged, CommandsUnchanged DEF Inv, Sends
<1>2. CASE HeartbeatDrains
  BY <1>2, DrainKeeps, LinkUnchanged, CommandsUnchanged DEF Inv, HeartbeatDrains
<1>3. ASSUME NEW r \in Reports, Offline(r) PROVE Inv'
  BY <1>3, OfflineInv, LinkUnchanged, CommandsUnchanged DEF Inv, Offline
<1>4. ASSUME NEW r \in Reports, Reported(r) PROVE Inv'
  BY <1>4, ReportedInv, LinkUnchanged, CommandsUnchanged DEF Inv, Reported
<1>5. ASSUME NEW r \in Reports, Answered(r) PROVE Inv'
  BY <1>5, AnsweredInv, LinkUnchanged, CommandsUnchanged DEF Inv, Answered
<1>6. CASE Connect
  <2>1. LinkOK'
    BY <1>6, FaultTyped DEF Inv, LinkOK, Connect
  <2>2. CommandsInv'
    BY <1>6, CommandsUnchanged DEF Inv, Connect
  <2>3. ToldInv'
    <3>1. UNCHANGED <<report, outbox, delivered, failures>>
      BY <1>6 DEF Connect
    <3>2. CASE \E d \in Drains : DrainStarts(d)
      BY <3>1, <3>2, DrainKeeps DEF Inv
    <3>3. CASE UNCHANGED left
      BY <3>1, <3>3, ToldUnchanged DEF Inv, told
    <3> QED BY <1>6, <3>2, <3>3 DEF Connect
  <2> QED BY <2>1, <2>2, <2>3 DEF Inv
<1>7. CASE Revoked
  <2>1. LinkOK'
    BY <1>7, FaultTyped DEF Inv, LinkOK, Revoked
  <2> QED BY <1>7, <2>1, ToldUnchanged, CommandsUnchanged DEF Inv, Revoked
<1>8. CASE Unauthorized
  <2>1. LinkOK'
    BY <1>8, FaultTyped DEF Inv, LinkOK, Unauthorized
  <2> QED BY <1>8, <2>1, ToldUnchanged, CommandsUnchanged DEF Inv, Unauthorized
<1>9. CASE Ends
  BY <1>9, EndsInv
<1>10. CASE Boots
  <2>1. LinkOK'
    BY <1>10, FaultTyped DEF Inv, LinkOK, Boots
  <2> QED BY <1>10, <2>1, ToldUnchanged, CommandsUnchanged DEF Inv, Boots
<1>11. CASE Posts
  BY <1>11, PostsInv, LinkUnchanged, ToldUnchanged DEF Inv, Posts
<1>12. ASSUME NEW c \in Commands, Ages(c) PROVE Inv'
  BY <1>12, AgesInv, LinkUnchanged, ToldUnchanged DEF Inv, Ages
<1>13. CASE Polled
  BY <1>13, PolledInv, LinkUnchanged, ToldUnchanged DEF Inv, Polled
<1>14. CASE UNCHANGED vars
  <2>1. UNCHANGED link /\ UNCHANGED told /\ UNCHANGED commands /\ NoFault
    BY <1>14 DEF vars, NoFault
  <2> QED BY <2>1, LinkUnchanged, ToldUnchanged, CommandsUnchanged DEF Inv
<1> QED BY <1>1, <1>2, <1>3, <1>4, <1>5, <1>6, <1>7, <1>8, <1>9, <1>10, <1>11, <1>12, <1>13, <1>14 DEF Next

\* The invariants of the link to the cloud: types, no report lost before its
\* attempts are used up, and no command dispatched twice by one process.
THEOREM Safety == Spec => [](TypeOK /\ LostOnlyAfterFailures /\ DispatchedOnceALife)
<1>1. Init => Inv
  BY InitInv
<1>2. Inv /\ [Next]_vars => Inv'
  BY NextInv
<1>3. Inv => TypeOK /\ LostOnlyAfterFailures /\ DispatchedOnceALife
  BY DEF Inv, ToldInv, CommandsInv, TypeOK
<1> QED BY <1>1, <1>2, <1>3, PTL DEF Spec

\* A process dispatches a command at most once, through a 401, a connection that starts anew
\* or a handler that throws: the cursor of pollLoop moves before the handlers run (client.ts).
THEOREM OnceALife == Spec => []DispatchedOnceALife
  BY Safety, PTL
=============================================================================

---------------------------- MODULE PhaseContract ----------------------------
(***************************************************************************)
(* What runPhase promises its caller, the Director: while it runs it puts  *)
(* at most one question to the founder, and it returns                     *)
(* phase-blocked-on-founder exactly when it did, or it throws, but never   *)
(* once it has asked.                                                      *)
(***************************************************************************)
VARIABLES status, asked

vars == <<status, asked>>

Init == status = "running" /\ asked = FALSE

Ask == status = "running" /\ ~asked /\ asked' = TRUE /\ UNCHANGED status

Return ==
  /\ status = "running"
  /\ status' \in IF asked THEN {"phase-blocked-on-founder"}
                 ELSE {"phase-closed", "phase-partial", "phase-aborted"}
  /\ UNCHANGED asked

Throw == status = "running" /\ ~asked /\ status' = "threw" /\ UNCHANGED asked

Next == Ask \/ Return \/ Throw

\* The phase ends.
Spec == Init /\ [][Next]_vars /\ WF_vars(Return)
=============================================================================

----------------------------- MODULE MCDirector -----------------------------
(* Small instances of Director for TLC. *)
EXTENDS Director, TLC

CONSTANTS a1, a2, q1, q2, q3, s1, s2, s3, revenue, plumbing

\* The founder's revenue mode is the tight one, as in MODE_BUDGETS.
MCModeOf == [s \in Sources |-> IF s = s1 THEN revenue ELSE plumbing]
MCWall == (revenue :> 0) @@ (plumbing :> 2)
MCCents == (revenue :> 1) @@ (plumbing :> 2)
MCPulses == 0..1
MCStill == {0}
MCSymmetry == Permutations(Arcs) \cup Permutations(Questions)
=============================================================================

---------------------------- MODULE MCTaskEngine ----------------------------
(* Small instances of TaskEngine for TLC. *)
EXTENDS TaskEngine, TLC

CONSTANTS t1, t2, t3, t4, r1, r2, r3

MCSymmetry == Permutations(Runs)
=============================================================================

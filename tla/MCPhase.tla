------------------------------- MODULE MCPhase -------------------------------
(* Small instances of Phase for TLC. *)
EXTENDS Phase
=============================================================================

---------------------------- MODULE MCSemaphore -----------------------------
(* Small instances of Semaphore for TLC. *)
EXTENDS Semaphore, TLC

MCCallers == {"c1", "c2", "c3", "c4", "c5"}
=============================================================================

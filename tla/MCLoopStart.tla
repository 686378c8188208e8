---------------------------- MODULE MCLoopStart ----------------------------
(* Instance of LoopStart for TLC. *)
EXTENDS LoopStart

CONSTANTS t1, t2, t3
=============================================================================

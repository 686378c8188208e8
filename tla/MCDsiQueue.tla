----------------------------- MODULE MCDsiQueue -----------------------------
(***************************************************************************)
(* Instances of DsiQueue for TLC.  Callers and blocks are interchangeable. *)
(***************************************************************************)
EXTENDS DsiQueue, TLC

Symmetry == Permutations(Callers) \cup Permutations(Blocks)
\* A removal is followed until the first race.
CleanRemoval == removal.pc = "none" \/ races = {}
=============================================================================

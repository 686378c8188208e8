----------------------------- MODULE MCDidCache -----------------------------
(***************************************************************************)
(* Instances of DidCache for TLC.                                          *)
(***************************************************************************)
EXTENDS DidCache, TLC

\* Nothing is claimed of what follows one of the races: the first state of it
\* ends a behaviour.
Intact == races = {}

Symmetry == Permutations(Threads) \cup Permutations(Dids) \cup Permutations(Names)
=============================================================================

---------------------------- MODULE MCServerList ----------------------------
(***************************************************************************)
(* Instances of ServerList for TLC.                                        *)
(***************************************************************************)
EXTENDS ServerList, TLC

\* Nothing is claimed of what follows the use of a freed server, nor of a list
\* that has been turned into a loop: the first state of these ends a behaviour.
Intact == "freed_in_use" \notin races

Symmetry == Permutations(Threads) \cup Permutations(Blocks)
=============================================================================

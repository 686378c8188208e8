---------------------------- MODULE MCDsiFraming ----------------------------
(***************************************************************************)
(* Instances of DsiFraming for TLC.                                        *)
(***************************************************************************)
EXTENDS DsiFraming
=============================================================================

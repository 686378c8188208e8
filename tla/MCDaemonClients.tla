--------------------------- MODULE MCDaemonClients ---------------------------
(***************************************************************************)
(* Instances of DaemonClients for TLC.                                     *)
(***************************************************************************)
EXTENDS DaemonClients, TLC

\* Nothing is claimed of what follows one of the races: the first state of it
\* ends a behaviour.
Intact == races = {}
=============================================================================

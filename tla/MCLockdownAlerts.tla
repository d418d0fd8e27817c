-------------------------- MODULE MCLockdownAlerts --------------------------
(***************************************************************************)
(* LockdownAlerts on small instances, for TLC.                             *)
(***************************************************************************)
EXTENDS LockdownAlerts, TLC

\* Replicas are interchangeable (safety runs only).
Symmetry == Permutations(Workers)
=============================================================================

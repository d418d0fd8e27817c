------------------------- MODULE MCLockdownJoiners -------------------------
(***************************************************************************)
(* LockdownJoiners on small instances, for TLC.                            *)
(***************************************************************************)
EXTENDS LockdownJoiners, TLC

\* Replicas and people are interchangeable (safety runs only).
Symmetry == Permutations(Users) \cup Permutations(Workers)
=============================================================================

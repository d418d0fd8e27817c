------------------------ MODULE MCLockdownResponse -------------------------
(***************************************************************************)
(* LockdownResponse on small instances, for TLC.                           *)
(***************************************************************************)
EXTENDS LockdownResponse, TLC

\* Replicas and people are interchangeable (safety runs only).
RunSymmetry == Permutations(Users) \cup Permutations(Workers) \cup Permutations(Responders)
=============================================================================

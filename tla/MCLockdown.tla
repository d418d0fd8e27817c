----------------------------- MODULE MCLockdown -----------------------------
(***************************************************************************)
(* Lockdown on small instances, for TLC.                                   *)
(***************************************************************************)
EXTENDS Lockdown, TLC

\* Handlers of a kind are interchangeable (safety runs only).
Symmetry == Permutations(Starters) \cup Permutations(Lifters) \cup Permutations(Workers)
=============================================================================

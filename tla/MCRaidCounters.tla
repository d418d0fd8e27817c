--------------------------- MODULE MCRaidCounters ---------------------------
(***************************************************************************)
(* RaidCounters on small instances, for TLC.                               *)
(***************************************************************************)
EXTENDS RaidCounters, TLC

\* Accounts are interchangeable, and so are items.
Symmetry == Permutations(Users) \cup Permutations(Items)
=============================================================================

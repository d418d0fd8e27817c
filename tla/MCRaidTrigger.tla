--------------------------- MODULE MCRaidTrigger ---------------------------
(***************************************************************************)
(* RaidTrigger on small instances, for TLC.                                *)
(***************************************************************************)
EXTENDS RaidTrigger
=============================================================================

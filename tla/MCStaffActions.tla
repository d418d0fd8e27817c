--------------------------- MODULE MCStaffActions ---------------------------
(***************************************************************************)
(* StaffActions on small instances, for TLC.                               *)
(***************************************************************************)
EXTENDS StaffActions, TLC

CONSTANT g1

\* What the target is in the group.  At first an end at 2 is the last one within the
\* margin, and one at 3 the first past it.
AnyStart ==
    {[g \in Groups |-> s] : s \in {Member, Kicked(3), Restricted(TRUE, TRUE, 2)}}

\* Two commands on one target, the second about to change what the first does.
Command(kind, length) == [kind |-> kind, length |-> length]

TwoCommands ==
    {<<Command("ban", 4), Command("mute", 1)>>,
     <<Command("ban", 1), Command("unban", 0)>>,
     <<Command("mute", 0), Command("unmute", 0)>>}

\* What somebody else decides: a ban, its end, a promotion.
OtherDecisions == {Kicked(0), Member, Administrator}
=============================================================================

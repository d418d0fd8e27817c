------------------------- MODULE LockdownLifecycle -------------------------
(***************************************************************************)
(* What the life of a group's lockdowns promises, with none of the steps   *)
(* that keep the promise: at most one lockdown of the group runs, a        *)
(* lockdown Telegram confirmed ends only by a lift, a lift is recorded     *)
(* once, and a lockdown that ended never runs again.  Module Lockdown      *)
(* implements it.                                                          *)
(***************************************************************************)
EXTENDS Naturals

CONSTANT Rows            \* the lockdown rows the group may ever have

VARIABLE phase           \* phase[r]: where row r is in its life

Phases == {"none", "unconfirmed", "confirmed", "lifting", "lifted", "dropped"}

Running == {"unconfirmed", "confirmed"}

Init == phase = [r \in Rows |-> "none"]

Move(r, from, to) ==
    /\ phase[r] \in from
    /\ phase' = [phase EXCEPT ![r] = to]

\* A lockdown starts only in a group that has none running.
Begin(r) ==
    /\ \A q \in Rows : phase[q] \notin Running
    /\ Move(r, {"none"}, "unconfirmed")

Confirm(r) == Move(r, {"unconfirmed"}, "confirmed")

\* Only a lockdown whose lock was never confirmed can be dropped.
Drop(r) == Move(r, {"unconfirmed"}, "dropped")

Lift(r) == Move(r, Running, "lifting")

Finish(r) == Move(r, {"lifting"}, "lifted")

Next ==
    \E r \in Rows : Begin(r) \/ Confirm(r) \/ Drop(r) \/ Lift(r) \/ Finish(r)

Spec == Init /\ [][Next]_phase
============================================================================

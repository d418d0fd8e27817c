---------------------------- MODULE StaffDecide ----------------------------
(***************************************************************************)
(* What a staff action, or its undo, does to a target in one linked group: *)
(* the pure decisions of staff_action_decide.go over the target's live     *)
(* state, and what Telegram makes of the one call they choose.  Time is    *)
(* counted in ticks; an end of 0 is for good.                              *)
(***************************************************************************)
EXTENDS Naturals

CONSTANTS
    MinTerm,         \* a ban or restriction that ends sooner is for good
    UndoMargin       \* an undo does not put back what ends within it

ASSUME TermsAssumption == MinTerm \in Nat /\ UndoMargin \in Nat

ActionKinds == {"ban", "mute", "kick", "unban", "unmute"}

-----------------------------------------------------------------------------
\* The target in a group, as getChatMember tells it.

TargetState == [status : {"member", "left", "administrator", "kicked", "restricted"},
                in : BOOLEAN, muted : BOOLEAN, until : Nat]

Plain(status, in) == [status |-> status, in |-> in, muted |-> FALSE, until |-> 0]

Member == Plain("member", TRUE)

Left == Plain("left", FALSE)

Administrator == Plain("administrator", TRUE)

Kicked(until) == [Left EXCEPT !.status = "kicked", !.until = until]

Restricted(in, muted, until) ==
    [status |-> "restricted", in |-> in, muted |-> muted, until |-> until]

Free(in) == IF in THEN Member ELSE Left

\* Only a restriction mutes: no other answer has permissions.
Shaped(s) == s.muted => s.status = "restricted"

\* The target joins or leaves; a restriction stays.
Moves(s) ==
    IF s.status = "restricted" THEN {[s EXCEPT !.in = ~s.in]}
    ELSE IF s.status \in {"member", "left"} THEN {Free(~s.in)} ELSE {}

\* Never looked at, or not stored (prior_status is empty).
Unknown == Plain("unknown", FALSE)

\* What the target is once an end that passed has taken effect.
AfterEnd(s, now) == IF s.until # 0 /\ s.until <= now THEN Free(s.in) ELSE s

-----------------------------------------------------------------------------
\* The calls: muted is the permission set of a restriction.

Verdict == [call : {"none", "ban", "mute", "kick", "unban", "unmute", "restore"},
            until : Nat, muted : BOOLEAN]

Skip == [call |-> "none", until |-> 0, muted |-> FALSE]

Do(call, until) == [call |-> call, until |-> until, muted |-> FALSE]

RestoreOf(prior) == [call |-> "restore", until |-> prior.until, muted |-> prior.muted]

EndAt(until, now) == IF until # 0 /\ until < now + MinTerm THEN 0 ELSE until

\* Telegram carries out a call; it refuses one that is aimed at an administrator.
Applied(v, s, now) ==
    IF s = Administrator THEN s
    ELSE CASE v.call = "ban" -> Kicked(EndAt(v.until, now))
           [] v.call = "mute" -> Restricted(s.in, TRUE, EndAt(v.until, now))
           [] v.call = "restore" -> Restricted(s.in, v.muted, EndAt(v.until, now))
           [] v.call = "kick" -> Left
           [] v.call = "unban" -> IF s.status = "kicked" THEN Left ELSE s
           [] v.call = "unmute" -> Free(s.in)
           [] OTHER -> s

-----------------------------------------------------------------------------
\* decideStaffAction

EndsLater(new, cur) == cur # 0 /\ (new = 0 \/ new > cur)

BanVerdict(s, until, lockdownBan) ==
    IF s.status = "kicked" /\ ~lockdownBan /\ ~EndsLater(until, s.until)
    THEN Skip ELSE Do("ban", until)

MuteVerdict(s, until) ==
    IF ~s.in \/ (s.status = "restricted" /\ s.muted /\ ~EndsLater(until, s.until))
    THEN Skip ELSE Do("mute", until)

KickVerdict(s) == IF s.in THEN Do("kick", 0) ELSE Skip

UnbanVerdict(s) == IF s.status = "kicked" THEN Do("unban", 0) ELSE Skip

UnmuteVerdict(s) == IF s.status = "restricted" /\ s.muted THEN Do("unmute", 0) ELSE Skip

ActionVerdict(kind, s, until, lockdownBan) ==
    IF s = Administrator THEN Skip
    ELSE CASE kind = "ban" -> BanVerdict(s, until, lockdownBan)
           [] kind = "mute" -> MuteVerdict(s, until)
           [] kind = "kick" -> KickVerdict(s)
           [] kind = "unban" -> UnbanVerdict(s)
           [] kind = "unmute" -> UnmuteVerdict(s)

-----------------------------------------------------------------------------
\* decideStaffUndo

\* Mutation: what ends just at the margin still runs.
EndedTooLate(until, now) == until # 0 /\ until < now + UndoMargin

Ended(until, now) == until # 0 /\ until <= now + UndoMargin

\* A dated ban that was called too late is one for good.
SameUntil(live, until, appliedAt) ==
    live = until \/ (until # 0 /\ live = 0 /\ until < appliedAt + MinTerm)

LeftBehind(kind, until, appliedAt, s) ==
    CASE kind = "ban" -> s.status = "kicked" /\ SameUntil(s.until, until, appliedAt)
      [] kind = "mute" -> s.status = "restricted" /\ s.muted /\ SameUntil(s.until, until, appliedAt)
      [] kind = "unban" -> s.status = "left"
      [] kind = "unmute" -> s.status \in {"member", "left", "restricted"} /\ ~s.muted

\* What the recorded prior state asks for, by the action that replaced it.
PutBack(kind, prior, now) ==
    LET running == ~Ended(prior.until, now)
        banned == prior.status = "kicked" /\ running
        restricted == prior.status = "restricted" /\ running
    IN CASE kind \in {"ban", "unban"} /\ banned -> Do("ban", prior.until)
         [] kind \in {"ban", "mute", "unmute"} /\ restricted -> RestoreOf(prior)
         [] kind = "ban" /\ ~banned /\ ~restricted /\ prior.status # "administrator" -> Do("unban", 0)
         [] kind = "mute" /\ ~restricted /\ prior.status \in {"member", "restricted"} -> Do("unmute", 0)
         [] OTHER -> Skip

UndoVerdict(kind, prior, until, appliedAt, s, now) ==
    IF \/ s = Administrator
       \/ prior = Unknown
       \/ kind \in {"ban", "mute"} /\ until # 0 /\ until <= now
       \/ ~LeftBehind(kind, until, appliedAt, s)
    THEN Skip ELSE PutBack(kind, prior, now)
=============================================================================

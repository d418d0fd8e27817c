--------------------------- MODULE LockdownAlerts ---------------------------
(***************************************************************************)
(* The alert of one confirmed lockdown and its hourly reminders: the rows  *)
(* of chat_lockdown_alerts (one copy for each destination), the messages   *)
(* they stand for, the worker replicas that plan, post, refresh and close  *)
(* them, and the admins who press their buttons.  A step is one database   *)
(* statement or one Telegram call.  Modules Lockdown and LockdownJoiners   *)
(* have the lockdown's row and its joiners.                                *)
(***************************************************************************)
EXTENDS Naturals

CONSTANTS
    Workers,         \* lockdown workers, one per replica
    Admins,          \* people who press the buttons of a copy
    Dests,           \* destinations: the Staff Group, the log channel
    MaxSeq,          \* bound: reminder periods that pass
    MaxAttempts,     \* lockdownMaxAttempts: failed calls before one is final
    MaxFaults,       \* bound: crashes, failed calls and writes, links changed,
                     \* messages deleted, in all
    Hazards          \* what the instance may meet beyond that, see below

ASSUME DestsAssumption == Dests \subseteq {"staff", "log"}

(***************************************************************************)
(*  revoke in post   a revoke is recorded while a copy whose keyboard was  *)
(*                   built before it is on its way                         *)
(***************************************************************************)
ASSUME HazardsAssumption == Hazards \subseteq {"revoke in post"}

ASSUME BoundsAssumption ==
    /\ MaxSeq \in Nat
    /\ MaxAttempts \in Nat \ {0}
    /\ MaxFaults \in Nat

VARIABLES
    ld,              \* the lockdown row: active, alert decided, link revoked
    hour,            \* whole reminder periods since the alert was decided
    linked,          \* the destinations that would get a copy now
    copies,          \* copies[s]: the row of slot s
    shown,           \* shown[s]: the message row s names, as it reads now
    posts,           \* posts[s]: messages Telegram has of slot s
    actor,           \* actor[a]: where worker or admin a is, and what it read
    faults           \* faults the environment has spent

vars == <<ld, hour, linked, copies, shown, posts, actor, faults>>

\* The unique key of a copy in its lockdown: its sequence number, 0 for the alert
\* and n for the n-th reminder, and its destination.
Slots == (0..MaxSeq) \X Dests

NoSlot == <<0, "none">>

seq(s) == s[1]
dest(s) == s[2]

IsReminder(s) == seq(s) > 0

Actors == Workers \cup Admins

CopyStates == {"none", "pending", "posting", "posted", "failed"}

\* claim: claimed_at, stale once it is two minutes old.  closed: closed_at, with
\* what its detail says: edited, the message gone, or the attempts used up.
CopyRow == [state : CopyStates, claim : {"none", "held", "stale"}, attempts : Nat,
            edit_pending : BOOLEAN, buttons_live : BOOLEAN,
            closed : {"no", "edited", "gone", "failed"}]

NoCopy == [state |-> "none", claim |-> "none", attempts |-> 0,
           edit_pending |-> FALSE, buttons_live |-> TRUE, closed |-> "no"]

\* A message: its keyboard, its Revoke button, the lifted footer.  kept: the bot
\* gave up the refresh it was due.
Message == [there : BOOLEAN, buttons : BOOLEAN, revoke : BOOLEAN,
            lifted : BOOLEAN, kept : BOOLEAN]

NoMessage == [there |-> FALSE, buttons |-> FALSE, revoke |-> FALSE,
              lifted |-> FALSE, kept |-> FALSE]

\* lockdownAlertKeyboard and lockdownCopyText: what a copy shows while the
\* lockdown is active (its link is one the bot can revoke), and once it is not.
ActiveText(buttons, revoked) ==
    [there |-> TRUE, buttons |-> buttons, revoke |-> buttons /\ ~revoked,
     lifted |-> FALSE, kept |-> FALSE]

LiftedText == [there |-> TRUE, buttons |-> FALSE, revoke |-> FALSE,
               lifted |-> TRUE, kept |-> FALSE]

Pcs == {"idle", "begin", "insert",
        "claim_post", "post_reads", "post_routes", "send", "post_records", "supersede",
        "sync_looks", "sync_reads", "sync_edits", "sync_records",
        "close_looks", "close_edits", "close_records",
        "revoke", "record_revoke"}

Outcomes == {"done", "retry", "failed", "fatal", "gone"}

\* on: the slot in hand; attempts, buttons: of its row, as last read; revoked: the
\* lockdown's, as last read; dests, due: the plan; res: how the call ended.
Idle == [pc |-> "idle", on |-> NoSlot, attempts |-> 0, buttons |-> FALSE,
         revoked |-> FALSE, dests |-> {}, due |-> 0, res |-> "done"]

Open(s) == copies[s].state = "posted" /\ copies[s].closed = "no"

ReminderSeq == IF ld.decided THEN hour ELSE 0

-----------------------------------------------------------------------------
\* The environment's budget, and where an actor goes.

Fault == faults < MaxFaults /\ faults' = faults + 1

NoFault == faults' = faults

At(a, pc) == actor[a].pc = pc

Goes(a, pc) == actor' = [actor EXCEPT ![a].pc = pc]

Rests(a) == actor' = [actor EXCEPT ![a] = Idle]

\* The outcome of a call, for the write that records it.
Ends(a, pc, res) == actor' = [actor EXCEPT ![a].pc = pc, ![a].res = res]

\* A write that fails is logged and leaves the row as it is.
WriteFails(a) == Fault /\ Rests(a) /\ UNCHANGED copies

-----------------------------------------------------------------------------
\* The repository: each operator is one statement on chat_lockdown_alerts.

Update(s, guard, row) == copies' = [copies EXCEPT ![s] = IF guard THEN row ELSE @]

Posting(s) == copies[s].state = "posting"

\* Mutation: a claim does not ask that the copy is pending still.
NotPosted(s) == copies[s].state \in {"pending", "posting"}

MayClaimSlot(s) == copies[s].state = "pending"

ClaimAlertSlot(s) == [copies[s] EXCEPT !.state = "posting", !.claim = "held"]

RecordAlertPosted(s) ==
    Update(s, Posting(s),
           [copies[s] EXCEPT !.state = "posted", !.claim = "none", !.attempts = 0])

ReleaseAlertSlot(s, count) ==
    LET failed == copies[s].attempts + (IF count THEN 1 ELSE 0)
    IN Update(s, Posting(s), [copies[s] EXCEPT !.state = "pending", !.claim = "none",
                                               !.attempts = failed])

\* Mutation: a state the table's check constraint does not know.
FailMisnamed(s) ==
    LET failed == copies[s].attempts + 1
    IN Update(s, Posting(s), [copies[s] EXCEPT !.state = "dropped", !.claim = "none",
                                               !.attempts = failed])

FailAlertSlot(s) ==
    LET failed == copies[s].attempts + 1
    IN Update(s, Posting(s), [copies[s] EXCEPT !.state = "failed", !.claim = "none",
                                               !.attempts = failed])

MayClaimSync(s) == Open(s) /\ copies[s].edit_pending /\ copies[s].claim = "none"

ClaimAlertSync(s) == [copies[s] EXCEPT !.claim = "held"]

\* Mutation: the mark is cleared whatever became of the buttons meanwhile.
ClearMark(s, buttons) ==
    Update(s, Open(s), [copies[s] EXCEPT !.claim = "none", !.attempts = 0, !.edit_pending = FALSE])

\* Mutation: the branches of the condition are swapped.
KeepMark(s, buttons) ==
    LET still == copies[s].edit_pending /\ copies[s].buttons_live = buttons
    IN Update(s, Open(s), [copies[s] EXCEPT !.claim = "none", !.attempts = 0,
                                            !.edit_pending = still])

RecordAlertSynced(s, buttons) ==
    LET still == copies[s].edit_pending /\ copies[s].buttons_live # buttons
    IN Update(s, Open(s), [copies[s] EXCEPT !.claim = "none", !.attempts = 0,
                                            !.edit_pending = still])

\* Mutation: the claim of a refresh is overlooked.
StillOpen(s) == Open(s)

MayClaimClose(s) == Open(s) /\ copies[s].claim = "none"

ClaimAlertClose(s) ==
    LET failed == IF copies[s].edit_pending THEN 0 ELSE copies[s].attempts
    IN [copies[s] EXCEPT !.claim = "held", !.edit_pending = FALSE, !.attempts = failed]

RecordAlertClosed(s, how) ==
    Update(s, copies[s].closed = "no",
           [copies[s] EXCEPT !.closed = how, !.claim = "none",
                             !.buttons_live = FALSE, !.edit_pending = FALSE])

ReleaseAlertClose(s, count) ==
    LET failed == copies[s].attempts + (IF count THEN 1 ELSE 0)
    IN Update(s, Open(s) /\ copies[s].claim # "none",
              [copies[s] EXCEPT !.claim = "none", !.attempts = failed])

\* The older reminders of a destination.
Superseded(s, t) ==
    IsReminder(t) /\ dest(t) = dest(s) /\ seq(t) < seq(s) /\ Open(t) /\ copies[t].buttons_live

\* Mutation: the reminder that was posted loses its buttons too.
SupersedeAll(s) ==
    copies' = [t \in Slots |->
        IF Superseded(s, t) \/ (t = s /\ Open(s))
        THEN [copies[t] EXCEPT !.buttons_live = FALSE, !.edit_pending = TRUE]
        ELSE copies[t]]

SupersedeReminders(s) ==
    copies' = [t \in Slots |->
        IF Superseded(s, t)
        THEN [copies[t] EXCEPT !.buttons_live = FALSE, !.edit_pending = TRUE]
        ELSE copies[t]]

\* Mutations: claims of posted copies, or of copies being posted, are not given back.
ReleasedIfPosting(row) ==
    IF row.claim = "stale" /\ row.state = "posting"
    THEN [row EXCEPT !.state = "pending", !.claim = "none"] ELSE row

Released(row) ==
    CASE row.claim = "stale" /\ row.state = "posting" ->
            [row EXCEPT !.state = "pending", !.claim = "none"]
      [] row.claim = "stale" /\ row.state = "posted" /\ row.closed = "no" ->
            [row EXCEPT !.claim = "none"]
      [] OTHER -> row

ReleaseStaleAlertClaims(w) ==
    /\ At(w, "idle") /\ \E s \in Slots : copies[s].claim = "stale"
    /\ copies' = [s \in Slots |-> Released(copies[s])]
    /\ UNCHANGED <<ld, hour, linked, shown, posts, actor, faults>>

-----------------------------------------------------------------------------
\* A worker plans.  The alert is decided with the destinations read before, and a
\* reminder goes to those of them the alert was planned for.

Planned(a, ss) ==
    copies' = [s \in Slots |-> IF s \in ss /\ copies[s] = NoCopy
                               THEN [NoCopy EXCEPT !.state = "pending"] ELSE copies[s]]

PlanAlerts(w) ==
    /\ At(w, "idle") /\ ld.active /\ ~ld.decided
    /\ actor' = [actor EXCEPT ![w].pc = "begin", ![w].dests = linked]
    /\ UNCHANGED <<ld, hour, linked, copies, shown, posts, faults>>

BeginAlert(w) ==
    /\ At(w, "begin")
    /\ \/ /\ ld.active /\ ~ld.decided /\ NoFault
          /\ ld' = [ld EXCEPT !.decided = TRUE]
          /\ Planned(w, {0} \X actor[w].dests)
       \/ (~ld.active \/ ld.decided) /\ NoFault /\ UNCHANGED <<ld, copies>>
       \/ Fault /\ UNCHANGED <<ld, copies>>
    /\ Rests(w)
    /\ UNCHANGED <<hour, linked, shown, posts>>

\* The destinations the alert was planned for, in any state.
AlertDestKinds == {d \in Dests : copies[<<0, d>>].state # "none"}

ReminderPlanned(n) == \E d \in Dests : copies[<<n, d>>].state # "none"

PlanReminders(w) ==
    /\ At(w, "idle") /\ ld.active /\ ReminderSeq > 0 /\ ~ReminderPlanned(ReminderSeq)
    /\ linked \cap AlertDestKinds # {}
    /\ actor' = [actor EXCEPT ![w].pc = "insert", ![w].dests = linked \cap AlertDestKinds,
                              ![w].due = ReminderSeq]
    /\ UNCHANGED <<ld, hour, linked, copies, shown, posts, faults>>

\* ON CONFLICT DO NOTHING: the first to plan a slot makes its row.
PlanReminderSlots(w) ==
    /\ At(w, "insert")
    /\ \/ ld.active /\ NoFault /\ Planned(w, {actor[w].due} \X actor[w].dests)
       \/ ~ld.active /\ NoFault /\ UNCHANGED copies
       \/ Fault /\ UNCHANGED copies
    /\ Rests(w)
    /\ UNCHANGED <<ld, hour, linked, shown, posts>>

-----------------------------------------------------------------------------
\* A worker posts a copy.  Of the list only the attempts are used after the claim,
\* so a list of several rows is several lists of one.

Lists(w, s, pc) ==
    actor' = [actor EXCEPT ![w].pc = pc, ![w].on = s, ![w].attempts = copies[s].attempts]

ListPending(w, s) ==
    /\ At(w, "idle") /\ ld.active /\ copies[s].state = "pending"
    /\ Lists(w, s, "claim_post")
    /\ UNCHANGED <<ld, hour, linked, copies, shown, posts, faults>>

\* A claim that is won; one that is lost, or not written, leaves the copy.
Claims(a, s, may, row, pc) ==
    /\ may /\ copies' = [copies EXCEPT ![s] = row]
    /\ actor' = [actor EXCEPT ![a].pc = pc, ![a].on = s]
    /\ UNCHANGED <<ld, hour, linked, shown, posts, faults>>

PostClaims(w) ==
    LET s == actor[w].on
    IN At(w, "claim_post") /\ Claims(w, s, MayClaimSlot(s), ClaimAlertSlot(s), "post_reads")

PostClaimLost(w) ==
    /\ At(w, "claim_post") /\ ~MayClaimSlot(actor[w].on)
    /\ Rests(w)
    /\ UNCHANGED <<ld, hour, linked, copies, shown, posts, faults>>

\* Nothing is posted for a lockdown that ended, nor a reminder whose hour is over.
PostReads(w) ==
    /\ At(w, "post_reads")
    /\ LET s == actor[w].on
           late == IsReminder(s) /\ seq(s) < ReminderSeq
       IN \/ ~ld.active /\ NoFault /\ Ends(w, "post_records", "retry")
          \/ Fault /\ Ends(w, "post_records", "retry")
          \/ ld.active /\ late /\ NoFault /\ Ends(w, "post_records", "fatal")
          \/ /\ ld.active /\ ~late /\ NoFault
             /\ actor' = [actor EXCEPT ![w].pc = "post_routes", ![w].revoked = ld.revoked]
    /\ UNCHANGED <<ld, hour, linked, copies, shown, posts>>

\* The destination once more, right before the send: a log channel that takes no
\* more costs an attempt, a Staff Group that is another ends the copy; a link that
\* cannot be read costs nothing.
PostRoutes(w) ==
    /\ At(w, "post_routes")
    /\ LET d == dest(actor[w].on)
       IN \/ d \in linked /\ NoFault /\ Goes(w, "send")
          \/ d \notin linked /\ NoFault
                /\ Ends(w, "post_records", IF d = "log" THEN "failed" ELSE "fatal")
          \/ Fault /\ Ends(w, "post_records", IF d = "log" THEN "failed" ELSE "retry")
    /\ UNCHANGED <<ld, hour, linked, copies, shown, posts>>

\* An answer that is lost looks like a failure, and the copy is there.
Send(w) ==
    /\ At(w, "send")
    /\ \/ posts' = [posts EXCEPT ![actor[w].on] = @ + 1] /\ NoFault /\ Ends(w, "post_records", "done")
       \/ posts' = [posts EXCEPT ![actor[w].on] = @ + 1] /\ Fault /\ Ends(w, "post_records", "failed")
       \/ \E res \in {"retry", "failed"} : Fault /\ Ends(w, "post_records", res) /\ UNCHANGED posts
    /\ UNCHANGED <<ld, hour, linked, copies, shown>>

LastAttempt(a) == actor[a].attempts + 1 >= MaxAttempts

\* The message the row names from now on, with the keyboard it was sent with.
PostRecords(w) ==
    /\ At(w, "post_records")
    /\ LET s == actor[w].on
           res == actor[w].res
       IN \/ /\ res = "done" /\ NoFault /\ RecordAlertPosted(s)
             /\ shown' = [shown EXCEPT ![s] = IF Posting(s) THEN ActiveText(TRUE, actor[w].revoked) ELSE @]
             /\ IF IsReminder(s) THEN Goes(w, "supersede") ELSE Rests(w)
          \/ /\ res = "fatal" \/ (res = "failed" /\ LastAttempt(w))
             /\ NoFault /\ FailAlertSlot(s) /\ Rests(w) /\ UNCHANGED shown
          \/ /\ res = "retry" \/ (res = "failed" /\ ~LastAttempt(w))
             /\ NoFault /\ ReleaseAlertSlot(s, res = "failed") /\ Rests(w) /\ UNCHANGED shown
          \/ WriteFails(w) /\ UNCHANGED shown
    /\ UNCHANGED <<ld, hour, linked, posts>>

\* Only the newest reminder and the alert keep their buttons.
Supersede(w) ==
    /\ At(w, "supersede")
    /\ \/ SupersedeReminders(actor[w].on) /\ Rests(w) /\ NoFault
       \/ WriteFails(w)
    /\ UNCHANGED <<ld, hour, linked, shown, posts>>

-----------------------------------------------------------------------------
\* A worker refreshes a copy that is marked.

\* An edit.  One whose answer is lost looks like a failure; a message that is gone
\* cannot be edited.
Edits(a, text, pc) ==
    LET s == actor[a].on
    IN /\ \/ shown[s].there /\ shown' = [shown EXCEPT ![s] = text] /\ NoFault /\ Ends(a, pc, "done")
          \/ ~shown[s].there /\ UNCHANGED shown /\ NoFault /\ Ends(a, pc, "gone")
          \/ shown[s].there /\ shown' = [shown EXCEPT ![s] = text] /\ Fault /\ Ends(a, pc, "failed")
          \/ UNCHANGED shown /\ Fault /\ \E res \in {"retry", "failed"} : Ends(a, pc, res)
       /\ UNCHANGED <<ld, hour, linked, copies, posts>>

\* The list and the claim, whose conditions cover the list's: nothing of the list is
\* used after it.
SyncClaims(w, s) ==
    /\ At(w, "idle") /\ ld.active
    /\ Claims(w, s, MayClaimSync(s), ClaimAlertSync(s), "sync_looks")

\* The claimed row is read again: it may have lost its buttons since the list.
Looks(a, pc) ==
    LET row == copies[actor[a].on]
    IN actor' = [actor EXCEPT ![a].pc = pc, ![a].attempts = row.attempts,
                              ![a].buttons = row.buttons_live]

SyncLooks(w) ==
    /\ At(w, "sync_looks")
    /\ \/ Looks(w, "sync_reads") /\ NoFault
       \/ Ends(w, "sync_records", "retry") /\ Fault
    /\ UNCHANGED <<ld, hour, linked, copies, shown, posts>>

\* A lockdown that ended is left to the close.
SyncReads(w) ==
    /\ At(w, "sync_reads")
    /\ \/ /\ ld.active /\ NoFault
          /\ actor' = [actor EXCEPT ![w].pc = "sync_edits", ![w].revoked = ld.revoked]
       \/ ~ld.active /\ NoFault /\ Ends(w, "sync_records", "retry")
       \/ Fault /\ Ends(w, "sync_records", "retry")
    /\ UNCHANGED <<ld, hour, linked, copies, shown, posts>>

SyncEdits(w) ==
    At(w, "sync_edits") /\ Edits(w, ActiveText(actor[w].buttons, actor[w].revoked), "sync_records")

\* The third failure gives the refresh up: the copy keeps its old text.
SyncRecords(w) ==
    /\ At(w, "sync_records")
    /\ LET s == actor[w].on
           res == actor[w].res
       IN \/ res = "done" /\ NoFault /\ RecordAlertSynced(s, actor[w].buttons) /\ UNCHANGED shown
          \/ res = "gone" /\ NoFault /\ RecordAlertClosed(s, "gone") /\ UNCHANGED shown
          \/ /\ res = "failed" /\ LastAttempt(w) /\ NoFault
             /\ RecordAlertSynced(s, actor[w].buttons)
             /\ shown' = [shown EXCEPT ![s].kept = TRUE]
          \/ /\ res = "retry" \/ (res = "failed" /\ ~LastAttempt(w))
             /\ NoFault /\ ReleaseAlertClose(s, res = "failed") /\ UNCHANGED shown
          \/ Fault /\ UNCHANGED <<copies, shown>>
    /\ Rests(w)
    /\ UNCHANGED <<ld, hour, linked, posts>>

-----------------------------------------------------------------------------
\* A copy of a lockdown that ended is closed, by a worker or by the press of one of
\* its buttons.

CloseClaims(w, s) ==
    /\ At(w, "idle") /\ ~ld.active
    /\ Claims(w, s, MayClaimClose(s), ClaimAlertClose(s), "close_looks")

\* lockdownCloseSlotNow: a press on a copy that has its buttons still; one on a
\* confirm card closes none.
PressStale(a, s) ==
    /\ At(a, "idle") /\ ~ld.active /\ shown[s].buttons
    /\ Claims(a, s, MayClaimClose(s), ClaimAlertClose(s), "close_looks")

\* The row again, and for a worker the lockdown, which does not come back to life.
CloseLooks(a) ==
    /\ At(a, "close_looks")
    /\ \/ Looks(a, "close_edits") /\ NoFault
       \/ Ends(a, "close_records", "retry") /\ Fault
    /\ UNCHANGED <<ld, hour, linked, copies, shown, posts>>

CloseEdits(a) == At(a, "close_edits") /\ Edits(a, LiftedText, "close_records")

CloseRecords(a) ==
    /\ At(a, "close_records")
    /\ LET s == actor[a].on
           res == actor[a].res
       IN \/ res = "done" /\ NoFault /\ RecordAlertClosed(s, "edited")
          \/ res = "gone" /\ NoFault /\ RecordAlertClosed(s, "gone")
          \/ res = "failed" /\ LastAttempt(a) /\ NoFault /\ RecordAlertClosed(s, "failed")
          \/ /\ res = "retry" \/ (res = "failed" /\ ~LastAttempt(a))
             /\ NoFault /\ ReleaseAlertClose(s, res = "failed")
          \/ Fault /\ UNCHANGED copies
    /\ Rests(a)
    /\ UNCHANGED <<ld, hour, linked, shown, posts>>

-----------------------------------------------------------------------------
\* The Revoke button.

\* The lockdown is read and the presser's rights are.
RevokeConfirm(a) ==
    /\ At(a, "idle") /\ ld.active /\ ~ld.revoked
    /\ \E s \in Slots : copies[s].state = "posted"
    /\ Goes(a, "revoke")
    /\ UNCHANGED <<ld, hour, linked, copies, shown, posts, faults>>

\* A refusal, a failure and an answer that is lost record nothing.
Revoke(a) ==
    /\ At(a, "revoke")
    /\ Goes(a, "record_revoke") \/ Rests(a)
    /\ UNCHANGED <<ld, hour, linked, copies, shown, posts, faults>>

\* The revoke, and the mark on every posted copy that has its buttons.
Revoked ==
    /\ ld' = [ld EXCEPT !.revoked = TRUE]
    /\ copies' = [s \in Slots |-> IF Open(s) /\ copies[s].buttons_live
                                  THEN [copies[s] EXCEPT !.edit_pending = TRUE] ELSE copies[s]]

\* A copy is on its way with the keyboard of a link that was not revoked yet.
BeingPosted ==
    \E w \in Workers : actor[w].pc \in {"post_routes", "send", "post_records"} /\ ~actor[w].revoked

RecordLinkRevoked(a) ==
    /\ At(a, "record_revoke")
    /\ \/ /\ ~ld.revoked /\ NoFault /\ Revoked
          /\ ~BeingPosted \/ "revoke in post" \in Hazards
       \/ ld.revoked /\ NoFault /\ UNCHANGED <<ld, copies>>
       \/ Fault /\ UNCHANGED <<ld, copies>>
    /\ Rests(a)
    /\ UNCHANGED <<hour, linked, shown, posts>>

-----------------------------------------------------------------------------
\* The environment.

\* An admin unlinks the group, links it again, or changes the log channel's categories.
ChangesLink(d) ==
    /\ Fault
    /\ linked' = IF d \in linked THEN linked \ {d} ELSE linked \cup {d}
    /\ UNCHANGED <<ld, hour, copies, shown, posts, actor>>

\* Somebody deletes the message of a copy.
DeletesMessage(s) ==
    /\ shown[s].there /\ Fault
    /\ shown' = [shown EXCEPT ![s] = NoMessage]
    /\ UNCHANGED <<ld, hour, linked, copies, posts, actor>>

HourPasses ==
    /\ ld.active /\ ld.decided /\ hour < MaxSeq /\ hour' = hour + 1
    /\ UNCHANGED <<ld, linked, copies, shown, posts, actor, faults>>

LiftBegins ==
    /\ ld.active /\ ld' = [ld EXCEPT !.active = FALSE]
    /\ UNCHANGED <<hour, linked, copies, shown, posts, actor, faults>>

\* A worker, or the handler of a press, stops where it is.
Stops(a) ==
    /\ ~At(a, "idle") /\ Fault /\ Rests(a)
    /\ UNCHANGED <<ld, hour, linked, copies, shown, posts>>

\* The copy a claim is held on.
Holds(a, s) ==
    /\ actor[a].on = s
    /\ actor[a].pc \notin {"idle", "claim_post", "supersede"}

\* A claim grows old once nobody works on it any more.
ClaimExpires(s) ==
    /\ copies[s].claim = "held" /\ \A a \in Actors : ~Holds(a, s)
    /\ copies' = [copies EXCEPT ![s].claim = "stale"]
    /\ UNCHANGED <<ld, hour, linked, shown, posts, actor, faults>>

-----------------------------------------------------------------------------
Init ==
    /\ ld = [active |-> TRUE, decided |-> FALSE, revoked |-> FALSE]
    /\ hour = 0
    /\ linked \in SUBSET Dests
    /\ copies = [s \in Slots |-> NoCopy]
    /\ shown = [s \in Slots |-> NoMessage]
    /\ posts = [s \in Slots |-> 0]
    /\ actor = [a \in Actors |-> Idle]
    /\ faults = 0

Plans(w) == PlanAlerts(w) \/ BeginAlert(w) \/ PlanReminders(w) \/ PlanReminderSlots(w)

PostsCopy(w) ==
    \/ \E s \in Slots : ListPending(w, s)
    \/ PostClaims(w) \/ PostClaimLost(w) \/ PostReads(w) \/ PostRoutes(w) \/ Send(w) \/ PostRecords(w) \/ Supersede(w)

SyncsCopy(w) ==
    \/ \E s \in Slots : SyncClaims(w, s)
    \/ SyncLooks(w) \/ SyncReads(w) \/ SyncEdits(w) \/ SyncRecords(w)

ClosesCopy(a) == CloseLooks(a) \/ CloseEdits(a) \/ CloseRecords(a)

WorkerStep(w) ==
    \/ ReleaseStaleAlertClaims(w) \/ Plans(w) \/ PostsCopy(w) \/ SyncsCopy(w)
    \/ (\E s \in Slots : CloseClaims(w, s)) \/ ClosesCopy(w)

\* A press is answered to its end.
AdminStep(a) == ClosesCopy(a) \/ Revoke(a) \/ RecordLinkRevoked(a)

Presses(a) == RevokeConfirm(a) \/ \E s \in Slots : PressStale(a, s)

Next ==
    \/ \E w \in Workers : WorkerStep(w)
    \/ \E a \in Admins : AdminStep(a) \/ Presses(a)
    \/ \E a \in Actors : Stops(a)
    \/ \E d \in Dests : ChangesLink(d)
    \/ \E s \in Slots : DeletesMessage(s) \/ ClaimExpires(s)
    \/ HourPasses \/ LiftBegins

\* Workers run, a press that came is handled, and claims grow old; nobody has to
\* press, to lift or to link.
Fairness ==
    /\ \A w \in Workers : WF_vars(WorkerStep(w))
    /\ \A a \in Admins : WF_vars(AdminStep(a))
    /\ \A s \in Slots : WF_vars(ClaimExpires(s))

Spec == Init /\ [][Next]_vars

FairSpec == Spec /\ Fairness

-----------------------------------------------------------------------------
\* Every variable keeps its shape.
TypeOK ==
    /\ ld \in [active : BOOLEAN, decided : BOOLEAN, revoked : BOOLEAN]
    /\ hour \in 0..MaxSeq
    /\ linked \subseteq Dests
    /\ copies \in [Slots -> CopyRow]
    /\ shown \in [Slots -> Message]
    /\ posts \in [Slots -> Nat]
    /\ actor \in [Actors -> [pc : Pcs, on : Slots \cup {NoSlot}, attempts : Nat, buttons : BOOLEAN,
                              revoked : BOOLEAN, dests : SUBSET Dests, due : 0..MaxSeq,
                              res : Outcomes]]
    /\ faults \in 0..MaxFaults

\* A copy is sent twice only for something that went wrong: one replica sends a
\* slot, and a message too many was paid for by a lost answer, a failed write or
\* a worker that stopped (ClaimAlertSlot, ReleaseStaleAlertClaims).
DuplicateOnlyByFault == \A s \in Slots : posts[s] <= 1 + faults

\* No edit is lost: a copy of a running lockdown that nobody is to edit any more
\* reads as its row says, with its buttons or without, and offers no link that was
\* revoked; but for one whose refresh the bot gave up (RecordAlertSynced).
NoEditIsLost ==
    \A s \in Slots :
        ld.active /\ Open(s) /\ shown[s].there /\ ~shown[s].kept
            /\ ~copies[s].edit_pending /\ copies[s].claim = "none"
        => /\ shown[s].buttons = copies[s].buttons_live
           /\ ld.revoked => ~shown[s].revoke

\* A copy closed by an edit says that the lockdown was lifted and has no button
\* any more: no refresh that was on its way puts one back (ClaimAlertClose,
\* ClaimAlertSync).
ClosedReadsLifted ==
    \A s \in Slots :
        copies[s].closed = "edited" /\ shown[s].there => shown[s].lifted /\ ~shown[s].buttons

\* Of the reminders that stand in a destination the newest has its buttons
\* (SupersedeReminders takes only the older ones').
NewestKeepsButtons ==
    \A s \in Slots :
        /\ ld.active /\ IsReminder(s) /\ Open(s)
        /\ \A t \in Slots : dest(t) = dest(s) /\ copies[t].state = "posted" => seq(t) <= seq(s)
        => copies[s].buttons_live

\* Whatever stopped in between, no copy of an ended lockdown stays open: every one
\* that was posted is closed in the end (lockdownCloseAlerts).
AlertsClosed ==
    <>[](~ld.active => \A s \in Slots : copies[s].state # "posting" /\ ~Open(s))

\* A mark is worked off, or the lockdown ends (lockdownSyncAlertCopies).
MarksAreWorkedOff ==
    \A s \in Slots : copies[s].edit_pending ~> ~copies[s].edit_pending

=============================================================================

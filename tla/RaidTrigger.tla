---------------------------- MODULE RaidTrigger ----------------------------
(***************************************************************************)
(* What a raid trigger does once it fires in one group: raidFire on any    *)
(* replica (Handlers), behind the shared latch, the active lockdown and    *)
(* the quiet time after a lift; the start of the lockdown; the notice; and *)
(* the once-a-day warning when the bot cannot lock the group.  Whether the *)
(* counters fire is module RaidCounters; the permissions a start sets and  *)
(* a lift restores are module Lockdown.  A step is one Redis command, one  *)
(* database statement or one Telegram call; a handler may stop anywhere.   *)
(*                                                                         *)
(* The latch only sheds load, so its length is left open: it may run out   *)
(* at any time, before the attempt that took it ends too, and raidSetLatch *)
(* (which only changes the length) is no step.                             *)
(***************************************************************************)
EXTENDS Naturals

CONSTANTS
    Handlers,    \* updates and AI verdicts in raidFire, on all replicas
    Dests,       \* where a warning can go: the Staff Group, the log channel
    MaxRows,     \* bound: lockdowns the group ever has (removed rows not counted)
    MaxChanges,  \* bound: how often what the bot can do in the group changes
    MaxFaults,   \* bound: crashes, failed calls, failed reads and writes in all
    Hazards      \* timings a run admits: "quick lift"

ASSUME RaidTriggerAssumption ==
    /\ MaxRows \in Nat /\ MaxChanges \in Nat /\ MaxFaults \in Nat

VARIABLES
    rows,        \* the group's lockdowns, by ID
    quiet,       \* a lift of the group started less than raidLiftQuiet ago
    latch,       \* the fire latch is held
    attempt,     \* attempt[h]: where raidFire is in handler h
    gate,        \* the once-a-day warning gate is held
    heard,       \* warnings known to have reached somebody while the gate lasts
    dests,       \* the destinations the group has
    group,       \* what the bot can do in the group
    changes,     \* how often that has changed
    raid,        \* joins, messages or verdicts qualify
    faults       \* faults the environment has spent

vars == <<rows, quiet, latch, attempt, gate, heard, dests, group, changes, raid, faults>>

Rows == 1..MaxRows

\* "norights": the bot may not restrict members.  "refusing": Telegram refuses
\* the lock.  A group that is no supergroup has no counters, so nothing fires.
Groups == {"lockable", "norights", "refusing"}

AttemptPcs == {"idle", "active", "lifted", "check", "insert", "reread",
               "lock", "remove", "confirm", "notice", "resolve", "gate", "send"}

NoRow == [state |-> "none", by |-> "admin", locked |-> FALSE, notices |-> 0]

RaidRow == [state : {"none", "unconfirmed", "confirmed", "ended"},
            by : {"bot", "admin"}, locked : BOOLEAN, notices : Nat]

Idle == [pc |-> "idle", rid |-> 0, to |-> {}, got |-> FALSE]

Attempt == [pc : AttemptPcs, rid : 0..MaxRows, to : SUBSET Dests, got : BOOLEAN]

-----------------------------------------------------------------------------
\* The repository, as module Lockdown has it.

ActiveRows == {r \in Rows : rows[r].state \in {"unconfirmed", "confirmed"}}

FirstFree(r) == rows[r].state = "none" /\ \A q \in 1..(r - 1) : rows[q].state # "none"

\* The insert behind the one-active-lockdown index, with the bot as the starter.
StartRow(r) ==
    /\ ActiveRows = {} /\ FirstFree(r)
    /\ rows' = [rows EXCEPT ![r] = [NoRow EXCEPT !.state = "unconfirmed", !.by = "bot"]]

\* Mutation: a state the table's check constraint does not know.
ConfirmMisnamed(r) ==
    rows' = IF rows[r].state = "unconfirmed" THEN [rows EXCEPT ![r].state = "locked"] ELSE rows

ConfirmLocked(r) ==
    rows' = IF rows[r].state = "unconfirmed" THEN [rows EXCEPT ![r].state = "confirmed"] ELSE rows

DeleteUnconfirmed(r) ==
    rows' = IF rows[r].state = "unconfirmed" THEN [rows EXCEPT ![r] = NoRow] ELSE rows

-----------------------------------------------------------------------------
Fault == faults < MaxFaults /\ faults' = faults + 1

NoFault == faults' = faults

At(h, pc) == attempt[h].pc = pc

GoTo(h, pc) == attempt' = [attempt EXCEPT ![h].pc = pc]

Ends(h) == attempt' = [attempt EXCEPT ![h] = Idle]

\* Mutation: the recent lifts are read before the active lockdown.
ReadsSwapped == <<"lifted", "active">>

\* What raidFire reads before it starts anything, in this order.
Reads == <<"active", "lifted">>

\* After the reads the accounts behind the trigger are copied for the alert, best
\* effort (not modelled); the start follows whatever became of that.
AfterRead(pc) == IF pc = Reads[1] THEN Reads[2] ELSE "check"

-----------------------------------------------------------------------------
\* raidFire: the latch and the two reads.

\* A qualifying join, message or verdict takes the latch; one that does not get
\* it, or cannot reach Redis, does nothing.
Fire(h) ==
    /\ At(h, "idle") /\ raid /\ ~latch
    /\ latch' = TRUE
    /\ \/ GoTo(h, Reads[1]) /\ NoFault
       \/ Fault /\ UNCHANGED attempt
    /\ UNCHANGED <<rows, quiet, gate, heard, dests, group, changes, raid>>

\* GetActiveFresh: a lockdown, confirmed or not, already answers the raid.
ReadActive(h) ==
    /\ At(h, "active")
    /\ \/ ActiveRows = {} /\ GoTo(h, AfterRead("active")) /\ NoFault
       \/ ActiveRows # {} /\ Ends(h) /\ NoFault
       \/ Fault /\ Ends(h)
    /\ UNCHANGED <<rows, quiet, latch, gate, heard, dests, group, changes, raid>>

\* RecentlyLiftedFresh: the raid an admin ended is not a new one.
ReadLifted(h) ==
    /\ At(h, "lifted")
    /\ \/ ~quiet /\ GoTo(h, AfterRead("lifted")) /\ NoFault
       \/ quiet /\ Ends(h) /\ NoFault
       \/ Fault /\ Ends(h)
    /\ UNCHANGED <<rows, latch, quiet, gate, heard, dests, group, changes, raid>>

-----------------------------------------------------------------------------
\* startLockdownRow, and what raidFire makes of its outcome.

\* The bot's own rights and getChat.  An unknown answer fails closed.
CheckBot(h) ==
    /\ At(h, "check")
    /\ \/ group = "norights" /\ GoTo(h, "resolve") /\ NoFault
       \/ group # "norights" /\ GoTo(h, "insert") /\ NoFault
       \/ Fault /\ Ends(h)
    /\ UNCHANGED <<rows, quiet, latch, gate, heard, dests, group, changes, raid>>

\* The insert; of two callers one starts.  A write whose answer is lost may have
\* left the row.  (It also ends here when the instance's rows are used up.)
InsertRow(h) ==
    /\ At(h, "insert")
    /\ \/ \E r \in Rows :
            /\ StartRow(r)
            /\ \/ attempt' = [attempt EXCEPT ![h].pc = "lock", ![h].rid = r] /\ NoFault
               \/ Ends(h) /\ Fault
       \/ ActiveRows # {} /\ GoTo(h, "reread") /\ NoFault /\ UNCHANGED rows
       \/ (\A r \in Rows : rows[r].state # "none") /\ Ends(h) /\ NoFault /\ UNCHANGED rows
       \/ Fault /\ Ends(h) /\ UNCHANGED rows
    /\ UNCHANGED <<quiet, latch, gate, heard, dests, group, changes, raid>>

\* Mutation: the loser of the insert takes the active row for its own start.
RereadStarted(h) ==
    /\ At(h, "reread")
    /\ \/ \E r \in ActiveRows :
            attempt' = [attempt EXCEPT ![h].pc = "notice", ![h].rid = r]
       \/ ActiveRows = {} /\ Ends(h)
    /\ NoFault
    /\ UNCHANGED <<rows, quiet, latch, gate, heard, dests, group, changes, raid>>

\* The loser reads the row that won; whatever it finds, it posts nothing.
RereadActive(h) ==
    /\ At(h, "reread") /\ Ends(h) /\ NoFault
    /\ UNCHANGED <<rows, quiet, latch, gate, heard, dests, group, changes, raid>>

\* setChatPermissions: done, refused, or not known; then the row is kept for the
\* settle, and nothing is posted.
LockGroup(h) ==
    /\ At(h, "lock")
    /\ LET locks == rows' = [rows EXCEPT ![attempt[h].rid].locked = TRUE]
       IN \/ group = "lockable" /\ locks /\ GoTo(h, "confirm") /\ NoFault
          \/ group = "refusing" /\ UNCHANGED rows /\ GoTo(h, "remove") /\ NoFault
          \/ UNCHANGED rows /\ GoTo(h, "remove") /\ Fault
          \/ Fault /\ Ends(h) /\ (UNCHANGED rows \/ (group = "lockable" /\ locks))
    /\ UNCHANGED <<quiet, latch, gate, heard, dests, group, changes, raid>>

RemoveRefused(h) ==
    /\ At(h, "remove")
    /\ \/ DeleteUnconfirmed(attempt[h].rid) /\ NoFault
       \/ UNCHANGED rows /\ Fault
    /\ GoTo(h, "resolve")
    /\ UNCHANGED <<quiet, latch, gate, heard, dests, group, changes, raid>>

ConfirmStart(h) ==
    /\ At(h, "confirm")
    /\ \/ ConfirmLocked(attempt[h].rid) /\ NoFault
       \/ UNCHANGED rows /\ Fault
    /\ GoTo(h, "notice")
    /\ UNCHANGED <<quiet, latch, gate, heard, dests, group, changes, raid>>

\* raidPostNotice, once and best effort.
PostNotice(h) ==
    /\ At(h, "notice")
    /\ \/ rows' = [rows EXCEPT ![attempt[h].rid].notices = @ + 1] /\ NoFault
       \/ UNCHANGED rows /\ Fault
    /\ Ends(h)
    /\ UNCHANGED <<quiet, latch, gate, heard, dests, group, changes, raid>>

-----------------------------------------------------------------------------
\* raidWarnCannotLock, on a goroutine of its own.

\* With no destination nothing is recorded; a failed lookup skips its copy.
ResolveDests(h) ==
    /\ At(h, "resolve")
    /\ \E to \in SUBSET dests :
         /\ IF to = dests THEN NoFault ELSE Fault
         /\ IF to = {} THEN Ends(h)
                       ELSE attempt' = [attempt EXCEPT ![h] = [Idle EXCEPT !.pc = "gate", !.to = to]]
    /\ UNCHANGED <<rows, quiet, latch, gate, heard, dests, group, changes, raid>>

\* SET NX with a day's expiry.  A lost answer leaves the gate and warns nobody.
TakeGate(h) ==
    /\ At(h, "gate")
    /\ \/ ~gate /\ gate' = TRUE /\ GoTo(h, "send") /\ NoFault
       \/ gate /\ Ends(h) /\ UNCHANGED gate /\ NoFault
       \/ Fault /\ Ends(h) /\ gate' \in {gate, TRUE}
    /\ UNCHANGED <<rows, quiet, latch, heard, dests, group, changes, raid>>

\* One copy, the Staff Group's first: delivered, or refused or not known to be.
SendWarning(h) ==
    /\ At(h, "send")
    /\ \E d \in attempt[h].to :
         /\ "staff" \in attempt[h].to => d = "staff"
         /\ \/ /\ attempt' = [attempt EXCEPT ![h].to = @ \ {d}, ![h].got = TRUE]
               /\ heard' = IF attempt[h].got THEN heard ELSE heard + 1
               /\ NoFault
            \/ /\ attempt' = [attempt EXCEPT ![h].to = @ \ {d}]
               /\ Fault /\ UNCHANGED heard
    /\ UNCHANGED <<rows, quiet, latch, gate, dests, group, changes, raid>>

\* Mutation: the gate is given back after every warning.
KeepsGateNever(h) == FALSE

\* A warning that reached somebody keeps the gate.
KeepsGate(h) == attempt[h].got

WarningEnds(h) ==
    /\ At(h, "send") /\ attempt[h].to = {}
    /\ \/ KeepsGate(h) /\ UNCHANGED gate /\ NoFault
       \/ ~KeepsGate(h) /\ gate' = FALSE /\ NoFault
       \/ ~KeepsGate(h) /\ UNCHANGED gate /\ Fault
    /\ Ends(h)
    /\ UNCHANGED <<rows, quiet, latch, heard, dests, group, changes, raid>>

-----------------------------------------------------------------------------
\* The lockdown's other actors, as module Lockdown has them.

\* /lockdown, from its insert to its confirmation.
AdminStarts ==
    /\ group = "lockable" /\ ActiveRows = {}
    /\ \E r \in Rows :
         /\ FirstFree(r)
         /\ rows' = [rows EXCEPT ![r] = [NoRow EXCEPT !.state = "confirmed", !.locked = TRUE]]
    /\ NoFault
    /\ UNCHANGED <<quiet, latch, attempt, gate, heard, dests, group, changes, raid>>

\* An attempt past its reads saw no active lockdown, so the one lifted now was
\* started less than a start ago.
LiftsItsStart == \E h \in Handlers : attempt[h].pc \in {"check", "insert"}

\* BeginLift writes lift_started_at with the state.
AdminLifts(r) ==
    /\ r \in ActiveRows
    /\ LiftsItsStart => "quick lift" \in Hazards
    /\ rows' = [rows EXCEPT ![r].state = "ended"]
    /\ quiet' = TRUE
    /\ NoFault
    /\ UNCHANGED <<latch, attempt, gate, heard, dests, group, changes, raid>>

\* The worker settles a start nobody is in any more.
Settle(r) ==
    /\ rows[r].state = "unconfirmed"
    /\ \A h \in Handlers : attempt[h].rid = r => attempt[h].pc \notin {"lock", "remove", "confirm"}
    /\ IF rows[r].locked THEN ConfirmLocked(r) ELSE DeleteUnconfirmed(r)
    /\ NoFault
    /\ UNCHANGED <<quiet, latch, attempt, gate, heard, dests, group, changes, raid>>

-----------------------------------------------------------------------------
\* Raids, people, time and crashes.

RaidComesAndGoes ==
    /\ raid' = ~raid
    /\ NoFault
    /\ UNCHANGED <<rows, quiet, latch, attempt, gate, heard, dests, group, changes>>

\* Between attempts (a bound); during one it is a failed check or a refused lock.
GroupChanges ==
    /\ changes < MaxChanges /\ changes' = changes + 1
    /\ \A h \in Handlers : At(h, "idle")
    /\ group' \in Groups \ {group}
    /\ NoFault
    /\ UNCHANGED <<rows, quiet, latch, attempt, gate, heard, dests, raid>>

\* A Staff Group is linked, a log channel set, while raids may be going on.
DestsAdded ==
    /\ dests = {} /\ dests' = Dests
    /\ NoFault
    /\ UNCHANGED <<rows, quiet, latch, attempt, gate, heard, group, changes, raid>>

\* Mutation: the latch is taken without an expiry.
LatchStays ==
    /\ FALSE
    /\ UNCHANGED vars

LatchExpires ==
    /\ latch /\ latch' = FALSE
    /\ NoFault
    /\ UNCHANGED <<rows, quiet, attempt, gate, heard, dests, group, changes, raid>>

QuietEnds ==
    /\ quiet /\ quiet' = FALSE
    /\ NoFault
    /\ UNCHANGED <<rows, latch, attempt, gate, heard, dests, group, changes, raid>>

\* Mutation: only a warning somebody heard has an expiry on its gate.
DayPassesIfHeard ==
    /\ gate /\ heard > 0 /\ \A h \in Handlers : ~At(h, "send")
    /\ gate' = FALSE /\ heard' = 0
    /\ NoFault
    /\ UNCHANGED <<rows, quiet, latch, attempt, dests, group, changes, raid>>

\* The gate's 24 hours run out; a warning takes a minute.
DayPasses ==
    /\ gate /\ \A h \in Handlers : ~At(h, "send")
    /\ gate' = FALSE /\ heard' = 0
    /\ NoFault
    /\ UNCHANGED <<rows, quiet, latch, attempt, dests, group, changes, raid>>

Stops(h) ==
    /\ ~At(h, "idle") /\ Ends(h)
    /\ Fault
    /\ UNCHANGED <<rows, quiet, latch, gate, heard, dests, group, changes, raid>>

-----------------------------------------------------------------------------
Init ==
    /\ rows = [r \in Rows |-> NoRow]
    /\ quiet = FALSE /\ latch = FALSE
    /\ attempt = [h \in Handlers |-> Idle]
    /\ gate = FALSE /\ heard = 0
    /\ dests = {} /\ group \in Groups
    /\ raid = FALSE /\ changes = 0
    /\ faults = 0

AttemptStep(h) ==
    \/ ReadActive(h) \/ ReadLifted(h)
    \/ CheckBot(h) \/ InsertRow(h) \/ RereadActive(h) \/ LockGroup(h)
    \/ RemoveRefused(h) \/ ConfirmStart(h) \/ PostNotice(h)
    \/ ResolveDests(h) \/ TakeGate(h) \/ SendWarning(h) \/ WarningEnds(h)

Next ==
    \/ \E h \in Handlers : Fire(h) \/ AttemptStep(h) \/ Stops(h)
    \/ \E r \in Rows : AdminLifts(r) \/ Settle(r)
    \/ AdminStarts
    \/ RaidComesAndGoes \/ GroupChanges \/ DestsAdded
    \/ LatchExpires \/ QuietEnds \/ DayPasses

\* While a raid goes on accounts keep joining or posting, so somebody fires when
\* the latch is free; a handler that runs ends; expiries come; workers tick.
Fairness ==
    /\ WF_vars(\E h \in Handlers : Fire(h))
    /\ \A h \in Handlers : WF_vars(AttemptStep(h))
    /\ \A r \in Rows : WF_vars(Settle(r))
    /\ WF_vars(LatchExpires) /\ WF_vars(QuietEnds) /\ WF_vars(DayPasses)

Spec == Init /\ [][Next]_vars

FairSpec == Spec /\ Fairness

-----------------------------------------------------------------------------
\* Every variable keeps its shape, the rows' states among them.
TypeOK ==
    /\ rows \in [Rows -> RaidRow]
    /\ quiet \in BOOLEAN /\ latch \in BOOLEAN /\ gate \in BOOLEAN
    /\ attempt \in [Handlers -> Attempt]
    /\ heard \in Nat
    /\ dests \subseteq Dests /\ group \in Groups
    /\ raid \in BOOLEAN /\ changes \in 0..MaxChanges
    /\ faults \in 0..MaxFaults

\* However many triggers and replicas fire at once, and even when the latch runs
\* out under an attempt, the group is told at most once that a lockdown started,
\* and never of one an administrator started (raidFire posts for Started only).
NoticeOncePerLockdown ==
    \A r \in Rows : rows[r].notices <= IF rows[r].by = "admin" THEN 0 ELSE 1

\* Whoever fires, a group gets one warning a day: the copies of a warning count
\* as one, and only a warning that is not known to have reached anybody gives
\* the gate back (raidWarnCannotLock).
WarnOnceADay == heard <= 1

\* A trigger never starts a lockdown in the quiet time after a lift: an attempt
\* that saw no active lockdown sees the lift that ended it (raidFire reads the
\* active row before the recent lifts).
QuietAfterLift ==
    [][\A r \in Rows : rows[r].state = "none" /\ rows'[r].state = "unconfirmed" => ~quiet]_vars

Confirmed == \E r \in Rows : rows[r].state = "confirmed"

\* The bound on rows is not reached: the group may have another lockdown.
RowsLeft == \E r \in Rows : rows[r].state # "ended"

\* A raid that goes on in a group the bot can lock gets its lockdown, whatever
\* attempt failed or stopped half way: the latch it left runs out, its row is
\* settled, and the next qualifying join tries again.
RaidIsAnswered ==
    raid /\ group = "lockable" /\ ~quiet /\ RowsLeft
        ~> Confirmed \/ ~raid \/ group # "lockable" \/ quiet \/ ~RowsLeft

\* A raid that goes on in a group the bot cannot lock is heard of, once there is
\* anybody to tell: a gate taken for a warning that reached nobody is given back,
\* or runs out when its handler stopped.
StaffHearsOfRaid ==
    raid /\ group # "lockable" /\ dests # {} /\ RowsLeft
        ~> heard > 0 \/ ~raid \/ group = "lockable" \/ Confirmed \/ ~RowsLeft
=============================================================================

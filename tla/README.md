# A specification of the lockdown of Fuku Robot

Fuku Robot is a Telegram group management bot in Go. It runs as one or more
replicas over one PostgreSQL database and one Redis. This directory holds TLA+
modules of its most delicate part, what happens when a group is raided: the
counters and the trigger, the lockdown, its joiners, its alerts, the ban run; and of
the actions a Staff Group takes on one person in all its groups, with their undo. TLC
configurations check them and TLAPS proofs back them.

    tlc -config lockdown_quiet.cfg MCLockdown.tla
    tlc -config alerts_close.cfg MCLockdownAlerts.tla
    tlapm RaidTrigger_proofs.tla

`PROJECT.json` lists components, runs, mutants of the definitions, the source
lines each definition stands for, findings, hazards and theorems.

## 1. The system

| part | state it keeps | operations | what makes it correct |
|---|---|---|---|
| **lockdown lifecycle** (`lockdown.go`, `lockdown_start.go`, `lockdown_perms.go`, `db/lockdown/repository.go`) | one row of `chat_lockdowns` per lockdown; the group's default permissions at Telegram | start (snapshot, insert, lock, confirm), lift (restore, record, finish), settle an unconfirmed row | at most one running lockdown; a group is never left locked without a row that knows what to put back; a lift restores before it is recorded |
| **join guard** (`lockdown_guard.go`, `lockdown_marker.go`) | a row of `chat_lockdown_joiners` per person and lockdown | a join, a service message, a join request, a kick message | one row per join; a ban never without a record the lift can find; whoever an administrator let in stays |
| **lockdown worker** (`lockdown_worker.go`, `db/lockdown/joiners.go`) | nothing but its batch: the rows are the state | release stale claims, ban, decline, unban, finish the lift | one worker per row; a lift ends and leaves nobody banned; a ban placed by hand stays |
| **alerts and reminders** (`lockdown_alert*.go`, `db/lockdown/alerts.go`, `links.go`) | a row of `chat_lockdown_alerts` per alert or reminder and destination | plan, claim, post, refresh, close; buttons | a copy posted once; no edit lost; no live button after the end; every copy worked off |
| **ban run** (`lockdown_response.go`, `lockdown_recent.go`, `db/lockdown/burst.go`) | a run, a burst row per account | queue, claim, ban for good, report | a joiner row borrowed from the lockdown is put back; its ban stays after the lift; a run ends and is reported |
| **raid trigger** (`raid_trigger.go`, `db/lockdown/cooldown.go`) | the fire latch and the daily gate in Redis | fire, start, announce, warn | a raid that goes on is answered; no start within the quiet time after a lift; one notice, one warning a day |
| **raid counters** (`raid_counters.go`, `raid_join.go`, `raid_flood.go`) | sorted sets in Redis | count joins, count flood items | the trimmed sets count what the window holds |
| AI burst (`raid_ai*.go`) | a breaker in memory, a set of verdicts | ask, count | a window over several accounts |
| **staff actions** (`staff_action*.go`, `db/staff/actions.go`) | cards and target locks in Redis, an audit record with a row per group | post, confirm, run over the groups, close the record | runs on one person do not work on what another one changes; the record says what happened |
| **undo** (`staff_undo.go`, `staff_action_decide.go`) | the undo columns of the record | ask, confirm, claim, put back, give the claim back | what the action replaced is back and nobody's later decision is lost; one undo per action |
| staff links, history (`staff*.go`, `db/staff`) | links | link, recheck, sweep, list | a link both chats confirmed |
| captcha, web captcha | an attempt per person | start, answer, refresh, time out | a muted newcomer is let in or removed |
| antiflood, antiraid | counters, a toggle | count, reset | the repository has its own specification, `formal/antiflood` |
| Telegram pacer (`utils/ratelimit`) | next slot and block in Redis | reserve, block, retry | spacing; a block respected by all replicas |
| cache, shutdown, migrations | | | |
| chat features (warns, bans, notes, filters, locks, federations, connections, greetings, ...) | settings and content per chat | one statement or call each | sequential |

**How the parts interact.** Handlers of Telegram updates run concurrently, in
each replica, and share nothing but the database, Redis and Telegram.
`/lockdown`, the raid triggers and the settings card all go through
`startLockdownRow`; `/unlockdown`, an alert's button and the Lift card go through
`liftLockdownRow`. The join guard writes joiner rows, and one worker goroutine
per replica turns them into bans, declines and unbans; the same goroutine posts
and closes the alerts and works the ban run off. The raid counters are Redis
scripts; the first update over a threshold takes the fire latch and calls
`raidFire`. A staff action and its undo are one kind of run over the linked
groups; they meet in the target lock, in the record, and in what the target is at
Telegram. Every write is one conditional statement that reports whether it won. A
call to Telegram can be refused, be applied although its answer is lost, or be
applied late.

**What is hard here.** Two replicas on one row; a handler or a worker that stops
between any two steps; answers that are lost; a lift that begins in the middle of
a start, of the guard's write or of a ban; updates that come twice, or in the
other order; claims that grow old; snapshots (the permissions, a batch) used
after they changed; a worker that panics and a shutdown that cuts a run off.
`PROJECT.json` lists each as a hazard at its line.

## 2. The modules

    LockdownLifecycle     the promise of the rows of one group
          ^ implements
    Lockdown              rows, live permissions, starters, lifters, settlers
    LockdownJoiners       one confirmed lockdown: joiner rows, people, guard, workers
          ^ EXTENDS
    LockdownResponse      the ban run beside the joiners
    LockdownAlerts        the copies of the alert and the reminders, their buttons
    RaidTrigger           raidFire over the rows of one group
    RaidCounters          the windowed sets that decide whether raidFire is called
    StaffDecide           what a staff action or its undo decides, what a call makes of it
          ^ EXTENDS
    StaffActions          cards, target lock, record and runs on one target
    MC...                 the instances of each
    Lockdown_proofs       types of Lockdown, the refinement, and the safety while no
                          start overlaps a lift
    LockdownJoiners_proofs, LockdownClaims_proofs
                          types, claims and bans of LockdownJoiners
    LockdownResponse_proofs
                          types and safety of the ban run, on top of those of the joiners
    LockdownAlerts_proofs, RaidTrigger_proofs, RaidCounters_proofs, StaffActions_proofs
                          types and safety of the module of that name

`Lockdown` and `LockdownJoiners` meet in the lockdown row: `LockdownJoiners`
starts from a confirmed row and has its lift as `BeginLift`, `FinishLift`;
`Lockdown` has the end of the lift as `FinishLift(r)`, at any time, which is what
the joiners allow it.

### Lockdown

State: `rows` is `chat_lockdowns` of one group (`state`; `lockedAt` for
`locked_at` being set; `pre` for `pre_permissions`; `old` for "past the grace of
a minute"); `perm` the live permissions, of which the code tells apart the
locked set and others; `call[a]` the one `setChatPermissions` of a handler, which
outlives the handler; `starter`, `lifter`, `settler` where each is.

| code | actions |
|---|---|
| `/lockdown` (`lockdown.go` 296-392), triggers | `LockdownCommand`, `LockdownReread` |
| `startLockdownRow` | `Snapshot`, `Insert`, `SendLock`, `LockAnswered`, `LockRefused`, `LockUnknown`, `RemoveRefused`, `ConfirmStart` |
| `settleUnconfirmedLockdown` | `SettleRead`, `SettleDecide` |
| `applyLockdownLiftOf`, `liftLockdownRow` | `LiftCommand`, `SendRestore`, `RestoreAnswered`, `RestoreFailed`, `BeginLift`, `FinishAtOnce` |
| the worker's `FinishLift` | `FinishLift` |
| Telegram, time, people, crashes | `TelegramApplies`, `TelegramDrops`, `GraceEnds`, `AdminChangesPermissions`, `StarterStops`, `LifterStops`, `WorkerStops` |

A trigger does not settle an old row as `/lockdown` does; it is a starter that
finds no active row. `RestoreFailed` allows a request that fails to be dropped or
to be applied later. The second try of `ConfirmLocked` is folded into
one: `ConfirmStart` either writes or does not.

### LockdownJoiners

State: `ld` the state of the lockdown row; `tg[u]` what the person is to the
group, with the end date if banned; `rows[u]` the joiner row; `guard[d]` update
`d` with the step of its handler and what it read; `worker[w]` the step of
replica `w`, its batch as listed, the row it works on and the outcome of its call.
An end date is the number of the update whose handler computed it, so two dates
differ unless they are one, and `isLockdownBan` compares dates as the code does.

| code | actions |
|---|---|
| `lockdownOnJoinMember`, `...Message`, `...Request` | `GuardReads` |
| `recordLockdownJoin`, `recordLockdownRequest`, `lockdownExistingJoin`, `lockdownReclaim` | `RecordJoin`, `ExistingJoin` |
| `lockdownPendingHeld` | `PendingHeld`, `Withdraw` |
| `lockdownReleaseStale` | `Release` |
| `lockdownBanPending`, `lockdownBanOne`, `lockdownDeclineOne` | `ListPending`, `BanPending`, `BanOneLooks`, `BanOneBans`, `DeclineOne`, `DeclineFails`, `BanOneRecords` |
| `lockdownProcessLifts`, `lockdownProcessLift`, `lockdownUnbanOne`, `lockdownUnbanFailed` | `ListLifting`, `Cancel`, `ListBanned`, `UnbanBanned`, `UnbanOneLooks`, `UnbanOneUnbans`, `UnbanOneRecords`, `Finish` |
| `BeginLift`, the lift with nobody to handle | `BeginLift`, `LifterFinishes` |
| people, Telegram, time, crashes | `Arrives`, `Requests`, `Leaves`, `Redelivered`, `AdminBans`, `AdminUnbans`, `WindowCloses`, `ClaimExpires`, `GuardStops`, `WorkerStops` |

### LockdownAlerts

State: `ld` the columns of the lockdown row that matter here; `copies[s]` the row
of slot `s` (sequence number and destination); `shown[s]` the message that row
names, as it reads now; `posts[s]` how many messages Telegram has of the slot;
`actor[a]` the step of a replica's worker, or of an administrator's press, with
what it read. A copy's list is not kept: after the claim only its `attempts` are
used, and those the actor has.

| code | actions |
|---|---|
| `lockdownPlanAlerts`, `BeginAlert`; `lockdownPlanReminders`, `PlanReminderSlots` | the actions of these names |
| `lockdownPostAlerts`, `lockdownPostAlertSlot` | `ListPending`, `PostClaims`, `PostClaimLost`, `PostReads`, `PostRoutes`, `Send`, `PostRecords`, `Supersede` |
| `lockdownSyncAlertCopies`, `lockdownSyncClaimed` | `SyncClaims`, `SyncLooks`, `SyncReads`, `SyncEdits`, `SyncRecords` |
| `lockdownCloseAlerts`, `lockdownCloseSlotNow`, `lockdownCloseClaimed` | `CloseClaims`, `PressStale`, `CloseLooks`, `CloseEdits`, `CloseRecords` |
| `lockdownRevokeConfirm`, `RecordLinkRevoked` | `RevokeConfirm`, `Revoke`, `RecordLinkRevoked` |
| `ReleaseStaleAlertClaims` | the action of this name |
| people, time, crashes | `ChangesLink`, `DeletesMessage`, `HourPasses`, `LiftBegins`, `ClaimExpires`, `Stops` |

An edit takes effect when it is sent or not at all; one that Telegram applies
after a later edit is not modelled.

### LockdownResponse

Extends `LockdownJoiners` by `burst[u]`, the burst row of a person; `run`, the row
of the ban run with the delivery of its report; `responder[r]`, the part of a
replica's worker that works the run off. Every step of `LockdownJoiners` goes on
beside it (`Beside`). The names that would clash with those of the joiners carry
`Run`.

| code | actions |
|---|---|
| `lockdownBanConfirm`, `StartBanRun` | `BanConfirmReads`, `BanConfirmStarts` |
| `lockdownReleaseStale`, `lockdownProcessBanRun`, `lockdownStopBanRun` | `ReleaseStaleOfRun`, `CycleEnds`, `ProcessBanRun`, `ListQueuedBurst`, `TakeAccount`, `BatchEnds`, `Unqueue`, `StopBanRun` |
| `lockdownResponseBanOne` | `ClaimBurst`, `ReadJoiner`, `TakeJoiner`, `DecideBan`, `RereadLockdown`, `BanForGood`, `RecordBanned`, `KeepJoiner`, `RestoreJoiner`, `SettleAccount` |
| `lockdownReportBanRun` | `ClaimBanRunReport`, `ReadBanRun`, `DeliverStep`, `SettleStep`, `GiveReportBack` |
| time, crashes | `BurstClaimExpires`, `ReportClaimExpires`, `ResponderStops` |

Whether an account is approved or an administrator is a choice of the step that
asks for it.

### RaidTrigger and RaidCounters

`RaidTrigger` keeps the group's rows (unconfirmed, confirmed, ended, whether the
group was locked, how often announced), the latch, the quiet time, the warning gate
and the step of each handler in `raidFire`: `Fire`, `ReadActive`, `ReadLifted`,
`CheckBot`, `InsertRow`, `RereadActive`, `LockGroup`, `RemoveRefused`,
`ConfirmStart`, `PostNotice`, and `ResolveDests`, `TakeGate`, `SendWarning`,
`WarningEnds` of `raidWarnCannotLock`. `heard` is no state of the program: it
counts the warnings that reached somebody since the gate was free. The latch's
lengths (5 and 60 s and 10 minutes) are left open: it may run out at any time,
which is more than it does.

`RaidCounters` has the sorted sets as functions from members to scores and each
Redis script as one step (`RecordJoins`, `RecordFloodItem`), with the calling
replica's clock, which may be ahead. Beside the sets it keeps what really happened
(`joinedAt`, `posted`), and the properties compare the counts of the scripts with
the rule over that history. Windows are a few ticks instead of minutes; what
`WindowsAssumption` states of them is what the constants of the source satisfy.

### StaffDecide and StaffActions

`StaffDecide` is `staff_action_decide.go`: `ActionVerdict` (`decideStaffAction` and its
five cases) and `UndoVerdict` (`decideStaffUndo`: `LeftBehind`, `SameUntil`, `PutBack`)
over `TargetState`, the part of a chat member they read, and `Applied`, what Telegram
makes of the call. A permission set is `muted` or not; ends of bans and restrictions
are ticks, and an end nearer than `MinTerm` is for good, as it is at Telegram.

`StaffActions` has `tg[g]` the target in a group; `card` and `lock` in Redis; `rec[c]`
and `row[c][g]` of `staff_actions` and `staff_action_groups`; `tap[t]`, the handler of
a tap on Confirm, which goes on as the run; `work[c][g]`, `look[c][g]`, `reached[c]`,
the memory of the run; `cut[c]`, its cancelled context; `late`, calls that were given
up on and are still on their way. `hist`, `overtaken` and `lockLost` are no state of
the program: what a call found and left, the looks at a group that something overtook
before their call, and whether Redis lost the lock of a run.

| code | actions |
|---|---|
| `staffUndoAsk`, the commands | `PostUndoCard`; the cards of the commands are there at first (`Posted`) |
| `staffActionCancel`, `expireStaffActionCard` | `CloseCard` |
| `staffActionConfirm`, `staffUndoConfirm` | `TakeLock`, `MoveCard`, `CheckAction`, `CheckUndo`, `ClaimUndo` |
| `runStaffActionInGroup`, `runStaffUndoInGroup` | `LookAtTarget`, `SavePrior`, `CallTelegram`, `Answer`, `CutOff`, `Panic` |
| `startJoinedStaffRun`, `startStaffUndoRun` | `Finish`, `LoseRelease`, `FinalizeReleased`, `Deliver`, `ReleaseLock`, `RenewLock` |
| `StopStaffActions`, Redis, Telegram, people, crashes | `Shutdown`, `LockExpires`, `LoseLock`, `LateCall`, `SomebodyElse`, `Tick`, `Stop` |

A tap that finds the lock held changes nothing and is not a step. One undo card waits
at a time: two that nobody tapped are alike. The link, the actor's rights and the
lookups inside a group are one choice of `LookAtTarget`, to go on or to end there.
What somebody else does, a lost lock and each fault come out of one budget. A group a
shutdown ends before its call costs none: the shutdown did. A `ReleaseUndo` that is
made and whose answer is lost is a state of its own (`LoseRelease`): its retry matches
nothing, and the undo is finalized although its claim is given back. An unmute always
leaves a member, or somebody who is not there; somebody restricted but not muted, whom
`LeftBehind` takes for what an unmute left as well, is there only where `Starts` or
`Decisions` say so.

### What the models assume of the world

Each assumption is a guard or a constant with a name, so it can be taken back.

- `Overlap = FALSE` (`Lockdown`): a start or a lift ends before the next lift
  begins, and no start begins while a restore is on its way. The code does not enforce
  it; `lockdown_lift_in_start` and `lockdown_two_lifts` show what happens without it.
  Several starts always interleave, and so do settles. What is checked with it says
  nothing of those cases. The refinement is proved without it; that an unconfirmed row
  settles is checked with it only, for nothing resumes a lift and a lift that meets a
  start takes the row out of the settlers' hands.
- `GraceEnds`: the grace of a minute outlives a start, whose calls take ten
  seconds each at most. (A worker's settle is paced and may be slower; it is not
  bounded.)
- `InOrder`, `AtRest`, `WindowCloses` (`LockdownJoiners`): the updates about one
  join come within the dedupe window of 20 seconds, none of them while a later
  request to join is handled, and a person does not come back as a request while
  their row waits for its ban. `Hazards` takes these
  back one by one: `"late delivery"`, `"stale batch"`, `"quick return"`.
- `ClaimExpires`: a worker's calls end before its claim of two minutes is stale.
  `"slow call"` takes it back. The claims of alerts, accounts and reports are alike.
- `"lost outcome"`: whether a ban may take effect without the worker learning it.
- `BetweenLookAndCall`: nobody bans by hand between the worker's look at a person
  and its call. Telegram has no conditional ban, so the code cannot do better;
  no run opens this window.
- `"revoke in post"` (`LockdownAlerts`): a revoke is recorded while a copy is on its
  way with the keyboard it was given before.
- `"unclaimed"`, `"lost restore"` (`LockdownResponse`): somebody without a joiner row
  joins while the run is at their account; the run stops, or a write fails, while
  it holds the row of somebody under the lockdown's ban.
- `"quick lift"` (`RaidTrigger`): a lockdown is started and lifted between the two
  reads of a handler and its insert. A handler takes seconds.
- `exact` (`RaidCounters`) becomes false once clocks disagreed or a cap cut a set;
  the flood rule claims nothing from then on.
- `MaxDelay` (`StaffActions`): how long the pacer may hold an undo's call back. What
  the undo puts back must not have less than the shortest term (`MinTerm`, 30 seconds)
  left by then, which is what the margin of 120 seconds (`UndoMargin`) is for. It
  covers 91 seconds: `MaxDelay + MinTerm <= UndoMargin + 1`. One wait of the pacer is
  60 at most (`MaxWait`), but a call that is answered 429 waits up to four times
  (`MaxRetries`), so the code does not bound the delay by that.
- `Decisions` (`StaffActions`): what somebody else decides has an end that is not near,
  or none (`Decided`), and only a restriction mutes (`Shaped`): that is Telegram's side
  of `staffTargetStateFrom`.
- `overtaken` (`StaffActions`): Telegram has no conditional call, so a decision that
  falls between a run's look and its call cannot be seen. `UndoPutsBack` leaves such
  calls out and `RecordIsTrue` lets their prior state be the one before that decision.
- `lockLost`: `RunsDoNotOvertake` claims nothing once Redis lost the lock of a run.
- Late calls (`StaffActions`): the run of a call that is given up on goes on, ends and
  releases the lock, and Telegram may carry the call out at any time after
  (`LateCall`). `RunsDoNotOvertake` therefore says which calls may fall between another
  run's look and its call: those, and no others.
- `MayBeForGood`: the time of a call is recorded after its answer, so an undo may take
  a ban for good, placed by somebody after a dated ban, for the dated ban called too
  late, if the answer took nearly as long as that ban. `UndoPutsBack` exempts it.

**What holds no more when they are taken back.** Each of these is a disagreement
with the source that TLC reproduces when the constant is changed in the named
configuration and the property is added to it; the first two are runs of their own.

| configuration and constants | violated | the source says |
|---|---|---|
| `lockdown_lift_in_start` | `EndedMeansUnlocked` | `lockdown.go` 564-566: nothing ends a lockdown that was not really lifted |
| `lockdown_two_lifts` | `LiftHitsOnlyItsOwn` | `lockdown.go` 469-470: no lockdown can start between the comparison and the lift |
| `joiners_lift`, `"lost outcome"`, one update and two attempts | `LiftLeavesNoBan` | `joiners.go` 158-160: whoever was recorded and not yet banned is never banned |
| `joiners_faults`, `"quick return"` | `BanIsRecorded` | `lockdown_guard.go` 430-432: a ban is never placed without a record the lift can find |
| `joiners_faults`, `"slow call"` | `ClaimsAreExclusive` | `lockdown_worker.go` 66-67: a live claim is never released |
| `alerts_replicas`, `"revoke in post"` | `NoEditIsLost` | `lockdown_alert.go` 113-114: after that no copy offers it again |
| `response_joiners`, `"unclaimed"` | `LetInIsNotBanned` | `burst.go` 82-84: a ban run never acts on them |
| `response_joiners`, `"lost restore"` | `LiftLeavesNoBan` | the lift then does not know of the ban |
| `staff_actions`, no constant changed | `NoBanReplaced` | `staff_action_card.go` 147-149: a restrict from one staff action can not replace the ban of the other |
| `staff_actions`, `MaxDelay = 2`, `MaxTime = 3` | `UndoPutsBack` | `staff_action_decide.go` 313-316: an end within the margin counts as ended, because a wait or a retry may delay the call |
| `raid_trigger`, `"quick lift"` | `QuietAfterLift` | a window the code does not mention |
| `joiners_faults`, `"late delivery"`, or `"stale batch"` with three updates | `BanIsRecorded` | the code names both windows as its limits |

## 3. The runs

| run | instance | shows |
|---|---|---|
| `lockdown_quiet` | 2 starters, 2 lifters, 1 worker, 2 rows, 2 faults, no overlap, fairness | `EndedMeansUnlocked`, `PreIsRestorable`, `LiftOnlyUnlocked`, `LifecycleSpec` (the rows implement `LockdownLifecycle`), `UnconfirmedSettles` |
| `joiners_faults` | 1 person, 2 workers, 2 updates, 2 attempts, 1 fault, lost outcomes | `ClaimsAreExclusive`, `BanIsRecorded`, `NoBanAfterLift` |
| `joiners_lift` | 1 person, 1 worker, 2 updates, 1 attempt, 1 fault, fairness | `ExemptIsNotBanned`, `LiftCompletes`, `PendingIsHandled` |
| `alerts_replicas` | 2 workers, 1 administrator, 1 destination, alert and 2 reminders, 1 attempt, 1 fault | `DuplicateOnlyByFault`, `NoEditIsLost`, `NewestKeepsButtons` |
| `alerts_close` | 1 worker, 1 administrator, 1 destination, 1 reminder, 2 attempts, 2 faults, fairness | `ClosedReadsLifted`, `AlertsClosed`, `MarksAreWorkedOff` |
| `response_joiners` | 1 person, 1 update, 1 worker, 1 responder, 1 fault | `LiftLeavesNoBan`, `LiftWaitsForRun`, `DeliberateBanStays`, `LetInIsNotBanned` |
| `response_reports` | 1 person, 2 responders, 2 attempts, 2 faults, fairness | `DoneMeansHandled`, `RunIsReported` |
| `raid_trigger` | 2 handlers, 2 destinations, 2 rows, 1 fault, 1 change of the bot's rights, fairness | `NoticeOncePerLockdown`, `WarnOnceADay`, `QuietAfterLift`, `RaidIsAnswered`, `StaffHearsOfRaid` |
| `raid_counters` | 3 accounts, 3 items, 2 clocks, windows of 2 and 3 ticks, 4 ticks | `JoinsAreCounted`, `FloodFiresAsRuled` |
| `staff_actions` | 1 group, 2 actions and 2 undos, 3 taps, 1 fault, 1 tick | `OneUndo`, `RecordIsTrue`, `RunsDoNotOvertake`, `UndoPutsBack` |
| `lockdown_lift_in_start` | 1 starter, 1 lifter, no fault, overlap | violates `EndedMeansUnlocked` |
| `lockdown_two_lifts` | 1 starter, 2 lifters, 2 rows, no fault, overlap | violates `LiftHitsOnlyItsOwn` |

The type invariant of a module is checked in one run of it. `RaidCounters` has none:
its properties compare every part of its state. That of `LockdownResponse` is in its
proofs (`RunTypeOK`) and holds of every instance.

**Bounds.** Two rows: a lockdown, its end and the one after it, which is where a
late restore or an old snapshot does harm. Two starters and two lifters: each
race has two parties. A fault is a crash, a failed write, a failed or lost
answer; two of them with two handlers reach a lost lock followed by a failed
settle. One person is enough for the joiner rows, because a row, its claims and
its ban concern one person and the batch treats them one after another; two
updates are the two halves of one join, a redelivery, or a join and a return; two
workers are the two replicas of a race. `MaxAttempts` is 3 in the code; 1 and 2
reach the final and the non-final failure. Two reminders are an older and a newer
one, the two that superseding tells apart; the destinations of an alert share no
row, so one shows a copy's life (the log channel and the Staff Group, which
differ in what a lost destination costs, take one run each). One account makes a
ban run: accounts meet only in the run's end, and two responders with one account
have one that ends the run while the other is in flight. Two rows give
`RaidTrigger` a lockdown, its lift and a start after it. Three accounts pass the
thresholds and the caps of two by one, and four ticks are one more than the
longest window. One linked group shows a staff run: groups meet only in the run's
end, which counts whether any was reached. Two actions and two undos are an undo
that meets a later action, and two undo cards of one action; the three pairs of
commands are those where the second changes what the first left, with ends
within and past the margin, and the target starts free, banned with an end just past the
margin, or muted with one just within it. The one tick that passes carries the first end
into the margin, the second past, and a dated ban under the shortest term or past its
end. It may fall between an undo's look and its call, and the margin covers no more than
that: an end just past the margin leaves the call the shortest term exactly. The kick,
which has no undo, is in none of the pairs; nor does the run meet somebody restricted
but not muted, of whom only the proofs speak. Three taps confirm an action, its undo and
one more card, or two cards at once and an undo. One event out of the budget is a
fault, a shutdown, a lost lock or one decision of somebody else; two of them are
beyond what TLC visits in the time of a run. Symmetry is used only in runs
without liveness.

The alerts, the counters and the staff actions stop: a lockdown whose copies are
all closed has nothing left to do, the clock of the counters ends, and the cards
and taps are used up. Their runs (`alerts_*`, `raid_counters`, `staff_actions`)
say `CHECK_DEADLOCK FALSE`; every other run checks for deadlock.

**Fairness.** `Lockdown`: a running handler goes on, a sent request is answered
or applied, the settle of an unconfirmed row is taken (the worker ticks every two
seconds), and a minute passes. `LockdownJoiners`: the guard's handlers and the
worker's loop go on and claims grow old. `LockdownAlerts`: a worker's cycle comes
round, a press that came is handled to its end, claims grow old. `LockdownResponse`:
the same of the responders. `RaidTrigger`: a handler goes on, latch, quiet time and
gate run out, an unconfirmed row is settled, and while a raid qualifies an update
reaches `raidFire`, which is what "a raid that goes on" means. `RaidCounters` and
`StaffActions` state none and check safety only: nothing resumes a staff run whose
replica stopped. All fairness is weak and per actor. Nobody
has to type a command, join, or lift, and a fault is never fair: the budget of
faults makes them end.

**Findings.** Two statements of the source that do not hold of what the code does
have a run of their own, and `PROJECT.json` quotes them. A lift may take a lockdown
whose lock is still in flight: the lock then comes after the restore and the group
stays locked with nothing to lift. And two lifts of one lockdown both send the
restore before either is recorded, so the slower one may reach the group after the
next lockdown began, which is then no lockdown.

The table of section 2 has the others: a ban whose answer was lost is pending
again, a lift then cancels the row and the ban stays for its 330 days; a staff ban
that was given up on lands between the next action's look and its mute, which
replaces it; a request to join takes a row back the moment its
ban is recorded, and with it goes the date by which the lift would know the ban;
a paced call may take longer than a claim lives; a copy posted around a revoke
offers the revoked link; an administrator may let somebody in after the ban run
found no row of theirs.

**Accepted by the code.** Some states the models reach are no findings because the
source chooses them, and no property forbids them: a reminder overtaken by the next
one keeps its buttons until the one after it (a press is checked against the row
all the same); an account banned by a call whose answer was lost is reported as
skipped; a ban run's tally may miss a ban in flight when the lift stopped it; and a
lift between the run's last look at the lockdown and its ban leaves that ban. A staff
action whose replica stopped has an open record and no Undo button, and a group whose
call was given up on reads failed although Telegram may carry the call out later.

## 4. The proofs

### The lockdown

`Lockdown_proofs` proves, for any sets of handlers and workers, any number of
rows and faults, and either value of `Overlap`:

- `TypeCorrect`: `Spec => []TypeOK`;
- `ImplementsLifecycle`: `Spec => LifecycleSpec`. A second running lockdown, a
  confirmed lockdown that vanishes without a lift and a lift recorded twice are
  impossible, however starts, lifts, settles, crashes and late answers interleave.

Both rest on the inductive invariant `IInv`: `TypeOK`, and that a starter, a lifter
or a settler that works on a row has one of the group's rows. `TypeOK` alone is
not inductive: a lifter sends the permissions of its row, and a row number 0 has
none. The argument is by actor (`StarterKeepsIInv`, `SettleKeepsIInv`,
`LifterKeepsIInv`, `EnvironmentKeepsIInv`), with lemmas about the statements and
about the moves of a handler. The refinement needs `IInv` for the row numbers
only: each statement on the rows maps to one step of `LockdownLifecycle`
(`StartBegins`, `ConfirmConfirms`, `DeleteDrops`, `LiftLifts`, `FinishFinishes`),
because its condition is part of the statement, and everything else leaves the
phases alone.

The assumptions are those of the module: the bounds are natural numbers, and a
starter is neither a lifter nor a worker.

The second half of the module proves the safety that `lockdown_quiet` checks, for any sets of
handlers and workers and any number of rows and faults, from `~Overlap`. Without
that assumption they are false, as `lockdown_lift_in_start` and
the table of section 2 show, so each theorem states it: `NeverLeftLocked`
(`EndedMeansUnlocked`), `AlwaysRestorable` (`PreIsRestorable`), `LiftsUnlockFirst`
(`LiftOnlyUnlocked`).

None of the three is inductive. The invariant is `IInv /\ SInv`, and its argument
runs so. A starter *owns* the active row from the insert until its call was
answered and recorded, or was applied or dropped if it gave up. An owner is alone
and has an active row (`OwnerHasRow`); no settle ends that row, because its grace
is not over and nobody decided about it before (`ActiveIsYoung`, which is where
`GraceEnds` is used). So a lock that is applied finds its row, and from then on
the row stays: `LockedHasRow` says that a locked group has an active row and that
no lock is still to be applied, `DecisionsHold` that a settle that saw the group
unlocked is still right when it deletes, `SnapshotsHold` that a starter that
read the locked set will lose its insert. `LiftersAlone` and `RestoredIsUnlocked`
are the lifters' side.

Most steps only make things fade: no row becomes active, no starter becomes an
owner. `Calm` says so, the `Calm...` lemmas prove the conjuncts for every such
step at once, and `EndsWell` is what a step that ends an active row owes. Two
steps are not calm, the insert (`NewRowSafe`) and a lock that is applied
(`LockAppliedSafe`), and are proved conjunct by conjunct.

### The raid trigger

`RaidTrigger_proofs` proves, for any handlers, destinations, rows, changes and
faults: `TypeCorrect` (`TypeOK`), `OneNotice` (`NoticeOncePerLockdown`),
`OneWarningADay` (`WarnOnceADay`) and, unless `Hazards` has `"quick lift"`,
`NoStartWhileQuiet` (`QuietAfterLift`). Their invariant has four parts beside the
types.

- `NoticeInv`: a handler between its insert and its notice owns a row: the bot's,
  not announced, not removed, nobody else's. That the row is not removed under it
  is the condition of `DeleteUnconfirmed` together with the rule that `Settle`
  takes no row of a running start. Without ownership, an announced row says
  nothing about who else is about to announce it.
- `GateInv`: whoever sends holds the gate alone, the gate outlives what was heard,
  and `heard` is what the sender already delivered.
- `Unheard`: nobody brings an old delivery to the gate; the invariant of the gate
  needs it where a handler starts to send.
- `QuietInv`: while the quiet time lasts, no handler is past its reads. A handler
  gets past them only by finding no recent lift, and a lift begins only when nobody
  is past them: that is where the order of the reads and the assumption meet.

The types need `RowsOwned` (a notice counts on a row that exists), so `NextTyped`
assumes it. The theorem on the quiet time is an action property: `OnlyInsertsStart`
shows that only the insert makes a row unconfirmed, and `QuietInv` that no insert
is reached while quiet.

### The raid counters

`RaidCounters_proofs` proves `JoinCountsAreRight` (`JoinsAreCounted`) and
`FloodRuleIsExact` (`FloodFiresAsRuled`) for any finite sets of accounts and items, any
windows, caps and thresholds, and any clocks of which one is the furthest ahead. Of the
windows it uses what the constants of the source satisfy (`WindowsAssumption`).

- `JoinsInv` relates the joined set to what happened: a score is the account's last
  join, up to `Lead`; an account that is missing joined too long ago for the recent
  window, or as many as the cap allows score no less (`Old`, `Outrun`). That a cut or a
  trim keeps the second is `CutKeeps`: among the newest, the members above any score
  are all there or fill the cap.
- `ExactInv`, while `exact`: each set scores its members with what happened to them and
  misses only what left its window (`Tells`), and a new member's score is that of their
  latest item as a new member. Every write keeps this (`TellsStill`), and a set expires
  only when its whole window is gone (`TickExact`), so what a script counts is the
  window's content.

### The joiners

`LockdownJoiners_proofs` proves `TypeCorrect` (`TypeOK`) for any people, workers,
updates and faults, and says what each step comes to, for the two modules that build
on it. `LockdownClaims_proofs` proves

- `HandBansStay` (`DeliberateBanStays`), with no assumption: between its look and its
  call a worker has nobody who was banned by hand (`LookInv`), and a ban pass has only
  rows that wait for a dated ban in its batch (`BatchDated`);
- `RowsInOneHand` (`ClaimsAreExclusive`), unless `Hazards` has `"slow call"`;
- `NobodyBannedOnceLifted` (`NoBanAfterLift`), unless it has that or `"stale batch"`.

The invariant is `ClaimInv`: whoever is at work on a row holds its claim, alone, and
the row is the listed one, in the state the claim put it in, not stale. A claim that
cannot grow stale is given up by its worker only, and `IdsInv` says that nobody has
seen the number of a row that is not there yet, so a row that was deleted and recorded
anew is no old one. `LiftedInv` adds that no row is acted on or banned once
the lift ended, and that a batch listed before has no row a late guard left pending.

It also proves `BansAreRecorded` (`BanIsRecorded`) if `Hazards` is at
most `{"lost outcome"}`, and `LiftsLeaveNoBan` (`LiftLeavesNoBan`) and
`ExemptAreNotBanned` (`ExemptIsNotBanned`) if it is empty. A person who asks to join is
handled by that request alone, is not banned and waits for no ban (`RequestInv`); while
a join is handled, a row past its window that could be taken back has no ban behind it
(`AgeInv`); a guard withdraws its row only when the lockdown is over (`WithdrawInv`). So
no ban loses its row. `AccountInv` then says where each ban is accounted for: in a row
that is banned, being unbanned or failed to be, or by a worker about to record it.
Each assumption is needed: the table of section 2 has the counterexample of
each hazard. `LiftsLeaveNoBan` is about `LockdownJoiners` by itself; beside the ban
run, where `response_joiners` checks the property too, `RequestInv` is not kept: the
run may claim the row of somebody whose request is still handled.

### The ban run

`LockdownResponse_proofs` proves, for any people, workers, responders, updates,
attempts and faults, `RunTypeCorrect` (types of the module and of the joiners beside
it), `DoneIsHandled` (`DoneMeansHandled`), `LiftsWaitForRuns` (`LiftWaitsForRun`),
`LetInStay` (`LetInIsNotBanned`) and `RunsBansStay` (`DeliberateBanStays` again, now
with the run's own bans under the workers' hands). It takes each step of
`LockdownJoiners` from the lemmas of the joiners' proofs and says for each step of a
responder what it comes to (`RunKinds`): it claims a joiner row (`TakesRow`), gives one
back (`GivesRowBack`), bans, or goes on with what it has (`Proceeds`). Each invariant
is then one argument per kind.

- `RunTypeInv`: the types, and what a responder may hold (`WellHeld`): one account,
  and only a row that `ClaimJoiner` may claim.
- `HandledInv`: nobody is open before the run starts or once it is done.
  `StartBanRun` leaves nobody open where it queues nobody, so the run may be done at
  once.
- `HeldInv`: whoever holds a joiner row holds it alone: the row is `acting`, not stale,
  and neither a worker nor another responder has it. A call that outlasts its claim
  breaks this, hence the assumption that `Hazards` has no `"slow call"`.
- `LiftWaitsForRun` needs `HeldInv` and that a responder reaches its ban only through
  a look that found the lockdown active (`LooksAgain`).
- `UnbannedInv`, `OpenInv`: an unban is the lift's; whoever is looked at without a
  claim has no row, or the lift has begun and this account gets no further than the
  last look. A row that appears in between is the hazard `"unclaimed"`, so `LetInStay`
  and `RunsBansStay` assume that it is not among `RunHazards`.

`DoneIsHandled` and `RunTypeCorrect` have no assumption. The table of section 2 has
the counterexamples of the other two hazards.

### The alerts

`LockdownAlerts_proofs` proves, for any workers, administrators, destinations,
reminders, attempts and faults, `TypeCorrect` (`TypeOK`), `CopiesArePaidFor`
(`DuplicateOnlyByFault`), `ClosedStaysLifted` (`ClosedReadsLifted`), `NewestIsLive`
(`NewestKeepsButtons`) and, unless `Hazards` has `"revoke in post"`, `EditsArrive`
(`NoEditIsLost`).

- `HandsInv`: between a claim and the write that gives it back, the worker holds the
  row alone, and the row is still to be posted or open. It is what every other part
  rests on: `ClaimExpires` takes only claims whose holder stopped.
- `SentInv`: a slot has one message free, once it is recorded or about to be; each
  further one was paid for with a fault.
- `FreshInv`, `ClosedInv`: a row that was not posted is neither closed nor marked, and a
  message reads lifted from the edit that closes it, before that edit is recorded.
- `ButtonsInv`: a row without its buttons is closed, or a later reminder of its
  destination stands; whoever takes the buttons of the older ones has posted its own.
- `MarksInv`, `ReadsInv`, `RightInv`: what a mark means while it stands (the link was
  revoked, or the buttons were taken), what a worker may still believe of a copy
  between its look, its read and its edit, and that an unmarked copy therefore reads
  right. The mark is kept until the edit is recorded, and a row whose buttons went in
  between is not unmarked: that is the argument of `RecordAlertSynced`.

### The staff actions

`StaffActions_proofs` proves, for any groups, cards, taps, commands and faults and with
no assumption beside the module's, `TypeCorrect` (`TypeOK`), `RunsStayApart`
(`RunsDoNotOvertake`), `OneUndoCalls` (`OneUndo`) and `RecordsAreTrue` (`RecordIsTrue`),
and, if `MaxDelay + MinTerm <= UndoMargin + 1`, `UndoRestores` (`UndoPutsBack`). That
condition is exact: with one more tick of delay TLC finds the end that is put back
near enough for Telegram to make it one for good (the table of section 2).

- `TapsInv`, `HeldLock`: a card that runs has one handler, and while Redis keeps the
  lock the handler past `TakeLock` is its holder. So two runs that both have a group at
  work are one, and the other half of `RunsDoNotOvertake`, the calls that are late, is
  `LateFailed` below.
- `ClaimInv`: an undo that calls has the claim of the record (`undone_by`), and keeps it
  once it reached a group; `ReleaseUndo` gives it back only when it reached none.
  `OneUndo` does not need the lock: it holds when the lock is lost.
- `RecordInv`: a record is open while its run has groups at work (`OpenInRun`), what a
  run knows and stores of a group is the state its call replaces, or the call is among
  the overtaken (`SeenInRun`), and a call that is late has failed in the record
  (`LateFailed`). `RecordIsTrue` is not inductive without these three.
- `UndoHolds` is what an undo rests on. Each of its parts says what the memory of one
  step still means at a later one, unless something overtook it: the verdict an
  action's run holds is one on what the target is now (`ActionSaw`), so is an undo's,
  made on a record that is closed and did the action there (`UndoSaw`, `UndoOfDone`,
  for which `ClosedKept` shows that a closed record changes in its undo only). And
  what an action's call left is known from its kind and the recorded end
  (`CallLeft`): that end, or none if it was near, and then the target does not get
  the recorded end by chance, because no end that begins later is near
  (`TargetBecomes`). The last steps are about `StaffDecide` alone: what looks like
  what the action left is that (`UndoReplaces`), and what the undo's call makes of it
  is the state before (`UndoLeaves`).

### Only model-checked

`LiftLeavesNoBan` beside the ban run, and all liveness, which the prover cannot reach.

## 5. Not modelled

Of the lockdown: the deletion of join messages, the tally and its post, bans that
expire on their own, the kick service message, the names and trigger numbers on
rows, the texts of alerts. Of the ban run: a second run and the progress card. Of
raid detection: the settings, the snapshot of the flooders for the alert, and the
AI burst, whose verdicts come from an external service and whose breaker is the
memory of one replica. Of the staff actions: the parsing of commands, the rights
and links behind a group's checks, the texts, the posts to the log channels, the
message that carries the summary, the history, and the sweeper of links; and a
coordinator that panics, which releases the target lock while the workers of its run
go on (`staff_action_run.go` 257-261). Of the
rest of the bot: everything marked `not_modelled` in `PROJECT.json`, with its
reason. The TypeScript files of the documentation site (`src/docs`) declare
titles and an order of pages; they have no behaviour to specify.

## 6. Plan

In this order:

1. Proofs: an invariant for `LiftLeavesNoBan` that lets the ban run claim the row of
   somebody whose request is handled.
2. `TelegramPacer` as an algorithm checked against its spacing; the join message's
   handle and the tally beside `LockdownJoiners`; the links of a Staff Group, their
   recheck and the sweeper beside `StaffActions`.

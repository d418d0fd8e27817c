---------------------------- MODULE StaffActions ----------------------------
(***************************************************************************)
(* Staff actions on one target in the linked groups, and their undo: the   *)
(* confirm card and the target lock in Redis, the audit record, and the    *)
(* run that visits every group.  A card is confirmed by taps, each handled *)
(* on some replica; the one that wins goes on as the card's run.  A step   *)
(* is one Redis script, one database statement or transaction, or one      *)
(* Telegram call.                                                          *)
(***************************************************************************)
EXTENDS StaffDecide, FiniteSets

CONSTANTS
    Groups,          \* the linked groups
    MaxActions,      \* cards of commands, and
    MaxUndos,        \* cards of the Undo button
    MaxTaps,         \* taps on their Confirm buttons that get the lock
    Commands,        \* which actions they may be, in ticks how long; 0 is for good
    Starts,          \* what the target may be in the groups at first
    Decisions,       \* what somebody else may make of the target
    MaxTime, MaxDelay,           \* ticks, and those between an undo's look and its call
    MaxFaults        \* faults, lost locks and what others do to the target, together

ASSUME StaffAssumption ==
    /\ MaxActions \in Nat /\ MaxUndos \in Nat /\ MaxTaps \in Nat /\ MaxTime \in Nat /\ MaxDelay \in Nat
    /\ MaxFaults \in Nat
    /\ Commands \subseteq [1 .. MaxActions -> [kind : ActionKinds, length : Nat]]
    /\ Starts \subseteq [Groups -> TargetState]
    /\ \A start \in Starts, g \in Groups : Shaped(start[g])
    /\ Decisions \subseteq TargetState
    /\ \A s \in Decisions : Shaped(s)

Cards == 1 .. MaxActions + MaxUndos
Taps == 1 .. MaxTaps
Nobody == 0

VARIABLES
    now, tg,         \* the clock; tg[g]: the target in g, at Telegram
    card, lock,      \* Redis: the cards, and the one whose token the target lock holds
    rec, row,        \* rec[c]: the record of action c; row[c][g]: its part for g
    tap, cut,        \* the taps' handlers; cut: cards whose run a shutdown cancelled
    work, look,      \* work[c][g]: how far c's run is in g, and what it saw there
    reached,         \* reached[c]: groups whose result says that the call was made
    late,            \* calls that timed out and are still on their way
    hist, overtaken, \* history: what a call found and left; looks that were overtaken
    faults,          \* how many there were
    lockLost         \* history: Redis lost the lock of a run

redis == <<card, lock>>
db == <<rec, row>>
run == <<work, look, reached>>
history == <<hist, overtaken>>

vars == <<now, tg, redis, db, tap, cut, run, late, history, faults, lockLost>>

\* closed: cancelled or expired.
Card == [state : {"none", "pending", "running", "done", "closed", "aborted"},
         kind : ActionKinds \cup {"undo"}, length : Nat, of : Nat]

NoCard == [state |-> "none", kind |-> "ban", length |-> 0, of |-> Nobody]

\* claim: the undo card the one undo is claimed for; undone: undo_finished_at is set.
Record == [made : BOOLEAN, until : Nat, finished : BOOLEAN, claim : Nat, undone : BOOLEAN]

NoRecord == [made |-> FALSE, until |-> 0, finished |-> FALSE, claim |-> Nobody, undone |-> FALSE]

Outcomes == {"pending", "done", "skipped", "failed"}

Row == [outcome : Outcomes, prior : TargetState \cup {Unknown}, applied : Nat,
        undo : Outcomes \cup {""}]

NewRow == [outcome |-> "pending", prior |-> Unknown, applied |-> 0, undo |-> ""]

\* The handler of a tap, and what it goes on as.
TapPcs == {"idle", "move", "check", "claim", "run", "finalize", "deliver", "release", "over"}

Over == [pc |-> "over", on |-> Nobody]

LivePcs == {"move", "check", "claim", "run", "finalize", "deliver", "release"}

\* landed, refused: the call was made and its answer is on its way; lost: the worker
\* panicked.
Settled == {"done", "skipped", "failed", "lost"}

WorkPcs == {"idle", "todo", "looked", "saved", "landed", "refused"} \cup Settled

Look == [saw : TargetState \cup {Unknown}, verdict : Verdict, at : Nat]

NoLook == [saw |-> Unknown, verdict |-> Skip, at |-> 0]

NoCall == [before |-> Unknown, left |-> Unknown]

Undo(c) == card[c].kind = "undo"

\* The record a card's run writes to.
RecordOf(c) == IF Undo(c) THEN card[c].of ELSE c

KindOf(c) == card[RecordOf(c)].kind

Goes(t, pc) == tap' = [tap EXCEPT ![t].pc = pc]

CanFail == faults < MaxFaults

Fails == CanFail /\ faults' = faults + 1

NoFault == UNCHANGED faults

-----------------------------------------------------------------------------
\* The cards in Redis: posted by a command or by the Undo button, confirmed once.

DoneIn(a) == {g \in Groups : row[a][g].outcome = "done"}

Undoable(a) ==
    /\ rec[a].finished
    /\ rec[a].claim = Nobody
    /\ card[a].kind \in {"ban", "mute", "unban", "unmute"}
    /\ DoneIn(a) # {}

\* The last one that is not tapped yet stands for all the others.
PostUndoCard ==
    \E c, a \in Cards :
        /\ card[c] = NoCard /\ \A d \in 1 .. c - 1 : card[d] # NoCard
        /\ Undoable(a)
        /\ \A d \in Cards : Undo(d) /\ card[d].state = "pending" => \E t \in Taps : tap[t].on = d
        /\ card' = [card EXCEPT ![c] = [NoCard EXCEPT !.state = "pending", !.kind = "undo", !.of = a]]
        /\ UNCHANGED <<now, tg, lock, db, tap, cut, run, late, history, faults, lockLost>>

\* Cancel, the expiry timer, or a tap that comes too late.  It matters to a tap that
\* has the lock already; otherwise it is as if nobody tapped the card.
CloseCard ==
    \E c \in Cards :
        /\ card[c].state = "pending"
        /\ \E t \in Taps : tap[t] = [pc |-> "move", on |-> c]
        /\ card' = [card EXCEPT ![c].state = "closed"]
        /\ UNCHANGED <<now, tg, lock, db, tap, cut, run, late, history, faults, lockLost>>

\* The cards of the commands.
Posted(command) ==
    [c \in Cards |->
        IF c > MaxActions THEN NoCard
        ELSE [NoCard EXCEPT !.state = "pending", !.kind = command[c].kind,
                            !.length = command[c].length]]

SetCard(c, state) == card' = [card EXCEPT ![c].state = state]

-----------------------------------------------------------------------------
\* Confirm: staffActionConfirm and staffUndoConfirm up to the start of the run.

\* Mutation: the lock is set whether or not somebody holds it.
TakesAnyway(c) == lock' = c

Takes(c) == lock = Nobody /\ lock' = c

\* A tap that found its card pending, which it may no longer be.  One that finds the
\* lock held, by another card or by this one, ends and changes nothing.  After a lost
\* answer the tap ends as well, though the lock is taken.
TakeLock(t) ==
    /\ tap[t].pc = "idle"
    /\ \A s \in 1 .. t - 1 : tap[s].pc # "idle"
    /\ \E c \in Cards :
        /\ card[c] # NoCard
        /\ Takes(c)
        /\ \/ tap' = [tap EXCEPT ![t] = [pc |-> "move", on |-> c]] /\ NoFault
           \/ tap' = [tap EXCEPT ![t] = Over] /\ Fails
    /\ UNCHANGED <<now, tg, card, db, cut, run, late, history, lockLost>>

\* The compare-and-set.  After a lost answer the card stays running and nothing runs.
MoveCard(t) ==
    LET c == tap[t].on
    IN /\ tap[t].pc = "move"
       /\ \/ /\ card[c].state = "pending"
             /\ SetCard(c, "running")
             /\ \/ Goes(t, "check") /\ NoFault
                \/ Goes(t, "release") /\ Fails
          \/ /\ card[c].state # "pending"
             /\ Goes(t, "release")
             /\ NoFault
             /\ UNCHANGED card
       /\ UNCHANGED <<now, tg, lock, db, cut, run, late, history, lockLost>>

Abort(t) == SetCard(tap[t].on, "aborted") /\ Goes(t, "release")

UntilOf(c) == IF card[c].length = 0 THEN 0 ELSE now + card[c].length

\* The record is made before the first call, or the card is aborted: the Staff Group,
\* the issuer or the linked groups are not what they were, or a read or write failed.
CheckAction(t) ==
    LET c == tap[t].on
    IN /\ tap[t].pc = "check"
       /\ ~Undo(c)
       /\ \/ /\ rec' = [rec EXCEPT ![c].made = TRUE, ![c].until = UntilOf(c)]
             /\ work' = [work EXCEPT ![c] = [g \in Groups |-> "todo"]]
             /\ Goes(t, "run")
             /\ UNCHANGED card
          \/ /\ Abort(t)
             /\ UNCHANGED <<rec, work>>
       /\ UNCHANGED <<now, tg, lock, row, cut, look, reached, late, history, faults, lockLost>>

\* The record is read again: its one undo may be claimed since.
CheckUndo(t) ==
    LET c == tap[t].on
    IN /\ tap[t].pc = "check"
       /\ Undo(c)
       /\ \/ /\ Undoable(card[c].of)
             /\ Goes(t, "claim")
             /\ UNCHANGED card
          \/ Abort(t)
       /\ UNCHANGED <<now, tg, lock, db, cut, run, late, history, faults, lockLost>>

Unclaimed(a) == rec[a].claim = Nobody

\* ClaimUndo, one conditional update.  After a lost answer the claim stays.
ClaimUndo(t) ==
    LET c == tap[t].on
        a == card[c].of
        claimed == rec' = [rec EXCEPT ![a].claim = c]
    IN /\ tap[t].pc = "claim"
       /\ \/ /\ ~cut[c] /\ Unclaimed(a)
             /\ claimed
             /\ work' = [work EXCEPT ![c] =
                    [g \in Groups |-> IF g \in DoneIn(a) THEN "todo" ELSE "idle"]]
             /\ Goes(t, "run")
             /\ NoFault
             /\ UNCHANGED card
          \/ /\ ~cut[c] /\ Unclaimed(a)
             /\ claimed
             /\ Abort(t)
             /\ Fails
             /\ UNCHANGED work
          \/ /\ cut[c] \/ ~Unclaimed(a)
             /\ Abort(t)
             /\ NoFault
             /\ UNCHANGED <<rec, work>>
       /\ UNCHANGED <<now, tg, lock, row, cut, look, reached, late, history, lockLost>>

-----------------------------------------------------------------------------
\* The run: every group on its own, in the fan-out's workers.

InGroup(t, g, pc) == tap[t].pc = "run" /\ work[tap[t].on][g] = pc

Result(r, c, outcome) ==
    IF Undo(c) THEN [r EXCEPT !.undo = outcome]
    ELSE [r EXCEPT !.outcome = outcome,
                   !.applied = IF outcome = "done" /\ r.applied = 0 THEN now ELSE r.applied]

SetResult(c, g, outcome, called) ==
    /\ work' = [work EXCEPT ![c][g] = outcome]
    /\ look' = [look EXCEPT ![c][g] = NoLook]
    /\ reached' = IF called THEN [reached EXCEPT ![c] = @ \cup {g}] ELSE reached

\* The group's result, and its row at once; that write may fail.
Settle(c, g, outcome, called) ==
    /\ SetResult(c, g, outcome, called)
    /\ \/ row' = [row EXCEPT ![RecordOf(c)][g] = Result(row[RecordOf(c)][g], c, outcome)] /\ NoFault
       \/ UNCHANGED row /\ Fails

\* A fault decides the group's result.
Ends(c, g, outcome, called) ==
    /\ Fails
    /\ SetResult(c, g, outcome, called)
    /\ row' = [row EXCEPT ![RecordOf(c)][g] = Result(row[RecordOf(c)][g], c, outcome)]

\* What the run decides on the target it just saw.  lockdownBan: the ban it saw is one
\* of a lockdown.
Decide(c, g, lockdownBan) ==
    LET a == RecordOf(c)
    IN IF Undo(c) THEN UndoVerdict(KindOf(c), row[a][g].prior, rec[a].until, row[a][g].applied,
                                   tg[g], now)
       ELSE ActionVerdict(KindOf(c), tg[g], rec[a].until, lockdownBan)

\* The prechecks and the look at the target.  They end without a call when the link,
\* the actor's rights or an answer is missing, or a shutdown began.
LookAtTarget(t, g) ==
    LET c == tap[t].on
    IN /\ InGroup(t, g, "todo")
       /\ \/ \E outcome \in {"skipped", "failed"} : Ends(c, g, outcome, FALSE)
          \/ cut[c] /\ Settle(c, g, "failed", FALSE)
          \/ Decide(c, g, FALSE) = Skip /\ Settle(c, g, "skipped", FALSE)
          \/ \E lockdownBan \in {FALSE, tg[g].status = "kicked" /\ tg[g].until # 0} :
                LET verdict == Decide(c, g, lockdownBan)
                IN /\ ~cut[c]
                   /\ verdict # Skip
                   /\ work' = [work EXCEPT ![c][g] = IF Undo(c) THEN "saved" ELSE "looked"]
                   /\ look' = [look EXCEPT ![c][g] = [saw |-> IF Undo(c) THEN Unknown ELSE tg[g],
                                                           verdict |-> verdict,
                                                           at |-> IF Undo(c) THEN now ELSE 0]]
                   /\ UNCHANGED <<row, reached, faults>>
       /\ UNCHANGED <<now, tg, redis, rec, tap, cut, late, history, lockLost>>

\* The state the decision was made on is stored before the call.
SavePrior(t, g) ==
    LET c == tap[t].on
    IN /\ InGroup(t, g, "looked")
       /\ \/ /\ row' = [row EXCEPT ![c][g].prior = look[c][g].saw]
             /\ work' = [work EXCEPT ![c][g] = "saved"]
             /\ look' = [look EXCEPT ![c][g].saw = Unknown]
             /\ UNCHANGED <<reached, faults>>
          \/ Ends(c, g, "failed", FALSE)
       /\ UNCHANGED <<now, tg, redis, rec, tap, cut, late, history, lockLost>>

\* Whose look at g a change there overtakes.
Overtaken(g, by) == {d \in Cards \ by : work[d][g] \in {"looked", "saved"}} \X {g}

\* The target in g becomes s.
Becomes(g, s, by) ==
    /\ tg' = [tg EXCEPT ![g] = s]
    /\ overtaken' = IF s = tg[g] THEN overtaken ELSE overtaken \cup Overtaken(g, by)

CallMade(c, g, left) == hist' = [hist EXCEPT ![c][g] = [before |-> tg[g], left |-> left]]

Lands(c, g) ==
    LET s == Applied(look[c][g].verdict, tg[g], now)
    IN Becomes(g, s, {c}) /\ CallMade(c, g, s)

\* The one call of the verdict: Telegram carries it out or refuses it.
CallTelegram(t, g) ==
    LET c == tap[t].on
        refused == /\ CallMade(c, g, Unknown)
                   /\ work' = [work EXCEPT ![c][g] = "refused"]
                   /\ UNCHANGED <<tg, overtaken>>
    IN /\ InGroup(t, g, "saved")
       /\ ~cut[c]
       /\ \/ /\ tg[g] # Administrator
             /\ Lands(c, g)
             /\ work' = [work EXCEPT ![c][g] = "landed"]
             /\ NoFault
             /\ UNCHANGED late
          \/ refused /\ tg[g] = Administrator /\ NoFault /\ UNCHANGED late
          \/ refused /\ Fails /\ UNCHANGED late
          \/ /\ refused
             /\ Fails
             /\ late' = late \cup {[card |-> c, group |-> g, verdict |-> look[c][g].verdict]}
       /\ UNCHANGED <<now, redis, db, tap, cut, look, reached, lockLost>>

\* A call that timed out takes effect after all.
LateCall ==
    \E l \in late :
        /\ late' = late \ {l}
        /\ Becomes(l.group, Applied(l.verdict, tg[l.group], now), {l.card})
        /\ hist' = [hist EXCEPT ![l.card][l.group] =
                [before |-> tg[l.group], left |-> Applied(l.verdict, tg[l.group], now)]]
        /\ UNCHANGED <<now, redis, db, tap, cut, run, faults, lockLost>>

\* Mutation: an undo counts a group as reached only if the call succeeded.
CountsIfDone(c, outcome) == Undo(c) /\ outcome = "done"

Counts(c, outcome) == Undo(c)

\* A shutdown that began meanwhile ends the group without the call, before it or while
\* it waits in the pacer, when an undo counts it as made.
CutOff(t, g) ==
    LET c == tap[t].on
    IN /\ InGroup(t, g, "saved")
       /\ cut[c]
       /\ \E waiting \in BOOLEAN : Settle(c, g, "failed", waiting /\ Counts(c, "failed"))
       /\ UNCHANGED <<now, tg, redis, rec, tap, cut, late, history, lockLost>>

\* The answer, which a shutdown or a timeout may cut off.
Answer(t, g) ==
    LET c == tap[t].on
        pc == work[c][g]
    IN /\ InGroup(t, g, "landed") \/ InGroup(t, g, "refused")
       /\ \/ pc = "landed" /\ Settle(c, g, "done", Counts(c, "done"))
          \/ pc = "refused" /\ Settle(c, g, "failed", Counts(c, "failed"))
          \/ pc = "landed" /\ cut[c] /\ Settle(c, g, "failed", Counts(c, "failed"))
          \/ pc = "landed" /\ Ends(c, g, "failed", Counts(c, "failed"))
       /\ UNCHANGED <<now, tg, redis, rec, tap, cut, late, history, lockLost>>

\* A worker panics; its slot stays pending.
Panic(t, g) ==
    LET c == tap[t].on
    IN /\ \E pc \in {"todo", "looked", "saved", "landed", "refused"} : InGroup(t, g, pc)
       /\ Fails
       /\ work' = [work EXCEPT ![c][g] = "lost"]
       /\ look' = [look EXCEPT ![c][g] = NoLook]
       /\ UNCHANGED <<now, tg, redis, db, tap, cut, reached, late, history, lockLost>>

-----------------------------------------------------------------------------
\* The end of the run: the sweep, the record's end, the summary, the lock.

\* Mutation: what never reported is skipped.
SweptAsSkipped(pc) == IF pc = "lost" THEN "skipped" ELSE pc

\* Mutation: what never reported stays without a result.
NotSwept(pc) == pc

\* sweepPending: what never reported has failed, and may have made its call.
Swept(pc) == IF pc = "lost" THEN "failed" ELSE pc

Lost(c) == {g \in Groups : work[c][g] = "lost"}

AllResults(c) ==
    [g \in Groups |-> IF work[c][g] = "idle" THEN row[RecordOf(c)][g]
                      ELSE Result(row[RecordOf(c)][g], c, Swept(work[c][g]))]

\* The groups the action was not applied to have no undo result until now.
UndoRow(r) == IF r.outcome # "done" /\ r.undo = "" THEN [r EXCEPT !.undo = "skipped"] ELSE r

FinalizeAction(c) ==
    /\ row' = [row EXCEPT ![c] = AllResults(c)]
    /\ rec' = [rec EXCEPT ![c].finished = TRUE]

FinalizeUndo(c) ==
    /\ row' = [row EXCEPT ![card[c].of] = [g \in Groups |-> UndoRow(AllResults(c)[g])]]
    /\ rec' = [rec EXCEPT ![card[c].of].undone = TRUE]

AnyReached(c) == reached[c] \cup Lost(c) # {}

\* The claim is this run's, and its undo is not finished.
StillClaimed(c) == rec[card[c].of].claim = c /\ ~rec[card[c].of].undone

\* The claim is given back only while it still is.
ReleaseUndo(c) ==
    LET a == card[c].of
    IN /\ StillClaimed(c)
       /\ rec' = [rec EXCEPT ![a].claim = Nobody]
       /\ row' = [row EXCEPT ![a] = [g \in Groups |-> [row[a][g] EXCEPT !.undo = ""]]]

GroupsEnded(c) == \A g \in Groups : work[c][g] \in Settled \cup {"idle"}

\* Finish.  A write that fails twice leaves the record open, and a release that does,
\* or that matches nothing, finalizes the undo.
Finish(t) ==
    LET c == tap[t].on
    IN /\ tap[t].pc = "run" /\ GroupsEnded(c)
       /\ Goes(t, "deliver")
       /\ \/ ~Undo(c) /\ FinalizeAction(c) /\ NoFault
          \/ Undo(c) /\ (AnyReached(c) \/ ~StillClaimed(c)) /\ FinalizeUndo(c) /\ NoFault
          \/ Undo(c) /\ ~AnyReached(c) /\ ReleaseUndo(c) /\ NoFault
          \/ Undo(c) /\ ~AnyReached(c) /\ FinalizeUndo(c) /\ Fails
          \/ Fails /\ UNCHANGED db
       /\ UNCHANGED <<now, tg, redis, cut, run, late, history, lockLost>>

\* The release is made and its answer lost.  The retry no longer matches, and the undo
\* is finalized although its claim is given back.
LoseRelease(t) ==
    LET c == tap[t].on
    IN /\ tap[t].pc = "run" /\ GroupsEnded(c)
       /\ Goes(t, "finalize")
       /\ Undo(c) /\ ~AnyReached(c) /\ ReleaseUndo(c)
       /\ Fails
       /\ UNCHANGED <<now, tg, redis, cut, run, late, history, lockLost>>

FinalizeReleased(t) ==
    LET c == tap[t].on
    IN /\ tap[t].pc = "finalize" /\ Undo(c) /\ GroupsEnded(c)
       /\ Goes(t, "deliver")
       /\ \/ FinalizeUndo(c) /\ NoFault
          \/ UNCHANGED db /\ Fails
       /\ UNCHANGED <<now, tg, redis, cut, run, late, history, lockLost>>

\* The run's memory is gone.
Forget(c) ==
    /\ work' = [work EXCEPT ![c] = [g \in Groups |-> "idle"]]
    /\ look' = [look EXCEPT ![c] = [g \in Groups |-> NoLook]]
    /\ reached' = [reached EXCEPT ![c] = {}]

\* The summary is out, with the Undo button, and the card is done.
Deliver(t) ==
    /\ tap[t].pc = "deliver"
    /\ SetCard(tap[t].on, "done")
    /\ Goes(t, "release")
    /\ Forget(tap[t].on)
    /\ UNCHANGED <<now, tg, lock, db, cut, late, history, faults, lockLost>>

LockWithout(c) == IF lock = c THEN Nobody ELSE lock

ReleaseLock(t) ==
    /\ tap[t].pc = "release"
    /\ tap' = [tap EXCEPT ![t] = Over]
    /\ \/ lock' = LockWithout(tap[t].on) /\ NoFault
       \/ UNCHANGED lock /\ Fails
    /\ UNCHANGED <<now, tg, card, db, cut, run, late, history, lockLost>>

\* While the fan-out runs its lock is renewed, and taken again if the key vanished.
RenewLock(t) ==
    /\ tap[t].pc = "run"
    /\ lock = Nobody
    /\ lock' = tap[t].on
    /\ UNCHANGED <<now, tg, card, db, tap, cut, run, late, history, faults, lockLost>>

\* The lock's time runs out, nobody renews it.
LockExpires ==
    /\ lock # Nobody
    /\ ~ \E t \in Taps : tap[t].on = lock /\ tap[t].pc \in LivePcs
    /\ lock' = Nobody
    /\ UNCHANGED <<now, tg, card, db, tap, cut, run, late, history, faults, lockLost>>

-----------------------------------------------------------------------------
\* What else happens.

\* Redis loses the lock of a run: a restart, a flush, or an outage past its time.
LoseLock ==
    /\ lock # Nobody
    /\ Fails
    /\ lock' = Nobody
    /\ lockLost' = TRUE
    /\ UNCHANGED <<now, tg, card, db, tap, cut, run, late, history>>

\* The replica that handles a tap stops.
Stop(t) ==
    /\ tap[t].pc \in LivePcs
    /\ Fails
    /\ tap' = [tap EXCEPT ![t] = Over]
    /\ IF tap[t].pc \in {"run", "finalize", "deliver"} THEN Forget(tap[t].on) ELSE UNCHANGED run
    /\ UNCHANGED <<now, tg, redis, db, cut, late, history, lockLost>>

\* StopStaffActions: a shutdown cancels the run and waits for it.
Shutdown(t) ==
    /\ tap[t].pc \in {"check", "claim", "run"}
    /\ ~cut[tap[t].on]
    /\ Fails
    /\ cut' = [cut EXCEPT ![tap[t].on] = TRUE]
    /\ UNCHANGED <<now, tg, redis, db, tap, run, late, history, lockLost>>

\* What somebody else decides about the target; an end that is near is none.
Decided == {[s EXCEPT !.until = EndAt(s.until, now)] : s \in Decisions}

\* The target joins or leaves, or somebody else decides about them.
SomebodyElse ==
    /\ Fails
    /\ \E g \in Groups : \E s \in Decided \cup Moves(tg[g]) :
        /\ s # tg[g]
        /\ s = Administrator => tg[g].in
        /\ Becomes(g, s, {})
    /\ UNCHANGED <<now, redis, db, tap, cut, run, late, hist, lockLost>>

\* The pacer holds an undo's call back for MaxDelay at most.
Tick ==
    /\ now < MaxTime
    /\ \A c \in Cards, g \in Groups :
            Undo(c) /\ work[c][g] = "saved" => now < look[c][g].at + MaxDelay
    /\ now' = now + 1
    /\ tg' = [g \in Groups |-> AfterEnd(tg[g], now + 1)]
    /\ overtaken' = overtaken \cup
            UNION {Overtaken(g, {}) : g \in {h \in Groups : AfterEnd(tg[h], now + 1) # tg[h]}}
    /\ UNCHANGED <<redis, db, tap, cut, run, late, hist, faults, lockLost>>

Init ==
    /\ now = 1
    /\ tg \in Starts
    /\ card \in {Posted(command) : command \in Commands}
    /\ lock = Nobody
    /\ rec = [c \in Cards |-> NoRecord]
    /\ row = [c \in Cards |-> [g \in Groups |-> NewRow]]
    /\ tap = [t \in Taps |-> [pc |-> "idle", on |-> Nobody]]
    /\ cut = [c \in Cards |-> FALSE]
    /\ work = [c \in Cards |-> [g \in Groups |-> "idle"]]
    /\ look = [c \in Cards |-> [g \in Groups |-> NoLook]]
    /\ reached = [c \in Cards |-> {}]
    /\ late = {}
    /\ hist = [c \in Cards |-> [g \in Groups |-> NoCall]]
    /\ overtaken = {}
    /\ faults = 0
    /\ lockLost = FALSE

Group(t, g) ==
    \/ LookAtTarget(t, g) \/ SavePrior(t, g) \/ CallTelegram(t, g) \/ CutOff(t, g)
    \/ Answer(t, g)

Handler(t) ==
    \/ TakeLock(t) \/ MoveCard(t) \/ CheckAction(t) \/ CheckUndo(t) \/ ClaimUndo(t)
    \/ \E g \in Groups : Group(t, g)
    \/ Finish(t) \/ LoseRelease(t) \/ FinalizeReleased(t) \/ Deliver(t) \/ ReleaseLock(t)

Next ==
    \/ PostUndoCard \/ CloseCard
    \/ \E t \in Taps :
        \/ Handler(t) \/ RenewLock(t) \/ Stop(t) \/ Shutdown(t)
        \/ \E g \in Groups : Panic(t, g)
    \/ LockExpires \/ LoseLock \/ LateCall \/ SomebodyElse \/ Tick

Spec == Init /\ [][Next]_vars

-----------------------------------------------------------------------------
\* Every variable keeps its type.
TypeOK ==
    /\ now \in Nat
    /\ tg \in [Groups -> TargetState]
    /\ card \in [Cards -> Card]
    /\ lock \in Cards \cup {Nobody}
    /\ rec \in [Cards -> Record]
    /\ row \in [Cards -> [Groups -> Row]]
    /\ tap \in [Taps -> [pc : TapPcs, on : Cards \cup {Nobody}]]
    /\ cut \in [Cards -> BOOLEAN]
    /\ work \in [Cards -> [Groups -> WorkPcs]]
    /\ look \in [Cards -> [Groups -> Look]]
    /\ reached \in [Cards -> SUBSET Groups]
    /\ late \subseteq [card : Cards, group : Groups, verdict : Verdict]
    /\ hist \in [Cards -> [Groups -> [before : TargetState \cup {Unknown},
                                      left : TargetState \cup {Unknown}]]]
    /\ overtaken \subseteq Cards \X Groups
    /\ faults \in Nat
    /\ lockLost \in BOOLEAN

Called(c, g) == hist[c][g] # NoCall

LandsNow(c, g) == work[c][g] = "saved" /\ (work[c][g])' = "landed"

LandsLate(c, g) == \E l \in late : l \notin late' /\ l.card = c /\ l.group = g

\* c's run counts its call in g as failed, or stopped before it had the answer.
GaveUpOn(c, g) ==
    /\ work[c][g] \in {"refused", "failed", "lost", "idle"}
    /\ rec[c].finished => row[c][g].outcome = "failed"

\* While Redis keeps the lock, the one call of another card that changes the target of
\* a group between a run's look at it and that run's call is one that was given up on
\* and took effect late; none does that its run waits for, or that the
\* closed record of an action tells of as done (acquireStaffTargetLock,
\* executeStaffCall).
RunsDoNotOvertake ==
    [][\A c, d \in Cards, g \in Groups :
            ~lockLost /\ c # d /\ work[d][g] \in {"looked", "saved"}
                /\ (LandsNow(c, g) \/ LandsLate(c, g))
                => tg[g] = tg'[g] \/ (LandsLate(c, g) /\ GaveUpOn(c, g))]_vars

\* The mute of one staff action does not replace the ban of another: so says
\* acquireStaffTargetLock.  It does not hold, so no run has it: a ban that was given up
\* on and lands between the look and the call of the next action is replaced.
NoBanReplaced ==
    [][\A c, d \in Cards, g \in Groups :
            ~lockLost /\ c # d /\ ~Undo(c) /\ ~Undo(d)
                /\ LandsNow(c, g) /\ look[c][g].verdict.call = "mute"
                /\ hist[d][g].left.status = "kicked"
                => tg[g] # hist[d][g].left]_vars

\* What somebody decided about the target; whether they are there is not a decision.
Decision(s) ==
    IF s.status = "kicked" \/ (s.status = "restricted" /\ s.muted)
    THEN [s EXCEPT !.in = FALSE] ELSE Left

\* s is the decision before, or none where its end was near.
PutsBack(before, s) ==
    \/ s.status = before.status /\ s.until = before.until /\ s.muted = before.muted
    \/ s.status \in {"member", "left"} /\ (Decision(before) = Left \/ Ended(before.until, now))

\* Telegram may have made the action's dated ban one for good: its end was near when
\* the row was written, which is after the call.
MayBeForGood(a, g) == rec[a].until # 0 /\ rec[a].until < row[a][g].applied + MinTerm

\* An undo call that lands on what the run saw, of an action whose call did so too,
\* replaces what the action left there and nobody's later decision, except one for
\* good that may be the action's own; and it puts back what the action had replaced,
\* with its own end (decideStaffUndo).
UndoPutsBack ==
    [][\A c \in Cards, g \in Groups :
            LandsNow(c, g) /\ Undo(c) /\ {<<c, g>>, <<card[c].of, g>>} \cap overtaken = {}
                => LET a == card[c].of
                       call == hist[a][g]
                   IN /\ \/ Decision(tg[g]) = Decision(call.left)
                         \/ tg[g].until = 0 /\ MayBeForGood(a, g)
                      /\ PutsBack(call.before, tg'[g])]_vars

\* Of all the undo cards of an action one makes calls at most, on any replica, also
\* where a claim was given back in between (ClaimUndo, ReleaseUndo).
OneUndo ==
    \A c, d \in Cards :
        Undo(c) /\ Undo(d) /\ card[c].of = card[d].of
            /\ (\E g \in Groups : Called(c, g)) /\ (\E g \in Groups : Called(d, g))
        => c = d

\* A closed record tells of every group what happened there: a group that is done was
\* called on and has the state it replaced, and one that is skipped was left alone.
RecordIsTrue ==
    \A c \in Cards : rec[c].finished =>
        \A g \in Groups :
            /\ row[c][g].outcome # "pending"
            /\ row[c][g].outcome = "done" =>
                /\ Called(c, g)
                /\ <<c, g>> \in overtaken \/ row[c][g].prior = hist[c][g].before
            /\ row[c][g].outcome = "skipped" => ~Called(c, g)
=============================================================================

------------------------------ MODULE Lockdown ------------------------------
(***************************************************************************)
(* The lockdowns of one group: the rows of chat_lockdowns, the group's     *)
(* live permissions at Telegram, and everyone who moves them: the handlers *)
(* that start a lockdown (Starters), the ones that lift it (Lifters) and   *)
(* the worker replicas that settle a start that stopped half way.  A step  *)
(* is one database statement, one Telegram call or one answer; a handler   *)
(* may stop between any two.                                               *)
(***************************************************************************)
EXTENDS Naturals

CONSTANTS
    Starters,    \* handlers inside startLockdownRow (/lockdown, the triggers)
    Lifters,     \* handlers inside liftLockdownRow (/unlockdown, the buttons)
    Workers,     \* lockdown workers, one per replica
    MaxRows,     \* bound: lockdowns the group ever has
    MaxFaults,   \* bound: crashes, failed calls and failed writes in all
    Overlap      \* TRUE: starts and lifts of the group interleave freely;
                 \* FALSE: each runs to its end before the next begins

ASSUME MaxRowsAssumption == MaxRows \in Nat

ASSUME MaxFaultsAssumption == MaxFaults \in Nat

ASSUME ActorsAssumption ==
    /\ Starters \cap Lifters = {}
    /\ Starters \cap Workers = {}
    /\ Overlap \in BOOLEAN

VARIABLES
    rows,        \* chat_lockdowns, by ID
    perm,        \* the group's default permissions at Telegram
    call,        \* call[a]: the setChatPermissions request of handler a
    starter,     \* starter[s]: where s is, its row and its snapshot
    lifter,      \* lifter[l]: where l is and the row it read
    settler,     \* settler[a]: a settle in progress, by a worker or a starter
    faults       \* faults the environment has spent

vars == <<rows, perm, call, starter, lifter, settler, faults>>

Rows == 1..MaxRows
Callers == Starters \cup Lifters
Settlers == Workers \cup Starters

\* What the code tells apart: the locked set, the group's own set, and a set
\* an administrator put there by hand.
Perms == {"open", "custom", "locked"}

RowStates == {"none", "active", "lifting", "lifted", "deleted"}
StarterPcs == {"idle", "settle", "reread", "snapshot", "insert", "lock",
               "locking", "refused", "confirm"}
LifterPcs == {"idle", "restore", "restoring", "record", "finish"}

NoCall == [at |-> "none", set |-> "open"]
IdleStarter == [pc |-> "idle", rid |-> 0, snap |-> "open"]
IdleLifter == [pc |-> "idle", rid |-> 0]
IdleSettler == [pc |-> "idle", rid |-> 0, same |-> FALSE]

LockdownRow == [state : RowStates, lockedAt : BOOLEAN, pre : Perms, old : BOOLEAN]
Call == [at : {"none", "sent", "applied"}, set : Perms]
Starter == [pc : StarterPcs, rid : 0..MaxRows, snap : Perms]
Lifter == [pc : LifterPcs, rid : 0..MaxRows]
Settler == [pc : {"idle", "decide"}, rid : 0..MaxRows, same : BOOLEAN]

-----------------------------------------------------------------------------
\* The repository: each operator is one statement on chat_lockdowns.

ActiveRows == {r \in Rows : rows[r].state = "active"}

Unconfirmed(r) == rows[r].state = "active" /\ ~rows[r].lockedAt

\* The insert, refused by uk_chat_lockdowns_active while a row is active.
StartRow(r, pre) ==
    /\ ActiveRows = {}
    /\ rows[r].state = "none" /\ \A q \in 1..(r - 1) : rows[q].state # "none"
    /\ rows' = [rows EXCEPT ![r] = [state |-> "active", lockedAt |-> FALSE,
                                    pre |-> pre, old |-> FALSE]]

ConfirmLocked(r) ==
    rows' = IF Unconfirmed(r) THEN [rows EXCEPT ![r].lockedAt = TRUE] ELSE rows

\* Mutations of the delete: a state the table's check constraint does not know,
\* no condition on locked_at, the condition on locked_at the wrong way round.
DeleteMisnamed(r) ==
    rows' = IF Unconfirmed(r) THEN [rows EXCEPT ![r].state = "dropped"] ELSE rows

DeleteActive(r) ==
    rows' = IF rows[r].state = "active" THEN [rows EXCEPT ![r].state = "deleted"] ELSE rows

DeleteConfirmed(r) ==
    rows' = IF rows[r].state = "active" /\ rows[r].lockedAt
            THEN [rows EXCEPT ![r].state = "deleted"] ELSE rows

DeleteUnconfirmed(r) ==
    rows' = IF Unconfirmed(r) THEN [rows EXCEPT ![r].state = "deleted"] ELSE rows

TouchLockdown(r) == rows' = [rows EXCEPT ![r].old = FALSE]

-----------------------------------------------------------------------------
\* The environment's budget, and who is in the middle of what.

Fault == faults < MaxFaults /\ faults' = faults + 1

NoFault == faults' = faults

InFlight(a) == call[a].at = "sent"

Starting(s) == starter[s].pc # "idle" \/ InFlight(s)

Lifting(l) == lifter[l].pc # "idle" \/ InFlight(l)

NoStartRunning == \A s \in Starters : ~Starting(s)

AloneToStart == Overlap \/ \A l \in Lifters : ~Lifting(l)

AloneToLift(l) ==
    Overlap \/ /\ NoStartRunning
               /\ \A k \in Lifters \ {l} : ~Lifting(k)

\* The handler of a waits for the answer to its setChatPermissions.
Waiting(a) ==
    \/ a \in Starters /\ starter[a].pc = "locking"
    \/ a \in Lifters /\ lifter[a].pc = "restoring"

StarterGoes(s, pc) == starter' = [starter EXCEPT ![s].pc = pc]

StarterEnds(s) == starter' = [starter EXCEPT ![s] = IdleStarter]

LifterGoes(l, pc) == lifter' = [lifter EXCEPT ![l].pc = pc]

LifterEnds(l) == lifter' = [lifter EXCEPT ![l] = IdleLifter]

SettlerEnds(a) == settler' = [settler EXCEPT ![a] = IdleSettler]

Send(a, set) == call' = [call EXCEPT ![a] = [at |-> "sent", set |-> set]]

Clear(a) == call' = [call EXCEPT ![a] = NoCall]

-----------------------------------------------------------------------------
\* Starting a lockdown.

\* /lockdown reads the active row: none, it starts one; one that is unconfirmed
\* and past the grace, it settles first.  Any other row is reported and nothing
\* changes.
LockdownCommand(s) ==
    /\ starter[s].pc = "idle" /\ ~InFlight(s) /\ AloneToStart
    /\ \/ ActiveRows = {} /\ StarterGoes(s, "snapshot")
       \/ \E r \in ActiveRows :
            /\ Unconfirmed(r) /\ rows[r].old
            /\ starter' = [starter EXCEPT ![s].pc = "settle", ![s].rid = r]
    /\ NoFault
    /\ UNCHANGED <<rows, perm, call, lifter, settler>>

LockdownReread(s) ==
    /\ starter[s].pc = "reread"
    /\ IF ActiveRows = {} THEN StarterGoes(s, "snapshot") ELSE StarterEnds(s)
    /\ NoFault
    /\ UNCHANGED <<rows, perm, call, lifter, settler>>

\* getChat: the permissions a lift will put back.
Snapshot(s) ==
    /\ starter[s].pc = "snapshot"
    /\ \/ /\ NoFault
          /\ starter' = [starter EXCEPT ![s].pc = "insert", ![s].snap = perm]
       \/ Fault /\ StarterEnds(s)
    /\ UNCHANGED <<rows, perm, call, lifter, settler>>

\* The loser of the insert reports the row that is active.  (It also ends here
\* when the MaxRows rows of the instance are used up.)
Insert(s) ==
    /\ starter[s].pc = "insert"
    /\ \/ \E r \in Rows :
            /\ StartRow(r, starter[s].snap)
            /\ starter' = [starter EXCEPT ![s].pc = "lock", ![s].rid = r]
            /\ NoFault
       \/ /\ ActiveRows # {} \/ \A r \in Rows : rows[r].state # "none"
          /\ StarterEnds(s) /\ NoFault /\ UNCHANGED rows
       \/ Fault /\ StarterEnds(s) /\ UNCHANGED rows
    /\ UNCHANGED <<perm, call, lifter, settler>>

SendLock(s) ==
    /\ starter[s].pc = "lock"
    /\ Send(s, "locked") /\ StarterGoes(s, "locking")
    /\ NoFault
    /\ UNCHANGED <<rows, perm, lifter, settler>>

\* Telegram answered true.
LockAnswered(s) ==
    /\ starter[s].pc = "locking" /\ call[s].at = "applied"
    /\ Clear(s) /\ StarterGoes(s, "confirm")
    /\ NoFault
    /\ UNCHANGED <<rows, perm, lifter, settler>>

\* A 4xx answer: the request was not applied.
LockRefused(s) ==
    /\ starter[s].pc = "locking" /\ InFlight(s)
    /\ Fault
    /\ Clear(s) /\ StarterGoes(s, "refused")
    /\ UNCHANGED <<rows, perm, lifter, settler>>

\* Mutation: a lost answer is taken for a refusal.
LockUnknownDeletes(s) ==
    /\ starter[s].pc = "locking"
    /\ Fault
    /\ DeleteUnconfirmed(starter[s].rid)
    /\ IF InFlight(s) THEN UNCHANGED call ELSE Clear(s)
    /\ StarterEnds(s)
    /\ UNCHANGED <<perm, lifter, settler>>

\* A timeout, a 5xx or a lost answer: the request was applied, is applied later
\* or never is.  The unconfirmed row is kept.
LockUnknown(s) ==
    /\ starter[s].pc = "locking"
    /\ Fault
    /\ IF InFlight(s) THEN UNCHANGED call ELSE Clear(s)
    /\ StarterEnds(s)
    /\ UNCHANGED <<rows, perm, lifter, settler>>

RemoveRefused(s) ==
    /\ starter[s].pc = "refused"
    /\ \/ DeleteUnconfirmed(starter[s].rid) /\ NoFault
       \/ UNCHANGED rows /\ Fault
    /\ StarterEnds(s)
    /\ UNCHANGED <<perm, call, lifter, settler>>

\* Confirmed, or (both tries failed) left for the settle.
ConfirmStart(s) ==
    /\ starter[s].pc = "confirm"
    /\ \/ ConfirmLocked(starter[s].rid) /\ NoFault
       \/ UNCHANGED rows /\ Fault
    /\ StarterEnds(s)
    /\ UNCHANGED <<perm, call, lifter, settler>>

-----------------------------------------------------------------------------
\* Settling a start that stopped half way.

MaySettle(a, r) ==
    /\ settler[a].pc = "idle"
    /\ \/ a \in Workers /\ Unconfirmed(r) /\ rows[r].old
       \/ a \in Starters /\ starter[a].pc = "settle" /\ starter[a].rid = r

\* The settle compares the live permissions with the locked set, or cannot read
\* them: then the row waits another grace, and a command is refused.
SettleRead(a, r) ==
    /\ MaySettle(a, r)
    /\ \/ /\ NoFault
          /\ settler' = [settler EXCEPT ![a] = [pc |-> "decide", rid |-> r,
                                                same |-> perm = "locked"]]
          /\ UNCHANGED <<rows, starter>>
       \/ /\ Fault
          /\ TouchLockdown(r)
          /\ IF a \in Starters THEN StarterEnds(a) ELSE UNCHANGED starter
          /\ UNCHANGED settler
    /\ UNCHANGED <<perm, call, lifter>>

\* Mutation: the row of a group that is locked is deleted, the other confirmed.
SettleDecideSwapped(a) ==
    /\ settler[a].pc = "decide"
    /\ SettlerEnds(a)
    /\ \/ /\ NoFault
          /\ IF settler[a].same THEN DeleteUnconfirmed(settler[a].rid)
                                ELSE ConfirmLocked(settler[a].rid)
          /\ IF a \in Starters THEN StarterGoes(a, "reread") ELSE UNCHANGED starter
       \/ /\ Fault
          /\ IF a \in Starters THEN StarterEnds(a) ELSE UNCHANGED starter
          /\ UNCHANGED rows
    /\ UNCHANGED <<perm, call, lifter>>

\* Both writes are conditional on the row being unconfirmed still.
SettleDecide(a) ==
    /\ settler[a].pc = "decide"
    /\ SettlerEnds(a)
    /\ \/ /\ NoFault
          /\ IF settler[a].same THEN ConfirmLocked(settler[a].rid)
                                ELSE DeleteUnconfirmed(settler[a].rid)
          /\ IF a \in Starters THEN StarterGoes(a, "reread") ELSE UNCHANGED starter
       \/ /\ Fault
          /\ IF a \in Starters THEN StarterEnds(a) ELSE UNCHANGED starter
          /\ UNCHANGED rows
    /\ UNCHANGED <<perm, call, lifter>>

-----------------------------------------------------------------------------
\* Lifting a lockdown.

\* The lifter reads the active row, confirmed or not.  With no active row it
\* reports that there is nothing to lift or that a lift is running.
LiftCommand(l) ==
    /\ lifter[l].pc = "idle" /\ ~InFlight(l) /\ AloneToLift(l)
    /\ \E r \in ActiveRows :
          lifter' = [lifter EXCEPT ![l] = [pc |-> "restore", rid |-> r]]
    /\ NoFault
    /\ UNCHANGED <<rows, perm, call, starter, settler>>

SendRestore(l) ==
    /\ lifter[l].pc = "restore"
    /\ Send(l, rows[lifter[l].rid].pre) /\ LifterGoes(l, "restoring")
    /\ NoFault
    /\ UNCHANGED <<rows, perm, starter, settler>>

RestoreAnswered(l) ==
    /\ lifter[l].pc = "restoring" /\ call[l].at = "applied"
    /\ Clear(l) /\ LifterGoes(l, "record")
    /\ NoFault
    /\ UNCHANGED <<rows, perm, starter, settler>>

\* Mutation: the lift is recorded whatever became of the restore.
RestoreFailedRecords(l) ==
    /\ lifter[l].pc = "restoring"
    /\ Fault
    /\ (InFlight(l) /\ UNCHANGED call) \/ Clear(l)
    /\ LifterGoes(l, "record")
    /\ UNCHANGED <<rows, perm, starter, settler>>

\* Any error: refused, or not known to have been applied.  The row stays active.
RestoreFailed(l) ==
    /\ lifter[l].pc = "restoring"
    /\ Fault
    /\ (InFlight(l) /\ UNCHANGED call) \/ Clear(l)
    /\ LifterEnds(l)
    /\ UNCHANGED <<rows, perm, starter, settler>>

\* The one conditional update that records a lift.  Another lifter may have won,
\* and a failed write leaves the lockdown active.
BeginLift(l) ==
    /\ lifter[l].pc = "record"
    /\ LET r == lifter[l].rid
       IN \/ /\ rows[r].state = "active" /\ NoFault
             /\ rows' = [rows EXCEPT ![r].state = "lifting"]
             /\ LifterGoes(l, "finish")
          \/ rows[r].state # "active" /\ NoFault /\ LifterEnds(l) /\ UNCHANGED rows
          \/ Fault /\ LifterEnds(l) /\ UNCHANGED rows
    /\ UNCHANGED <<perm, call, starter, settler>>

\* The lift ends at once when no joiner is left to handle.
FinishAtOnce(l) ==
    /\ lifter[l].pc = "finish"
    /\ LET r == lifter[l].rid
       IN \/ rows[r].state = "lifting" /\ rows' = [rows EXCEPT ![r].state = "lifted"]
          \/ UNCHANGED rows
    /\ LifterEnds(l)
    /\ NoFault
    /\ UNCHANGED <<perm, call, starter, settler>>

\* The worker ends it once its joiners are handled (module LockdownJoiners).
FinishLift(r) ==
    /\ rows[r].state = "lifting"
    /\ rows' = [rows EXCEPT ![r].state = "lifted"]
    /\ NoFault
    /\ UNCHANGED <<perm, call, starter, lifter, settler>>

-----------------------------------------------------------------------------
\* Telegram, time, people and crashes.

TelegramApplies(a) ==
    /\ InFlight(a)
    /\ perm' = call[a].set
    /\ IF Waiting(a) THEN call' = [call EXCEPT ![a].at = "applied"] ELSE Clear(a)
    /\ NoFault
    /\ UNCHANGED <<rows, starter, lifter, settler>>

\* A request nobody waits for may never be applied.
TelegramDrops(a) ==
    /\ InFlight(a) /\ ~Waiting(a)
    /\ Clear(a)
    /\ NoFault
    /\ UNCHANGED <<rows, perm, starter, lifter, settler>>

\* The grace of an unconfirmed row runs out.  It is one minute and a Telegram
\* call takes ten seconds at most, so no start that saw the group before the row
\* was written, nor the row's own, is still running by then.
GraceEnds(r) ==
    /\ Unconfirmed(r) /\ ~rows[r].old
    /\ NoStartRunning
    /\ rows' = [rows EXCEPT ![r].old = TRUE]
    /\ NoFault
    /\ UNCHANGED <<perm, call, starter, lifter, settler>>

AdminChangesPermissions ==
    /\ perm # "custom" /\ perm' = "custom"
    /\ NoFault
    /\ UNCHANGED <<rows, call, starter, lifter, settler>>

StarterStops(s) ==
    /\ starter[s].pc # "idle"
    /\ Fault
    /\ StarterEnds(s)
    /\ SettlerEnds(s)
    /\ UNCHANGED <<rows, perm, call, lifter>>

LifterStops(l) ==
    /\ lifter[l].pc # "idle"
    /\ Fault
    /\ LifterEnds(l)
    /\ UNCHANGED <<rows, perm, call, starter, settler>>

WorkerStops(w) ==
    /\ settler[w].pc # "idle"
    /\ Fault
    /\ SettlerEnds(w)
    /\ UNCHANGED <<rows, perm, call, starter, lifter>>

-----------------------------------------------------------------------------
Init ==
    /\ rows = [r \in Rows |-> [state |-> "none", lockedAt |-> FALSE,
                               pre |-> "open", old |-> FALSE]]
    /\ perm = "open"
    /\ call = [a \in Callers |-> NoCall]
    /\ starter = [s \in Starters |-> IdleStarter]
    /\ lifter = [l \in Lifters |-> IdleLifter]
    /\ settler = [a \in Settlers |-> IdleSettler]
    /\ faults = 0

StarterStep(s) ==
    \/ LockdownReread(s) \/ Snapshot(s) \/ Insert(s) \/ SendLock(s)
    \/ LockAnswered(s) \/ LockRefused(s) \/ LockUnknown(s)
    \/ RemoveRefused(s) \/ ConfirmStart(s)

LifterStep(l) ==
    \/ SendRestore(l) \/ RestoreAnswered(l) \/ RestoreFailed(l)
    \/ BeginLift(l) \/ FinishAtOnce(l)

SettleStep(a) == SettleDecide(a) \/ \E r \in Rows : SettleRead(a, r)

Next ==
    \/ \E s \in Starters : LockdownCommand(s) \/ StarterStep(s) \/ StarterStops(s)
    \/ \E l \in Lifters : LiftCommand(l) \/ LifterStep(l) \/ LifterStops(l)
    \/ \E a \in Settlers : SettleStep(a)
    \/ \E w \in Workers : WorkerStops(w)
    \/ \E a \in Callers : TelegramApplies(a) \/ TelegramDrops(a)
    \/ \E r \in Rows : GraceEnds(r) \/ FinishLift(r)
    \/ AdminChangesPermissions

\* A handler that runs reaches its end, a request is answered or dropped, time
\* passes and the workers tick; nobody has to type a command.
Fairness ==
    /\ \A s \in Starters : WF_vars(StarterStep(s))
    /\ \A l \in Lifters : WF_vars(LifterStep(l))
    /\ \A a \in Settlers : WF_vars(SettleStep(a))
    /\ \A a \in Callers : WF_vars(TelegramApplies(a))
    /\ \A r \in Rows : WF_vars(GraceEnds(r))

Spec == Init /\ [][Next]_vars

FairSpec == Spec /\ Fairness

-----------------------------------------------------------------------------
\* Every variable keeps its shape: chat_lockdowns holds only rows of the five
\* states, and every handler is at a step of its code.
TypeOK ==
    /\ rows \in [Rows -> LockdownRow]
    /\ perm \in Perms
    /\ call \in [Callers -> Call]
    /\ starter \in [Starters -> Starter]
    /\ lifter \in [Lifters -> Lifter]
    /\ settler \in [Settlers -> Settler]
    /\ faults \in 0..MaxFaults

\* A group is never left locked with no lockdown to lift: once every start ended
\* (told an answer, refused, timed out, or stopped half way), the locked set is
\* in force only while a row is active, the row that holds what to put back
\* (startLockdownRow keeps the row of a lock whose answer was lost, the settle
\* drops only a row whose lock never took effect, and a lift restores first).
EndedMeansUnlocked == perm = "locked" /\ NoStartRunning => ActiveRows # {}

\* What a running lockdown would put back is never the locked set itself: the
\* snapshot of startLockdownRow was taken of the group as it was unlocked, so
\* a lift can always give the group its own permissions back.
PreIsRestorable == \A r \in ActiveRows : rows[r].pre # "locked"

\* A lift is recorded only of a group that is not locked: the restore was
\* applied, and no lock came after it (the order in liftLockdownRow).
LiftOnlyUnlocked ==
    [][\A r \in Rows : rows[r].state = "active" /\ rows'[r].state = "lifting"
                        => perm # "locked"]_vars

\* No lockdown but the one a lift read runs when the restore reaches the group: none
\* starts between the read and the lift (so says applyLockdownLiftOf; the restore of
\* a second lifter, late, opens a group that was locked anew).
LiftHitsOnlyItsOwn ==
    [][\A l \in Lifters : Waiting(l) /\ call[l].at = "sent" /\ call'[l].at = "applied"
                          => ActiveRows \subseteq {lifter[l].rid}]_vars

\* A lockdown Telegram never confirmed does not stay so: its start confirms it
\* or removes it, a worker settles it from the live permissions, or it is
\* lifted, whatever stopped the handler that started it.
UnconfirmedSettles == \A r \in Rows : Unconfirmed(r) ~> ~Unconfirmed(r)

\* Where a row is in its life, for the abstract specification.
Phase(r) ==
    CASE rows[r].state = "active" -> IF rows[r].lockedAt THEN "confirmed" ELSE "unconfirmed"
      [] rows[r].state = "deleted" -> "dropped"
      [] OTHER -> rows[r].state

Lifecycle == INSTANCE LockdownLifecycle WITH phase <- [r \in Rows |-> Phase(r)]

\* Whatever interleaves and fails, the rows keep the promise of
\* LockdownLifecycle: one running lockdown, a confirmed one ends only by a lift,
\* and a lift is recorded once (Start, ConfirmLocked, DeleteUnconfirmed,
\* BeginLift and FinishLift as conditional statements).
LifecycleSpec == Lifecycle!Spec
=============================================================================

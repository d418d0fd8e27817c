-------------------------- MODULE LockdownJoiners --------------------------
(***************************************************************************)
(* The people who join during one confirmed lockdown: the joiner rows of   *)
(* chat_lockdown_joiners, what Telegram holds of each person, the join     *)
(* guard that records the updates it is given and the worker replicas that *)
(* ban, decline and, once the lift began, unban.  Module Lockdown has the  *)
(* lockdown row itself; here it is confirmed from the start and only its   *)
(* lift is left.  A step is one database statement or one Telegram call.   *)
(***************************************************************************)
EXTENDS Naturals

CONSTANTS
    Users,           \* people who join, ask to join, leave
    Workers,         \* lockdown workers, one per replica
    MaxUpdates,      \* bound: updates Telegram delivers about joins
    MaxAttempts,     \* lockdownMaxAttempts: failed calls before one is final
    MaxFaults,       \* bound: crashes, failed calls, writes and reads in all
    Hazards          \* what the instance may meet beyond that, see below

(***************************************************************************)
(*  lost outcome    a ban takes effect and the worker does not learn it,   *)
(*                  or does not get to record it                           *)
(*  late delivery   an update about a join comes more than the dedupe      *)
(*                  window after its row last changed                      *)
(*  stale batch     a row is taken back for a new event while a worker has *)
(*                  the older version of it in the batch it listed         *)
(*  quick return    someone leaves and asks to join again while their row  *)
(*                  waits for its ban                                      *)
(*  slow call       a worker waits longer for a call than its claim lasts  *)
(***************************************************************************)
ASSUME HazardsAssumption ==
    Hazards \subseteq {"lost outcome", "late delivery", "stale batch",
                       "quick return", "slow call"}

ASSUME BoundsAssumption ==
    /\ MaxUpdates \in Nat
    /\ MaxAttempts \in Nat \ {0}
    /\ MaxFaults \in Nat

VARIABLES
    ld,              \* the state of the lockdown row
    tg,              \* tg[u]: what u is to the group, at Telegram
    rows,            \* rows[u]: the joiner row of u, NoRow if there is none
    guard,           \* guard[d]: update d, and where its handler is
    worker,          \* worker[w]: where w is in its cycle, and its batch
    faults           \* faults the environment has spent

vars == <<ld, tg, rows, guard, worker, faults>>

Updates == 1..MaxUpdates

\* A ban's end date: the number of the update whose handler computed it, so two
\* dates are apart unless they are one.  0 is no date: a ban placed by hand.
Dates == 0..MaxUpdates

Paths == {"member", "service", "request"}

ReclaimStates == {"banned", "ban_failed", "exempt", "declined",
                  "decline_failed", "cancelled"}

UnfinishedStates == {"pending", "acting", "banned", "unbanning"}

JoinerStates == ReclaimStates \cup UnfinishedStates \cup {"unbanned", "kept", "unban_failed"}

\* fresh: changed within the dedupe window; stale: claimed two minutes ago.
JoinerRow == [id : Updates, state : JoinerStates, path : Paths, until : Dates,
              attempts : Nat, fresh : BOOLEAN, stale : BOOLEAN]

NoRow == [id |-> 0, state |-> "none", path |-> "member", until |-> 0,
          attempts |-> 0, fresh |-> FALSE, stale |-> FALSE]

GuardPcs == {"unsent", "sent", "record", "existing", "recheck", "withdraw", "done"}

WorkerPcs == {"release", "list", "bans", "look", "ban", "decline", "record",
              "lifts", "cancel", "unlist", "unbans", "check", "unban", "settle", "finish"}

Outcomes == {"done", "kept", "retry", "failed"}

NoBatch == [u \in Users |-> NoRow]

Idle == [pc |-> "release", batch |-> NoBatch, on |-> {}, res |-> "done"]

-----------------------------------------------------------------------------
\* The environment's budget, and what the people of the group are.

Fault == faults < MaxFaults /\ faults' = faults + 1

NoFault == faults' = faults

Left == [status |-> "left", until |-> 0]
Asking == [status |-> "asking", until |-> 0]
Member == [status |-> "member", until |-> 0]
Kicked(until) == [status |-> "kicked", until |-> until]

IsKicked(u) == tg[u].status = "kicked"

\* Kicked on this very date: the lockdown's own ban of the row that stores it.
isLockdownBan(u, until) == IsKicked(u) /\ until # 0 /\ tg[u].until = until

\* A ban with an end date is a lockdown's; every other path bans for good.
UnderLockdownBan(u) == IsKicked(u) /\ tg[u].until # 0

-----------------------------------------------------------------------------
\* The repository: each operator is one statement on chat_lockdown_joiners.

Matches(u, id, states) == rows[u].id = id /\ rows[u].state \in states

\* A state written now: the row is fresh and its claim, if any, is new.
InState(row, state) == [row EXCEPT !.state = state, !.fresh = TRUE, !.stale = FALSE]

\* Mutation: the move does not look at the state it moves from.
MoveAnyJoiner(u, id, from, to, count) ==
    LET attempts == rows[u].attempts + (IF count THEN 1 ELSE 0)
    IN rows' = IF rows[u].id # id THEN rows
               ELSE [rows EXCEPT ![u] = [InState(@, to) EXCEPT !.attempts = attempts]]

MoveJoiner(u, id, from, to, count) ==
    LET attempts == IF from = "acting" /\ to = "banned" THEN 0
                    ELSE rows[u].attempts + (IF count THEN 1 ELSE 0)
    IN rows' = IF ~Matches(u, id, {from}) THEN rows
               ELSE [rows EXCEPT ![u] = [InState(@, to) EXCEPT !.attempts = attempts]]

DeletePendingJoin(u, id) ==
    rows' = IF Matches(u, id, {"pending"}) THEN [rows EXCEPT ![u] = NoRow] ELSE rows

\* Mutations: a state the table's check constraint does not know, and only the
\* acting rows.
CancelMisnamed ==
    rows' = [u \in Users |-> IF rows[u].state = "pending"
                             THEN InState(rows[u], "canceled") ELSE rows[u]]

CancelActing ==
    rows' = [u \in Users |-> IF rows[u].state = "acting"
                             THEN InState(rows[u], "cancelled") ELSE rows[u]]

CancelPending ==
    rows' = [u \in Users |-> IF rows[u].state = "pending"
                             THEN InState(rows[u], "cancelled") ELSE rows[u]]

\* Mutation: a claim for an unban is never given back.
ReleasedUnlessUnbanning(row) ==
    CASE row.stale /\ row.state = "acting" /\ ld = "active" -> InState(row, "pending")
      [] row.stale /\ row.state = "acting" /\ ld = "lifting" ->
            InState(row, IF row.path = "request" THEN "cancelled" ELSE "banned")
      [] OTHER -> row

\* What becomes of a stale claim depends on the lockdown's state.
Released(row) ==
    CASE row.stale /\ row.state = "unbanning" -> InState(row, "banned")
      [] row.stale /\ row.state = "acting" /\ ld = "active" -> InState(row, "pending")
      [] row.stale /\ row.state = "acting" /\ ld = "lifting" ->
            InState(row, IF row.path = "request" THEN "cancelled" ELSE "banned")
      [] OTHER -> row

ReleaseStaleClaims == rows' = [u \in Users |-> Released(rows[u])]

\* Mutations: the lift does not wait for a row that is acted on, or is banned.
FinishLiftEarly ==
    ld' = IF ld = "lifting" /\ \A u \in Users : rows[u].state \notin UnfinishedStates \ {"acting"}
          THEN "lifted" ELSE ld

FinishLift ==
    ld' = IF ld = "lifting" /\ \A u \in Users : rows[u].state \notin UnfinishedStates
          THEN "lifted" ELSE ld

-----------------------------------------------------------------------------
\* The join guard: one handler per update.

GuardGoes(d, pc) == guard' = [guard EXCEPT ![d].pc = pc]

\* What the handler read is forgotten with it.
GuardEnds(d) ==
    guard' = [guard EXCEPT ![d].pc = "done", ![d].seen = NoRow, ![d].looks = 0]

\* A live administrator's doing is exempt; everyone else is banned, and a
\* request is declined.
Exempt(d) == guard[d].path # "request" /\ guard[d].by = "admin"

\* The row update d would write.
RowOf(d) ==
    [id |-> d, state |-> IF Exempt(d) THEN "exempt" ELSE "pending",
     path |-> guard[d].path,
     until |-> IF Exempt(d) \/ guard[d].path = "request" THEN 0 ELSE d,
     attempts |-> 0, fresh |-> TRUE, stale |-> FALSE]

\* The lockdown is read, and the performer's live status, which counts for
\* nothing when it cannot be read.  An unreadable lockdown lets a joiner in and
\* leaves a request pending.
GuardReads(d) ==
    /\ guard[d].pc = "sent"
    /\ \/ ld # "active" /\ GuardEnds(d) /\ NoFault
       \/ ld = "active" /\ GuardGoes(d, "record") /\ NoFault
       \/ /\ ld = "active" /\ Exempt(d) /\ Fault
          /\ guard' = [guard EXCEPT ![d].pc = "record", ![d].by = "self"]
       \/ GuardEnds(d) /\ Fault
    /\ UNCHANGED <<ld, tg, rows, worker>>

\* Mutation: an insert that meets a row writes over it.
RecordJoinUpserts(d) ==
    /\ guard[d].pc = "record"
    /\ \/ /\ NoFault
          /\ rows' = [rows EXCEPT ![guard[d].user] = RowOf(d)]
          /\ IF Exempt(d) THEN GuardEnds(d)
             ELSE guard' = [guard EXCEPT ![d].pc = "recheck", ![d].seen = NoRow]
       \/ Fault /\ GuardEnds(d) /\ UNCHANGED rows
    /\ UNCHANGED <<ld, tg, worker>>

\* The insert, or the row that is there already.
RecordJoin(d) ==
    /\ guard[d].pc = "record"
    /\ LET u == guard[d].user
       IN \/ /\ rows[u] = NoRow /\ NoFault
             /\ rows' = [rows EXCEPT ![u] = RowOf(d)]
             /\ IF Exempt(d) THEN GuardEnds(d)
                ELSE guard' = [guard EXCEPT ![d].pc = "recheck", ![d].seen = NoRow]
          \/ /\ rows[u] # NoRow /\ NoFault
             /\ guard' = [guard EXCEPT ![d].pc = "existing", ![d].seen = rows[u]]
             /\ UNCHANGED rows
          \/ Fault /\ GuardEnds(d) /\ UNCHANGED rows
    /\ UNCHANGED <<ld, tg, worker>>

\* No worker has an older version of u's row in its batch.
NotListed(u) == \A w \in Workers : worker[w].batch[u] = NoRow

\* The row is still as old as the cut-off asks for.
OldEnough(d, row) ==
    CASE guard[d].path = "request" -> TRUE
      [] guard[d].seen.path = "request" -> [row EXCEPT !.fresh = guard[d].seen.fresh] = guard[d].seen
      [] OTHER -> ~row.fresh

\* lockdownRecordLooks: how often a handler looks at the row in all.
MaxLooks == 3

\* Won, the row is the new join's from here on; lost, it is looked at again.
ReclaimJoin(d) ==
    LET u == guard[d].user
        won == Matches(u, guard[d].seen.id, ReclaimStates) /\ OldEnough(d, rows[u])
    IN /\ NotListed(u) \/ "stale batch" \in Hazards
       /\ IF won
          THEN /\ rows' = [rows EXCEPT ![u] = [RowOf(d) EXCEPT !.id = guard[d].seen.id]]
               /\ IF Exempt(d) THEN GuardEnds(d) ELSE GuardGoes(d, "recheck")
          ELSE /\ IF guard[d].looks = MaxLooks - 1 THEN GuardEnds(d)
                  ELSE guard' = [guard EXCEPT ![d].pc = "record", ![d].looks = @ + 1]
               /\ UNCHANGED rows

\* A join of a row a request left is another event; so is a request, or a later
\* join, of a row that is finished with.
TakesBack(d) ==
    LET seen == guard[d].seen
    IN /\ seen.state \in ReclaimStates
       /\ \/ guard[d].path = "request" \/ seen.path = "request"
          \/ ~seen.fresh

\* A member update by an administrator turns a row exempt while nobody works on it.
MakesExempt(d) ==
    guard[d].path = "member" /\ Exempt(d) /\ guard[d].seen.state = "pending"

\* Any other update about a row is the same event once more.
ExistingJoin(d) ==
    /\ guard[d].pc = "existing"
    /\ \/ TakesBack(d) /\ ReclaimJoin(d) /\ NoFault
       \/ /\ MakesExempt(d) /\ GuardEnds(d) /\ NoFault
          /\ MoveJoiner(guard[d].user, guard[d].seen.id, "pending", "exempt", FALSE)
       \/ ~TakesBack(d) /\ ~MakesExempt(d) /\ GuardEnds(d) /\ NoFault /\ UNCHANGED rows
       \/ (TakesBack(d) \/ MakesExempt(d)) /\ GuardEnds(d) /\ Fault /\ UNCHANGED rows
    /\ UNCHANGED <<ld, tg, worker>>

\* A lift that began between the read and the write makes the guard withdraw; an
\* unreadable lockdown keeps the row.
PendingHeld(d) ==
    /\ guard[d].pc = "recheck"
    /\ \/ ld = "active" /\ GuardEnds(d) /\ NoFault
       \/ ld # "active" /\ GuardGoes(d, "withdraw") /\ NoFault
       \/ GuardEnds(d) /\ Fault
    /\ UNCHANGED <<ld, tg, rows, worker>>

\* A new row is deleted, a reclaimed one cancelled.
Withdraw(d) ==
    /\ guard[d].pc = "withdraw"
    /\ LET u == guard[d].user
           seen == guard[d].seen
       IN \/ /\ NoFault
             /\ IF seen = NoRow THEN DeletePendingJoin(u, d)
                ELSE MoveJoiner(u, seen.id, "pending", "cancelled", FALSE)
          \/ Fault /\ UNCHANGED rows
    /\ GuardEnds(d)
    /\ UNCHANGED <<ld, tg, worker>>

GuardStops(d) ==
    /\ guard[d].pc \in {"record", "existing", "recheck", "withdraw"}
    /\ Fault
    /\ GuardEnds(d)
    /\ UNCHANGED <<ld, tg, rows, worker>>

-----------------------------------------------------------------------------
\* A worker's cycle.  The batch is what it listed; a row of it is claimed, worked
\* on (on = {u}) and taken off the batch, as it was when it was listed.

WorkerGoes(w, pc) == worker' = [worker EXCEPT ![w].pc = pc]

BatchOf(w) == {u \in Users : worker[w].batch[u] # NoRow}

WorkingOn(w, u) == u \in worker[w].on

\* The batch goes on with its next row, or the cycle with its next part.
TakeOff(w, u, pc, next) ==
    worker' = [worker EXCEPT ![w].pc = IF BatchOf(w) = {u} THEN next ELSE pc,
                             ![w].batch[u] = NoRow, ![w].on = {}, ![w].res = "done"]

\* The outcome of a call, for the write that records it.
Ends(w, pc, res) == worker' = [worker EXCEPT ![w].pc = pc, ![w].res = res]

\* A call that ended in an error: a rate limit or a shutdown costs no attempt.
EndsInError(w, pc) == Fault /\ \E res \in {"retry", "failed"} : Ends(w, pc, res)

Release(w) ==
    /\ worker[w].pc = "release" /\ WorkerGoes(w, "list")
    /\ \/ ReleaseStaleClaims /\ NoFault
       \/ UNCHANGED rows /\ Fault
    /\ UNCHANGED <<ld, tg, guard>>

\* The age of a row means nothing to the worker.
ListInState(w, state, pc, next) ==
    LET listed == [u \in Users |-> IF rows[u].state = state
                                   THEN [rows[u] EXCEPT !.fresh = FALSE] ELSE NoRow]
    IN worker' = [worker EXCEPT ![w].pc = IF listed = NoBatch THEN next ELSE pc,
                                ![w].batch = listed]

\* The pending rows, of an active lockdown only.
ListPending(w) ==
    /\ worker[w].pc = "list"
    /\ \/ ld = "active" /\ ListInState(w, "pending", "bans", "lifts") /\ NoFault
       \/ ld # "active" /\ WorkerGoes(w, "lifts") /\ NoFault
       \/ WorkerGoes(w, "lifts") /\ Fault
    /\ UNCHANGED <<ld, tg, rows, guard>>

\* Mutation: the claim does not ask for the state it claims from.
ClaimAnyJoiner(w, u, from, to, pc, next) ==
    \/ /\ rows[u].id = worker[w].batch[u].id /\ NoFault
       /\ rows' = [rows EXCEPT ![u] = InState(@, to)]
       /\ worker' = [worker EXCEPT ![w].pc = pc, ![w].on = {u}]
    \/ /\ \/ rows[u].id # worker[w].batch[u].id /\ NoFault
          \/ Fault
       /\ TakeOff(w, u, worker[w].pc, next) /\ UNCHANGED rows

\* One conditional update: won, the row is this worker's; lost (or the write
\* failed), it goes on to the next of its batch.
ClaimJoiner(w, u, from, to, pc, next) ==
    \/ /\ Matches(u, worker[w].batch[u].id, {from}) /\ NoFault
       /\ rows' = [rows EXCEPT ![u] = InState(@, to)]
       /\ worker' = [worker EXCEPT ![w].pc = pc, ![w].on = {u}]
    \/ /\ \/ ~Matches(u, worker[w].batch[u].id, {from}) /\ NoFault
          \/ Fault
       /\ TakeOff(w, u, worker[w].pc, next) /\ UNCHANGED rows

BanPending(w, u) ==
    /\ worker[w].pc = "bans" /\ u \in BatchOf(w)
    /\ ClaimJoiner(w, u, "pending", "acting",
                   IF worker[w].batch[u].path = "request" THEN "decline" ELSE "look",
                   "lifts")
    /\ UNCHANGED <<ld, tg, guard>>

\* Someone already kicked on another date is kept, and one kicked on the row's
\* own date is the ban whose answer was lost.
BanOneLooks(w, u) ==
    /\ worker[w].pc = "look" /\ WorkingOn(w, u)
    /\ LET row == worker[w].batch[u]
       IN \/ IsKicked(u) /\ NoFault /\ Ends(w, "record",
                IF isLockdownBan(u, row.until) THEN "done" ELSE "kept")
          \/ ~IsKicked(u) /\ NoFault /\ WorkerGoes(w, "ban")
          \/ EndsInError(w, "record")
    /\ UNCHANGED <<ld, tg, rows, guard>>

BanOneBans(w, u) ==
    /\ worker[w].pc = "ban" /\ WorkingOn(w, u)
    /\ LET banned == [tg EXCEPT ![u] = Kicked(worker[w].batch[u].until)]
       IN \/ tg' = banned /\ Ends(w, "record", "done") /\ NoFault
          \/ UNCHANGED tg /\ EndsInError(w, "record")
          \/ "lost outcome" \in Hazards /\ tg' = banned /\ EndsInError(w, "record")
    /\ UNCHANGED <<ld, rows, guard>>

\* A request that is gone counts as declined.
DeclineOne(w, u) ==
    /\ worker[w].pc = "decline" /\ WorkingOn(w, u)
    /\ tg' = IF tg[u] = Asking THEN [tg EXCEPT ![u] = Left] ELSE tg
    /\ Ends(w, "record", "done") /\ NoFault
    /\ UNCHANGED <<ld, rows, guard>>

DeclineFails(w, u) ==
    /\ worker[w].pc = "decline" /\ WorkingOn(w, u)
    /\ EndsInError(w, "record")
    /\ UNCHANGED <<ld, tg, rows, guard>>

LastAttempt(row) == row.attempts + 1 >= MaxAttempts

\* The state an outcome moves an acting row to, by the listed row.
BanOutcome(w, u) ==
    LET row == worker[w].batch[u]
        request == row.path = "request"
        res == worker[w].res
    IN CASE res = "done" -> IF request THEN "declined" ELSE "banned"
         [] res = "kept" -> "kept"
         [] res = "failed" /\ LastAttempt(row) -> IF request THEN "decline_failed" ELSE "ban_failed"
         [] OTHER -> "pending"

\* A ban took effect (or was seen) and its row does not say so yet.
Unrecorded(w, u) ==
    worker[w].pc = "record" /\ WorkingOn(w, u) /\ isLockdownBan(u, worker[w].batch[u].until)

\* The write, or its failure: then the row stays claimed until it is stale.
BanOneRecords(w, u) ==
    /\ worker[w].pc = "record" /\ WorkingOn(w, u)
    /\ \/ /\ NoFault
          /\ MoveJoiner(u, worker[w].batch[u].id, "acting", BanOutcome(w, u),
                        worker[w].res = "failed")
       \/ Fault /\ (Unrecorded(w, u) => "lost outcome" \in Hazards) /\ UNCHANGED rows
    /\ TakeOff(w, u, "bans", "lifts")
    /\ UNCHANGED <<ld, tg, guard>>

ListLifting(w) ==
    /\ worker[w].pc = "lifts"
    /\ \/ WorkerGoes(w, IF ld = "lifting" THEN "cancel" ELSE "release") /\ NoFault
       \/ WorkerGoes(w, "release") /\ Fault
    /\ UNCHANGED <<ld, tg, rows, guard>>

Cancel(w) ==
    /\ worker[w].pc = "cancel" /\ WorkerGoes(w, "unlist")
    /\ \/ CancelPending /\ NoFault
       \/ UNCHANGED rows /\ Fault
    /\ UNCHANGED <<ld, tg, guard>>

ListBanned(w) ==
    /\ worker[w].pc = "unlist"
    /\ \/ ListInState(w, "banned", "unbans", "finish") /\ NoFault
       \/ WorkerGoes(w, "release") /\ Fault
    /\ UNCHANGED <<ld, tg, rows, guard>>

UnbanBanned(w, u) ==
    /\ worker[w].pc = "unbans" /\ u \in BatchOf(w)
    /\ ClaimJoiner(w, u, "banned", "unbanning", "check", "finish")
    /\ UNCHANGED <<ld, tg, guard>>

\* Only the lockdown's own ban is lifted; anyone else is kept.
UnbanOneLooks(w, u) ==
    /\ worker[w].pc = "check" /\ WorkingOn(w, u)
    /\ LET own == isLockdownBan(u, worker[w].batch[u].until)
       IN \/ own /\ WorkerGoes(w, "unban") /\ NoFault
          \/ ~own /\ Ends(w, "settle", "kept") /\ NoFault
          \/ EndsInError(w, "settle")
    /\ UNCHANGED <<ld, tg, rows, guard>>

\* only_if_banned: a member is never removed.
UnbanOneUnbans(w, u) ==
    /\ worker[w].pc = "unban" /\ WorkingOn(w, u)
    /\ LET unbanned == IF IsKicked(u) THEN [tg EXCEPT ![u] = Left] ELSE tg
       IN \/ tg' = unbanned /\ Ends(w, "settle", "done") /\ NoFault
          \/ tg' \in {tg, unbanned} /\ EndsInError(w, "settle")
    /\ UNCHANGED <<ld, rows, guard>>

UnbanOutcome(w, u) ==
    LET res == worker[w].res
    IN CASE res = "done" -> "unbanned"
         [] res = "kept" -> "kept"
         [] res = "failed" /\ LastAttempt(worker[w].batch[u]) -> "unban_failed"
         [] OTHER -> "banned"

UnbanOneRecords(w, u) ==
    /\ worker[w].pc = "settle" /\ WorkingOn(w, u)
    /\ \/ /\ NoFault
          /\ MoveJoiner(u, worker[w].batch[u].id, "unbanning", UnbanOutcome(w, u),
                        worker[w].res = "failed")
       \/ Fault /\ UNCHANGED rows
    /\ TakeOff(w, u, "unbans", "finish")
    /\ UNCHANGED <<ld, tg, guard>>

Finish(w) ==
    /\ worker[w].pc = "finish" /\ WorkerGoes(w, "release")
    /\ \/ FinishLift /\ NoFault
       \/ UNCHANGED ld /\ Fault
    /\ UNCHANGED <<tg, rows, guard>>

\* A worker that stops leaves its claim behind; a restart begins with a release.
WorkerStops(w) ==
    /\ worker[w] # Idle
    /\ Fault
    /\ \A u \in Users : Unrecorded(w, u) => "lost outcome" \in Hazards
    /\ worker' = [worker EXCEPT ![w] = Idle]
    /\ UNCHANGED <<ld, tg, rows, guard>>

-----------------------------------------------------------------------------
\* The lift, which is over at once when nobody is left to handle.

BeginLift ==
    /\ ld = "active" /\ ld' = "lifting"
    /\ NoFault
    /\ UNCHANGED <<tg, rows, guard, worker>>

LifterFinishes ==
    /\ ld = "lifting" /\ FinishLift
    /\ NoFault
    /\ UNCHANGED <<tg, rows, guard, worker>>

-----------------------------------------------------------------------------
\* People, Telegram and time.

OnItsWay(u, paths) ==
    \E d \in Updates : /\ guard[d].pc \notin {"unsent", "done"}
                       /\ guard[d].user = u /\ guard[d].path \in paths

\* The handlers of a request end long before anyone approves it.
InOrder(u, paths) == ~OnItsWay(u, paths) \/ "late delivery" \in Hazards

\* Nothing is under way about u: no update, and no ban.
AtRest(u) ==
    ~OnItsWay(u, Paths) /\ NotListed(u) /\ rows[u].state \notin {"pending", "acting"}

Unsent(d) == guard[d].pc = "unsent" /\ \A c \in 1..(d - 1) : guard[c].pc # "unsent"

Sent(u, path, by) ==
    [pc |-> "sent", user |-> u, path |-> path, by |-> by, seen |-> NoRow, looks |-> 0]

\* Someone gets in: on their own, added by an administrator, or approved by one.
\* Telegram sends a member update, a service message, or both; the service
\* message of an approval names the person alone.
Arrives(u) ==
    \E d \in Updates : \E how \in {"alone", "added", "approved"} :
        LET by == IF how = "alone" THEN "self" ELSE "admin"
            member == Sent(u, "member", by)
            service == Sent(u, "service", IF how = "added" THEN "admin" ELSE "self")
        IN /\ Unsent(d)
           /\ InOrder(u, {"request"})
           /\ tg[u] = IF how = "approved" THEN Asking ELSE Left
           /\ tg' = [tg EXCEPT ![u] = Member]
           /\ \/ guard' = [guard EXCEPT ![d] = member]
              \/ guard' = [guard EXCEPT ![d] = service]
              \/ d < MaxUpdates /\ guard' = [guard EXCEPT ![d] = member, ![d + 1] = service]
           /\ NoFault
           /\ UNCHANGED <<ld, rows, worker>>

Requests(u) ==
    \E d \in Updates :
        /\ Unsent(d)
        /\ AtRest(u) \/ "quick return" \in Hazards
        /\ tg[u] = Left /\ tg' = [tg EXCEPT ![u] = Asking]
        /\ guard' = [guard EXCEPT ![d] = Sent(u, "request", "self")]
        /\ NoFault
        /\ UNCHANGED <<ld, rows, worker>>

\* An update whose handling was not confirmed to Telegram comes again (a request
\* is delivered once), but not into the handling of a later request.
Redelivered(d) ==
    \E c \in Updates :
        /\ guard[c].pc = "done" /\ guard[c].path # "request"
        /\ rows[guard[c].user].fresh \/ "late delivery" \in Hazards
        /\ InOrder(guard[c].user, {"request"})
        /\ Unsent(d)
        /\ guard' = [guard EXCEPT ![d] = Sent(guard[c].user, guard[c].path, guard[c].by)]
        /\ NoFault
        /\ UNCHANGED <<ld, tg, rows, worker>>

Leaves(u) ==
    /\ tg[u] = Member /\ tg' = [tg EXCEPT ![u] = Left]
    /\ NoFault
    /\ UNCHANGED <<ld, rows, guard, worker>>

\* A worker looked at u and its call is not out yet.
BetweenLookAndCall(u) ==
    \E w \in Workers : WorkingOn(w, u) /\ worker[w].pc \in {"ban", "unban"}

\* A ban placed by hand replaces whatever u was.  Telegram offers no call that
\* depends on what a look saw, so none is placed in between.
AdminBans(u) ==
    /\ tg[u] # Kicked(0) /\ tg' = [tg EXCEPT ![u] = Kicked(0)]
    /\ ~BetweenLookAndCall(u)
    /\ NoFault
    /\ UNCHANGED <<ld, rows, guard, worker>>

AdminUnbans(u) ==
    /\ IsKicked(u) /\ tg' = [tg EXCEPT ![u] = Left]
    /\ NoFault
    /\ UNCHANGED <<ld, rows, guard, worker>>

\* The dedupe window closes, long after every update about the join came.
WindowCloses(u) ==
    /\ rows[u].fresh /\ rows' = [rows EXCEPT ![u].fresh = FALSE]
    /\ InOrder(u, Paths)
    /\ NoFault
    /\ UNCHANGED <<ld, tg, guard, worker>>

\* A claim is stale after two minutes: one call takes ten seconds at most, the
\* pacer may wait a minute for a slot before each of its four tries.
ClaimExpires(u) ==
    /\ rows[u].state \in {"acting", "unbanning"} /\ ~rows[u].stale
    /\ (\A w \in Workers : ~WorkingOn(w, u)) \/ "slow call" \in Hazards
    /\ rows' = [rows EXCEPT ![u].stale = TRUE]
    /\ NoFault
    /\ UNCHANGED <<ld, tg, guard, worker>>

-----------------------------------------------------------------------------
\* people: what each of the users is to the group when the lockdown is confirmed.
InitWith(people) ==
    /\ ld = "active"
    /\ tg \in people
    /\ rows = [u \in Users |-> NoRow]
    /\ \E u \in Users : guard = [d \in Updates |-> [Sent(u, "member", "self") EXCEPT !.pc = "unsent"]]
    /\ worker = [w \in Workers |-> Idle]
    /\ faults = 0

Init == InitWith([Users -> {Left, Asking}])

GuardStep(d) ==
    \/ GuardReads(d) \/ RecordJoin(d) \/ ExistingJoin(d) \/ PendingHeld(d) \/ Withdraw(d)

WorkerHandles(w, u) ==
    \/ BanPending(w, u) \/ BanOneLooks(w, u) \/ BanOneBans(w, u)
    \/ DeclineOne(w, u) \/ DeclineFails(w, u) \/ BanOneRecords(w, u)
    \/ UnbanBanned(w, u) \/ UnbanOneLooks(w, u) \/ UnbanOneUnbans(w, u)
    \/ UnbanOneRecords(w, u)

WorkerStep(w) ==
    \/ Release(w) \/ ListPending(w) \/ ListLifting(w) \/ Cancel(w)
    \/ ListBanned(w) \/ Finish(w)
    \/ \E u \in Users : WorkerHandles(w, u)

Next ==
    \/ \E d \in Updates : GuardStep(d) \/ GuardStops(d) \/ Redelivered(d)
    \/ \E w \in Workers : WorkerStep(w) \/ WorkerStops(w)
    \/ BeginLift \/ LifterFinishes
    \/ \E u \in Users :
          \/ Arrives(u) \/ Requests(u) \/ Leaves(u) \/ AdminBans(u) \/ AdminUnbans(u)
          \/ WindowCloses(u) \/ ClaimExpires(u)

\* Handlers and workers run, and claims grow old; nobody has to join or to lift.
Fairness ==
    /\ \A d \in Updates : WF_vars(GuardStep(d))
    /\ \A w \in Workers : WF_vars(WorkerStep(w))
    /\ \A u \in Users : WF_vars(ClaimExpires(u))

Spec == Init /\ [][Next]_vars

FairSpec == Spec /\ Fairness

-----------------------------------------------------------------------------
\* Every variable keeps its shape.
TypeOK ==
    /\ ld \in {"active", "lifting", "lifted"}
    /\ tg \in [Users -> {Left, Asking, Member} \cup {Kicked(t) : t \in Dates}]
    /\ rows \in [Users -> JoinerRow \cup {NoRow}]
    /\ guard \in [Updates -> [pc : GuardPcs, user : Users, path : Paths,
                              by : {"self", "admin"}, seen : JoinerRow \cup {NoRow},
                              looks : 0..(MaxLooks - 1)]]
    /\ worker \in [Workers -> [pc : WorkerPcs, batch : [Users -> JoinerRow \cup {NoRow}],
                               on : SUBSET Users, res : Outcomes]]
    /\ faults \in 0..MaxFaults

\* A joiner is handled by one worker at a time, and a row that is worked on is
\* a claimed one: ClaimJoiner, the releases of stale claims, the guard's reclaims
\* and the lift's cancellations never hand one row to two.
ClaimsAreExclusive ==
    /\ \A v, w \in Workers : v # w => worker[v].on \cap worker[w].on = {}
    /\ \A w \in Workers : \A u \in worker[w].on : rows[u].state \in {"acting", "unbanning"}

\* While the lockdown runs, its ban is on nobody whose row the lift could not
\* recognise it by: the row holds the end date of the ban (recordLockdownJoin: a
\* ban is never placed without a record the lift can find).
BanIsRecorded ==
    ld = "active" => \A u \in Users : UnderLockdownBan(u) => isLockdownBan(u, rows[u].until)

\* A lift that ended left nobody under the lockdown's ban, but those it names as
\* failed: every other one it unbanned (lockdownProcessLift, FinishLift).
LiftLeavesNoBan ==
    ld = "lifted" => \A u \in Users : UnderLockdownBan(u) => rows[u].state = "unban_failed"

\* Someone an administrator let in is not under the lockdown's ban: a row turns
\* exempt only while no worker acts on it (lockdownExistingJoin).
ExemptIsNotBanned == \A u \in Users : rows[u].state = "exempt" => ~UnderLockdownBan(u)

\* Nobody is banned for a lockdown that is over: FinishLift waits for the acting
\* rows, and a row recorded after it is withdrawn.
NoBanAfterLift ==
    [][ld = "lifted" => \A u \in Users : tg'[u] # tg[u] => tg'[u].until = 0]_vars

\* No step of a worker touches a ban placed by hand: not the ban pass, which would
\* replace its date, nor the lift.
DeliberateBanStays ==
    [][worker' # worker => \A u \in Users : tg[u] = Kicked(0) => tg'[u] = tg[u]]_vars

\* A lift that began ends, whatever stopped while a row was claimed.
LiftCompletes == ld = "lifting" ~> ld = "lifted"

\* A joiner the guard recorded does not stay pending: a worker handles the row,
\* an update makes it exempt, or the lift cancels it.
PendingIsHandled ==
    \A u \in Users : rows[u].state = "pending" /\ ld # "lifted"
                        ~> rows[u].state # "pending" \/ ld = "lifted"
=============================================================================

-------------------------- MODULE LockdownResponse --------------------------
(***************************************************************************)
(* "Ban N recent joiners": one ban run of a confirmed lockdown, composed   *)
(* with the joiners of module LockdownJoiners, whose guard, ban pass and   *)
(* lift go on beside it.  The run has the rows of chat_lockdown_burst and  *)
(* one row of chat_lockdown_ban_runs; a responder is the part of a         *)
(* replica's worker that takes its accounts, bans them for good and        *)
(* reports.  A step is one database statement or one Telegram call.        *)
(***************************************************************************)
EXTENDS LockdownJoiners

CONSTANTS
    Responders,      \* replicas whose workers are in their ban run part
    RunHazards       \* what the instance may meet beyond that, see below

(***************************************************************************)
(*  unclaimed    somebody without a joiner row joins while the run acts on *)
(*               them, so there is no row the run could have claimed       *)
(*  lost restore the run stops, or a write of its fails, while it holds    *)
(*               the row of somebody who is under the lockdown's ban       *)
(***************************************************************************)
ASSUME RunHazardsAssumption == RunHazards \subseteq {"unclaimed", "lost restore"}

VARIABLES
    burst,           \* burst[u]: the burst row of u, NoBurst if there is none
    run,             \* the row of the ban run, its report included
    responder        \* responder[r]: where r is, its batch and what it read

runVars == <<burst, run, responder>>

allVars == <<ld, tg, rows, guard, worker, faults, burst, run, responder>>

\* unhandled is the empty state; claim: claimed_at, stale once it is two minutes old.
BurstRow == [state : {"absent", "unhandled", "queued", "acting", "banned", "skipped", "failed"},
             attempts : Nat, claim : {"none", "held", "stale"}]

NoBurst == [state |-> "absent", attempts |-> 0, claim |-> "none"]

\* asked: the confirmation found the lockdown active, the row is not there yet.
\* card, log: the steps of the report that are settled.
RunRow == [state : {"none", "asked", "running", "done", "stopped"}, card : BOOLEAN,
           log : BOOLEAN, reported : BOOLEAN, claim : {"none", "held", "stale"}, attempts : Nat]

NoRun == [state |-> "none", card |-> FALSE, log |-> FALSE, reported |-> FALSE,
          claim |-> "none", attempts |-> 0]

ActingPcs == {"claim", "joiner", "take", "look", "reread", "ban", "banned", "keep",
              "putback", "settle"}

ReportPcs == {"read", "deliver", "settled", "giveback"}

RunPcs == {"release", "cycle", "list", "batch", "unqueue", "stop"} \cup ActingPcs \cup ReportPcs

\* What becomes of an account: a retry costs no attempt.
RunOutcomes == {"skipped", "retry", "failed"}

EmptyBatch == [u \in Users |-> NoBurst]

\* joiner: the joiner row as the run read it; claimed: the run moved it to acting;
\* seen: the run's row as the report read it.
AtRelease == [pc |-> "release", batch |-> EmptyBatch, on |-> {}, joiner |-> NoRow,
           claimed |-> FALSE, seen |-> NoRun, res |-> "retry"]

RunOn(r, u) == u \in responder[r].on

\* r works on the joiner row of u, which it claimed.
RunHolds(r, u) == RunOn(r, u) /\ responder[r].claimed

ActsOn(r, u, pc) == responder[r].pc = pc /\ RunOn(r, u)

RunGoes(r, pc) == responder' = [responder EXCEPT ![r].pc = pc]

RunRests(r) == responder' = [responder EXCEPT ![r] = AtRelease]

RunEnds(r, pc, res) == responder' = [responder EXCEPT ![r].pc = pc, ![r].res = res]

NextAccount(r, u) ==
    responder' = [responder EXCEPT ![r] =
        [AtRelease EXCEPT !.pc = "batch", !.batch = [responder[r].batch EXCEPT ![u] = NoBurst]]]

-----------------------------------------------------------------------------
\* The repository: chat_lockdown_burst and chat_lockdown_ban_runs.

MoveBurst(u, to, count) ==
    burst' = IF burst[u].state # "acting" THEN burst
             ELSE [burst EXCEPT ![u] = [state |-> to, claim |-> "none",
                        attempts |-> IF count THEN burst[u].attempts + 1 ELSE burst[u].attempts]]

Unhandled(row) == row.state = "unhandled"

\* One transaction: the joiners without a burst row get one, those an administrator
\* let in are skipped, and every other unhandled account that is not excluded (the
\* approved users) is queued.  Nobody queued, the run is done and has no report.
StartBanRun(excluded) ==
    LET copied == [u \in Users |-> IF burst[u] = NoBurst /\ rows[u] # NoRow
                                   THEN [NoBurst EXCEPT !.state = "unhandled"] ELSE burst[u]]
        queued == {u \in Users \ excluded : Unhandled(copied[u]) /\ rows[u].state # "exempt"}
    IN /\ burst' = [u \in Users |->
            IF ~Unhandled(copied[u]) THEN copied[u]
            ELSE IF u \in queued THEN [copied[u] EXCEPT !.state = "queued"]
            ELSE IF rows[u].state = "exempt" THEN [copied[u] EXCEPT !.state = "skipped"]
            ELSE copied[u]]
       /\ run' = IF queued # {} THEN [NoRun EXCEPT !.state = "running"]
                 ELSE [NoRun EXCEPT !.state = "done", !.reported = TRUE]

\* Mutation: claims that are stale are not given back.
BurstReleasedNever == UNCHANGED burst

ReleaseStaleBurstClaims ==
    burst' = [u \in Users |-> IF burst[u].claim = "stale" /\ burst[u].state = "acting"
                              THEN [burst[u] EXCEPT !.state = "queued", !.claim = "none"]
                              ELSE burst[u]]

ReleaseStaleBanRunReportClaims ==
    run' = IF run.claim = "stale" /\ ~run.reported THEN [run EXCEPT !.claim = "none"] ELSE run

UnqueueBanRun ==
    burst' = [u \in Users |-> IF burst[u].state = "queued"
                              THEN [burst[u] EXCEPT !.state = "unhandled", !.claim = "none"]
                              ELSE burst[u]]

\* Mutation: an account that is acted on does not count as open.
NoneQueued == \A u \in Users : burst[u].state # "queued"

NoneOpen == \A u \in Users : burst[u].state \notin {"queued", "acting"}

FinishBanRun(state) ==
    run' = IF run.state = "running" /\ (state = "done" => NoneOpen)
           THEN [run EXCEPT !.state = state] ELSE run

\* Both steps settled, the run is reported and the claim given up.
RecordBanRunReportStep(step) ==
    LET settled == IF step = "card" THEN [run EXCEPT !.card = TRUE, !.attempts = 0]
                   ELSE [run EXCEPT !.log = TRUE, !.attempts = 0]
    IN run' = IF run.reported \/ run.claim = "none" THEN run
              ELSE IF settled.card /\ settled.log
                   THEN [settled EXCEPT !.reported = TRUE, !.claim = "none"] ELSE settled

ReleaseBanRunReport(count) ==
    run' = IF run.reported \/ run.claim = "none" THEN run
           ELSE [run EXCEPT !.claim = "none", !.attempts = IF count THEN @ + 1 ELSE @]

-----------------------------------------------------------------------------
\* An administrator confirms "Ban N recent joiners".

BanConfirmReads ==
    /\ run.state = "none" /\ ld = "active" /\ run' = [run EXCEPT !.state = "asked"]
    /\ NoFault
    /\ UNCHANGED <<ld, tg, rows, guard, worker, burst, responder>>

BanConfirmStarts ==
    /\ run.state = "asked"
    /\ \/ NoFault /\ \E excluded \in SUBSET Users : StartBanRun(excluded)
       \/ Fault /\ run' = NoRun /\ UNCHANGED burst
    /\ UNCHANGED <<ld, tg, rows, guard, worker, responder>>

-----------------------------------------------------------------------------
\* A responder's batch.

\* A finished run whose report nobody is at work on.
ReportDue == run.state \in {"done", "stopped"} /\ ~run.reported /\ run.claim = "none"

\* A cycle begins with what lockdownReleaseStale does for the run; a cycle that has
\* nothing to do for it is left out.
ReleaseStaleOfRun(r) ==
    /\ responder[r].pc = "release" /\ RunGoes(r, "cycle")
    /\ \/ run.state = "running" \/ ReportDue \/ run.claim = "stale"
       \/ \E u \in Users : burst[u].claim = "stale"
    /\ \/ ReleaseStaleBurstClaims /\ ReleaseStaleBanRunReportClaims /\ NoFault
       \/ UNCHANGED <<burst, run>> /\ Fault
    /\ UNCHANGED <<ld, tg, rows, guard, worker>>

CycleEnds(r) ==
    /\ responder[r].pc = "cycle" /\ RunRests(r)
    /\ run.state # "running" /\ ~ReportDue
    /\ NoFault
    /\ UNCHANGED <<ld, tg, rows, guard, worker, burst, run>>

\* A lockdown that cannot be read leaves the run waiting for the next cycle.
ProcessBanRun(r) ==
    /\ responder[r].pc = "cycle" /\ run.state = "running"
    /\ RunGoes(r, IF ld = "active" THEN "list" ELSE "unqueue") /\ NoFault
    /\ UNCHANGED <<ld, tg, rows, guard, worker, burst, run>>

\* The approved users are read too; the run waits when they cannot be.
ListQueuedBurst(r) ==
    /\ responder[r].pc = "list"
    /\ \/ /\ NoFault
          /\ responder' = [responder EXCEPT ![r].pc = "batch",
                 ![r].batch = [u \in Users |-> IF burst[u].state = "queued" THEN burst[u]
                                                ELSE NoBurst]]
       \/ Fault /\ RunRests(r)
    /\ UNCHANGED <<ld, tg, rows, guard, worker, burst, run>>

\* The lockdown is read again before every account.
TakeAccount(r, u) ==
    /\ responder[r].pc = "batch" /\ responder[r].batch[u] # NoBurst
    /\ \/ /\ NoFault
          /\ IF ld = "active"
             THEN responder' = [responder EXCEPT ![r].pc = "claim", ![r].on = {u}]
             ELSE responder' = [responder EXCEPT ![r] = [AtRelease EXCEPT !.pc = "unqueue"]]
       \/ Fault /\ RunRests(r)
    /\ UNCHANGED <<ld, tg, rows, guard, worker, burst, run>>

BatchEnds(r) ==
    /\ responder[r].pc = "batch" /\ responder[r].batch = EmptyBatch
    /\ \/ FinishBanRun("done") /\ NoFault
       \/ UNCHANGED run /\ Fault
    /\ RunRests(r)
    /\ UNCHANGED <<ld, tg, rows, guard, worker, burst>>

\* lockdownStopBanRun: an account in flight is left to its call.
Unqueue(r) ==
    /\ responder[r].pc = "unqueue"
    /\ \/ UnqueueBanRun /\ RunGoes(r, "stop") /\ NoFault
       \/ UNCHANGED burst /\ RunRests(r) /\ Fault
    /\ UNCHANGED <<ld, tg, rows, guard, worker, run>>

StopBanRun(r) ==
    /\ responder[r].pc = "stop"
    /\ \/ FinishBanRun("stopped") /\ NoFault
       \/ UNCHANGED run /\ Fault
    /\ RunRests(r)
    /\ UNCHANGED <<ld, tg, rows, guard, worker, burst>>

-----------------------------------------------------------------------------
\* lockdownResponseBanOne: one account.

ClaimBurst(r, u) ==
    /\ ActsOn(r, u, "claim")
    /\ \/ /\ burst[u].state = "queued" /\ NoFault
          /\ burst' = [burst EXCEPT ![u].state = "acting", ![u].claim = "held"]
          /\ RunGoes(r, "joiner")
       \/ /\ (burst[u].state # "queued" /\ NoFault) \/ Fault
          /\ UNCHANGED burst /\ NextAccount(r, u)
    /\ UNCHANGED <<ld, tg, rows, guard, worker, run>>

ClaimableStates == {"pending", "banned", "ban_failed", "declined", "decline_failed",
                    "kept", "cancelled"}

\* Mutation: an exempt joiner is handled like one with no row.
AfterLettingIn(row) ==
    CASE row.state \in {"acting", "unbanning"} -> "settle"
      [] row.state \in ClaimableStates -> "take"
      [] OTHER -> "look"

AfterJoiner(row) ==
    CASE row.state \in {"exempt", "acting", "unbanning"} -> "settle"
      [] row.state \in ClaimableStates -> "take"
      [] OTHER -> "look"

\* An account may be found approved, which skips it.  A joiner somebody works on
\* sends the account back to the queue, and so does a failed read.
ReadJoiner(r, u) ==
    /\ ActsOn(r, u, "joiner")
    /\ \/ /\ NoFault
          /\ responder' = [responder EXCEPT ![r].joiner = rows[u],
                 ![r].pc = AfterJoiner(rows[u]),
                 ![r].res = IF rows[u].state = "exempt" THEN "skipped" ELSE "retry"]
       \/ RunEnds(r, "settle", "skipped") /\ NoFault
       \/ RunEnds(r, "settle", "retry") /\ Fault
    /\ UNCHANGED <<ld, tg, rows, guard, worker, burst, run>>

\* Mutation: the joiner row is left to the worker.
LeaveJoiner(r, u) ==
    /\ ActsOn(r, u, "take") /\ RunGoes(r, "look") /\ NoFault
    /\ UNCHANGED <<ld, tg, rows, guard, worker, burst, run>>

TakeJoiner(r, u) ==
    /\ ActsOn(r, u, "take")
    /\ LET joiner == responder[r].joiner
           wins == Matches(u, joiner.id, {joiner.state})
       IN \/ /\ wins /\ NoFault
             /\ rows' = [rows EXCEPT ![u] = InState(@, "acting")]
             /\ responder' = [responder EXCEPT ![r].pc = "look", ![r].claimed = TRUE]
          \/ /\ (~wins /\ NoFault) \/ Fault
             /\ UNCHANGED rows /\ RunEnds(r, "settle", "retry")
    /\ UNCHANGED <<ld, tg, guard, worker, burst, run>>

RunErrs(r) == Fault /\ \E res \in {"retry", "failed"} : RunEnds(r, "putback", res)

\* decideLockdownResponseBan: an administrator is skipped (a member may turn out to
\* be one), and so is an account kicked by anything but the lockdown's own ban.
DecideBan(r, u) ==
    /\ ActsOn(r, u, "look")
    /\ LET own == isLockdownBan(u, responder[r].joiner.until)
       IN \/ IsKicked(u) /\ ~own /\ RunEnds(r, "putback", "skipped") /\ NoFault
          \/ tg[u] = Member /\ RunEnds(r, "putback", "skipped") /\ NoFault
          \/ (~IsKicked(u) \/ own) /\ RunGoes(r, "reread") /\ NoFault
          \/ RunErrs(r)
    /\ UNCHANGED <<ld, tg, rows, guard, worker, burst, run>>

\* The lockdown once more, right before the call: nobody is banned without it.
RereadLockdown(r, u) ==
    /\ ActsOn(r, u, "reread")
    /\ \/ ld = "active" /\ RunGoes(r, "ban") /\ NoFault
       \/ ld # "active" /\ RunEnds(r, "putback", "retry") /\ NoFault
       \/ RunErrs(r)
    /\ UNCHANGED <<ld, tg, rows, guard, worker, burst, run>>

\* No end date.  The answer may be lost with the ban in effect.
BanForGood(r, u) ==
    /\ ActsOn(r, u, "ban")
    /\ \/ tg' = [tg EXCEPT ![u] = Kicked(0)] /\ RunGoes(r, "banned") /\ NoFault
       \/ tg' \in {tg, [tg EXCEPT ![u] = Kicked(0)]} /\ RunErrs(r)
    /\ UNCHANGED <<ld, rows, guard, worker, burst, run>>

\* Done: the burst row is written first, then the joiner row.
RecordBanned(r, u) ==
    /\ ActsOn(r, u, "banned")
    /\ \/ MoveBurst(u, "banned", FALSE) /\ NoFault
       \/ UNCHANGED burst /\ Fault
    /\ IF responder[r].claimed THEN RunGoes(r, "keep") ELSE NextAccount(r, u)
    /\ UNCHANGED <<ld, tg, rows, guard, worker, run>>

KeepJoiner(r, u) ==
    /\ ActsOn(r, u, "keep")
    /\ \/ MoveJoiner(u, responder[r].joiner.id, "acting", "kept", FALSE) /\ NoFault
       \/ UNCHANGED rows /\ Fault
    /\ NextAccount(r, u)
    /\ UNCHANGED <<ld, tg, guard, worker, burst, run>>

\* The row that r holds is no longer a banned one, though the ban is in force.
HoldsBanned(r) == \E u \in Users : RunHolds(r, u) /\ UnderLockdownBan(u)

\* Mutation: whatever the joiner was, it goes back to where a ban starts.
PutBackCancelled(r, u) ==
    /\ ActsOn(r, u, "putback")
    /\ IF responder[r].claimed THEN MoveJoiner(u, responder[r].joiner.id, "acting", "cancelled", FALSE)
       ELSE UNCHANGED rows
    /\ responder' = [responder EXCEPT ![r].pc = "settle", ![r].claimed = FALSE]
    /\ NoFault
    /\ UNCHANGED <<ld, tg, guard, worker, burst, run>>

\* Any other outcome: the joiner row first goes back to the state it came from.
RestoreJoiner(r, u) ==
    /\ ActsOn(r, u, "putback")
    /\ LET joiner == responder[r].joiner
       IN \/ /\ NoFault
             /\ IF responder[r].claimed THEN MoveJoiner(u, joiner.id, "acting", joiner.state, FALSE)
                ELSE UNCHANGED rows
          \/ /\ Fault /\ responder[r].claimed /\ UNCHANGED rows
             /\ HoldsBanned(r) => "lost restore" \in RunHazards
    /\ responder' = [responder EXCEPT ![r].pc = "settle", ![r].claimed = FALSE]
    /\ UNCHANGED <<ld, tg, guard, worker, burst, run>>

\* The last attempt, by the listed row, is final.
SettleAccount(r, u) ==
    /\ ActsOn(r, u, "settle")
    /\ LET res == responder[r].res
           to == CASE res = "skipped" -> "skipped"
                   [] res = "failed" /\ LastAttempt(responder[r].batch[u]) -> "failed"
                   [] OTHER -> "queued"
       IN \/ MoveBurst(u, to, res = "failed") /\ NoFault
          \/ UNCHANGED burst /\ Fault
    /\ NextAccount(r, u)
    /\ UNCHANGED <<ld, tg, rows, guard, worker, run>>

-----------------------------------------------------------------------------
\* lockdownReportBanRun: the card, then the post in the log channel.

ClaimBanRunReport(r) ==
    /\ responder[r].pc = "cycle" /\ ReportDue
    /\ run' = [run EXCEPT !.claim = "held"] /\ RunGoes(r, "read")
    /\ NoFault
    /\ UNCHANGED <<ld, tg, rows, guard, worker, burst>>

ReadBanRun(r) ==
    /\ responder[r].pc = "read"
    /\ \/ responder' = [responder EXCEPT ![r].pc = "deliver", ![r].seen = run] /\ NoFault
       \/ RunEnds(r, "giveback", "retry") /\ Fault
    /\ UNCHANGED <<ld, tg, rows, guard, worker, burst, run>>

\* A step that failed often enough is given up, as if it were delivered.
DeliverStep(r) ==
    /\ responder[r].pc = "deliver"
    /\ \/ RunGoes(r, "settled") /\ NoFault
       \/ /\ Fault
          /\ \/ RunEnds(r, "giveback", "retry")
             \/ IF LastAttempt(responder[r].seen) THEN RunGoes(r, "settled")
                ELSE RunEnds(r, "giveback", "failed")
    /\ UNCHANGED <<ld, tg, rows, guard, worker, burst, run>>

SettleStep(r) ==
    /\ responder[r].pc = "settled"
    /\ LET seen == responder[r].seen
           card == ~seen.card
       IN \/ /\ RecordBanRunReportStep(IF card THEN "card" ELSE "log") /\ NoFault
             /\ IF card /\ ~seen.log
                THEN responder' = [responder EXCEPT ![r].pc = "deliver",
                                        ![r].seen.card = TRUE, ![r].seen.attempts = 0]
                ELSE RunRests(r)
          \/ UNCHANGED run /\ RunRests(r) /\ Fault
    /\ UNCHANGED <<ld, tg, rows, guard, worker, burst>>

GiveReportBack(r) ==
    /\ responder[r].pc = "giveback"
    /\ \/ ReleaseBanRunReport(responder[r].res = "failed") /\ NoFault
       \/ UNCHANGED run /\ Fault
    /\ RunRests(r)
    /\ UNCHANGED <<ld, tg, rows, guard, worker, burst>>

-----------------------------------------------------------------------------
\* Time, restarts, and everything the lockdown does beside the run.

ResponderStops(r) ==
    /\ responder[r] # AtRelease /\ RunRests(r) /\ Fault
    /\ HoldsBanned(r) => "lost restore" \in RunHazards
    /\ UNCHANGED <<ld, tg, rows, guard, worker, burst, run>>

BurstClaimExpires(u) ==
    /\ burst[u].claim = "held" /\ \A r \in Responders : ~RunOn(r, u)
    /\ burst' = [burst EXCEPT ![u].claim = "stale"] /\ NoFault
    /\ UNCHANGED <<ld, tg, rows, guard, worker, run, responder>>

ReportClaimExpires ==
    /\ run.claim = "held" /\ \A r \in Responders : responder[r].pc \notin ReportPcs
    /\ run' = [run EXCEPT !.claim = "stale"] /\ NoFault
    /\ UNCHANGED <<ld, tg, rows, guard, worker, burst, responder>>

\* r looks at u or bans them, and found no joiner row to claim.
Unclaimed(r, u) ==
    RunOn(r, u) /\ responder[r].pc \in {"look", "reread", "ban"} /\ responder[r].joiner = NoRow

\* A step of module LockdownJoiners.  A row the run holds does not grow stale.
Beside ==
    /\ Next /\ UNCHANGED runVars
    /\ \A r \in Responders : \A u \in Users :
          /\ RunHolds(r, u) => rows'[u].stale = rows[u].stale
          /\ Unclaimed(r, u) /\ "unclaimed" \notin RunHazards => rows'[u] = rows[u]

RunInit ==
    /\ \E pre \in SUBSET Users :
          /\ burst = [u \in Users |-> IF u \in pre THEN [NoBurst EXCEPT !.state = "unhandled"]
                                       ELSE NoBurst]
          /\ InitWith({s \in [Users -> {Left, Asking, Member}] :
                            \A u \in Users : s[u] = Member => u \in pre})
    /\ run = NoRun
    /\ responder = [r \in Responders |-> AtRelease]

ActsOnAccount(r, u) ==
    \/ TakeAccount(r, u) \/ ClaimBurst(r, u) \/ ReadJoiner(r, u) \/ TakeJoiner(r, u)
    \/ DecideBan(r, u) \/ RereadLockdown(r, u) \/ BanForGood(r, u) \/ RecordBanned(r, u)
    \/ KeepJoiner(r, u) \/ RestoreJoiner(r, u) \/ SettleAccount(r, u)

ResponderStep(r) ==
    \/ ReleaseStaleOfRun(r) \/ CycleEnds(r) \/ ProcessBanRun(r) \/ ListQueuedBurst(r)
    \/ BatchEnds(r) \/ Unqueue(r) \/ StopBanRun(r)
    \/ \E u \in Users : ActsOnAccount(r, u)
    \/ ClaimBanRunReport(r) \/ ReadBanRun(r) \/ DeliverStep(r) \/ SettleStep(r)
    \/ GiveReportBack(r)

RunNext ==
    \/ Beside
    \/ BanConfirmReads \/ BanConfirmStarts
    \/ \E r \in Responders : ResponderStep(r) \/ ResponderStops(r)
    \/ \E u \in Users : BurstClaimExpires(u)
    \/ ReportClaimExpires

RunSpec == RunInit /\ [][RunNext]_allVars

\* The cycles of workers and responders come round, and claims grow old; nobody has
\* to confirm a run.
RunFairSpec ==
    /\ RunSpec
    /\ \A w \in Workers : WF_allVars(WorkerStep(w) /\ Beside)
    /\ \A u \in Users : WF_allVars(ClaimExpires(u) /\ Beside) /\ WF_allVars(BurstClaimExpires(u))
    /\ \A r \in Responders : WF_allVars(ResponderStep(r))
    /\ WF_allVars(ReportClaimExpires)

-----------------------------------------------------------------------------
\* A lift does not end while the run bans somebody it recorded: FinishLift waits for
\* the acting row, so a ban for good never comes after the lift, and the lift never
\* unbans in its middle (lockdownResponseBanOne: the claim keeps both away).
LiftWaitsForRun ==
    ld = "lifted" => \A r \in Responders : \A u \in Users :
        ~(RunHolds(r, u) /\ responder[r].pc \in {"ban", "banned", "keep"})

\* A run that is done has handled every account it queued: FinishBanRun counts those
\* in flight on another replica, and those a stopped replica left claimed, as open.
DoneMeansHandled == run.state = "done" => NoneOpen

\* Nobody an administrator let in is banned for good by the run, also when the row
\* turned exempt after the run queued the account (D-22).
LetInIsNotBanned ==
    [][responder' # responder =>
        \A u \in Users : rows[u].state = "exempt" => tg'[u] = tg[u]]_allVars

\* A run that started is reported, whatever stopped on the way: it is done once
\* every account is, or stopped by the lift, and either report step is delivered or
\* given up.
RunIsReported == run.state = "running" ~> run.reported
=============================================================================

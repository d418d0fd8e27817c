---------------------- MODULE LockdownResponse_proofs ----------------------
(***************************************************************************)
(* The ban run beside the joiners, for any people, workers, responders and *)
(* faults: a run that is done handled everybody, a lift waits for it, and  *)
(* neither of the two touches whom the other has in hand.                  *)
(***************************************************************************)
EXTENDS LockdownResponse, LockdownClaims_proofs

-----------------------------------------------------------------------------
\* Types: what a responder has in hand.
Responder == [pc : RunPcs, batch : [Users -> BurstRow], on : SUBSET Users,
              joiner : JoinerRow \cup {NoRow}, claimed : BOOLEAN, seen : RunRow,
              res : RunOutcomes]

RunTypeOK ==
    /\ TypeOK
    /\ burst \in [Users -> BurstRow]
    /\ run \in RunRow
    /\ responder \in [Responders -> Responder]

\* What a step makes of its responder.
Becomes(r, s) == responder' = [responder EXCEPT ![r] = s]

OtherRuns(r) == \A s \in Responders \ {r} : responder'[s] = responder[s]

LEMMA StatesTyped ==
    /\ ClaimableStates \subseteq JoinerStates
    /\ "acting" \in JoinerStates /\ "kept" \in JoinerStates /\ "exempt" \in JoinerStates
BY DEF ClaimableStates, JoinerStates, ReclaimStates, UnfinishedStates

LEMMA PcsTyped == ActingPcs \subseteq RunPcs /\ ReportPcs \subseteq RunPcs
BY DEF RunPcs

LEMMA NothingTyped ==
    /\ NoBurst \in BurstRow /\ NoRun \in RunRow
    /\ EmptyBatch \in [Users -> BurstRow]
<1>1. NoBurst \in BurstRow /\ NoRun \in RunRow
  BY DEF NoBurst, BurstRow, NoRun, RunRow
<1> QED
  BY <1>1 DEF EmptyBatch

LEMMA RestTyped == AtRelease \in Responder
BY NothingTyped DEF AtRelease, Responder, RunPcs, RunOutcomes

\* A new step, outcome, batch, account, joiner row or report of a responder is typed.
LEMMA ChangeTyped ==
    ASSUME RunTypeOK, NEW r \in Responders
    PROVE  /\ responder[r] \in Responder
           /\ \A pc \in RunPcs : [responder[r] EXCEPT !.pc = pc] \in Responder
           /\ \A pc \in RunPcs, res \in RunOutcomes :
                [responder[r] EXCEPT !.pc = pc, !.res = res] \in Responder
           /\ \A pc \in RunPcs, batch \in [Users -> BurstRow] :
                [responder[r] EXCEPT !.pc = pc, !.batch = batch] \in Responder
           /\ \A pc \in RunPcs, batch \in [Users -> BurstRow] :
                [AtRelease EXCEPT !.pc = pc, !.batch = batch] \in Responder
           /\ \A pc \in RunPcs : [AtRelease EXCEPT !.pc = pc] \in Responder
           /\ \A pc \in RunPcs, u \in Users :
                [responder[r] EXCEPT !.pc = pc, !.on = {u}] \in Responder
           /\ \A pc \in RunPcs, claimed \in BOOLEAN :
                [responder[r] EXCEPT !.pc = pc, !.claimed = claimed] \in Responder
           /\ \A pc \in RunPcs, row \in JoinerRow \cup {NoRow}, res \in RunOutcomes :
                [responder[r] EXCEPT !.joiner = row, !.pc = pc, !.res = res] \in Responder
           /\ \A pc \in RunPcs, seen \in RunRow :
                [responder[r] EXCEPT !.pc = pc, !.seen = seen] \in Responder
<1>1. responder[r] \in Responder
  BY DEF RunTypeOK
<1> QED
  BY <1>1, RestTyped DEF Responder

LEMMA BecomesTyped ==
    ASSUME RunTypeOK, NEW r \in Responders, NEW s \in Responder, Becomes(r, s)
    PROVE  responder' \in [Responders -> Responder] /\ OtherRuns(r) /\ responder'[r] = s
BY DEF RunTypeOK, Becomes, OtherRuns

\* The moves of a responder, one record each.
LEMMA RunMoves ==
    ASSUME RunTypeOK, NEW r \in Responders
    PROVE  /\ RunRests(r) <=> Becomes(r, AtRelease)
           /\ \A pc : RunGoes(r, pc) => Becomes(r, [responder[r] EXCEPT !.pc = pc])
           /\ \A pc, res : RunEnds(r, pc, res) =>
                Becomes(r, [responder[r] EXCEPT !.pc = pc, !.res = res])
           /\ \A u \in Users : NextAccount(r, u) =>
                Becomes(r, [AtRelease EXCEPT !.pc = "batch",
                                !.batch = [responder[r].batch EXCEPT ![u] = NoBurst]])
BY DEF RunRests, RunGoes, RunEnds, NextAccount, Becomes, RunTypeOK
-----------------------------------------------------------------------------
\* The statements on the burst rows and on the run.

\* No account is opened, and the run goes on or ends as FinishBanRun lets it.
NoneOpens ==
    /\ burst' \in [Users -> BurstRow]
    /\ \A u \in Users : burst'[u].state \in {"queued", "acting"} =>
            burst[u].state \in {"queued", "acting"}

RunGoesOn ==
    /\ run' \in RunRow
    /\ \/ run'.state = run.state
       \/ run'.state = "stopped"
       \/ run'.state = "done" /\ NoneOpen

LEMMA BurstIsKept ==
    ASSUME RunTypeOK
    PROVE  UNCHANGED burst => NoneOpens
BY DEF RunTypeOK, NoneOpens

LEMMA RunIsKept ==
    ASSUME RunTypeOK
    PROVE  UNCHANGED run => RunGoesOn
BY DEF RunTypeOK, RunGoesOn

LEMMA MoveBurstTyped ==
    ASSUME RunTypeOK, NEW u \in Users, NEW to \in {"banned", "skipped", "failed", "queued"},
           NEW count \in BOOLEAN, MoveBurst(u, to, count)
    PROVE  NoneOpens
<1>1. burst \in [Users -> BurstRow] /\ burst[u] \in BurstRow
  BY DEF RunTypeOK
<1>2. CASE burst[u].state # "acting"
  BY <1>2, BurstIsKept DEF MoveBurst
<1>3. CASE burst[u].state = "acting"
  <2> DEFINE n == IF count THEN burst[u].attempts + 1 ELSE burst[u].attempts
  <2>1. n \in Nat
    BY <1>1 DEF BurstRow
  <2>2. burst' = [burst EXCEPT ![u] = [state |-> to, claim |-> "none", attempts |-> n]]
    BY <1>3 DEF MoveBurst
  <2> HIDE DEF n
  <2>3. [state |-> to, claim |-> "none", attempts |-> n] \in BurstRow
    BY <2>1 DEF BurstRow
  <2> QED
    BY <1>1, <1>3, <2>2, <2>3 DEF NoneOpens
<1> QED
  BY <1>2, <1>3

LEMMA BurstReleasedTyped ==
    ASSUME RunTypeOK, ReleaseStaleBurstClaims \/ UnqueueBanRun
    PROVE  NoneOpens
<1>1. \A u \in Users : burst[u] \in BurstRow
  BY DEF RunTypeOK
<1>2. \A u \in Users :
        /\ [burst[u] EXCEPT !.state = "queued", !.claim = "none"] \in BurstRow
        /\ [burst[u] EXCEPT !.state = "unhandled", !.claim = "none"] \in BurstRow
        /\ [burst[u] EXCEPT !.state = "unhandled", !.claim = "none"].state = "unhandled"
  BY <1>1 DEF BurstRow
<1>3. CASE ReleaseStaleBurstClaims
  <2> DEFINE new(u) == IF burst[u].claim = "stale" /\ burst[u].state = "acting"
                       THEN [burst[u] EXCEPT !.state = "queued", !.claim = "none"] ELSE burst[u]
  <2>1. burst' = [u \in Users |-> new(u)]
    BY <1>3 DEF ReleaseStaleBurstClaims
  <2>2. \A u \in Users :
          /\ new(u) \in BurstRow
          /\ new(u).state \in {"queued", "acting"} => burst[u].state \in {"queued", "acting"}
    BY <1>1, <1>2
  <2> HIDE DEF new
  <2> QED
    BY <2>1, <2>2 DEF NoneOpens
<1>4. CASE UnqueueBanRun
  <2> DEFINE new(u) == IF burst[u].state = "queued"
                       THEN [burst[u] EXCEPT !.state = "unhandled", !.claim = "none"] ELSE burst[u]
  <2>1. burst' = [u \in Users |-> new(u)]
    BY <1>4 DEF UnqueueBanRun
  <2>2. \A u \in Users :
          /\ new(u) \in BurstRow
          /\ new(u).state \in {"queued", "acting"} => burst[u].state \in {"queued", "acting"}
    BY <1>1, <1>2
  <2> HIDE DEF new
  <2> QED
    BY <2>1, <2>2 DEF NoneOpens
<1> QED
  BY <1>3, <1>4

\* A burst row is claimed, or its claim grows old.
LEMMA BurstClaimedTyped ==
    ASSUME RunTypeOK, NEW u \in Users,
           \/ /\ burst[u].state = "queued"
              /\ burst' = [burst EXCEPT ![u].state = "acting", ![u].claim = "held"]
           \/ burst' = [burst EXCEPT ![u].claim = "stale"]
    PROVE  NoneOpens
<1>1. burst \in [Users -> BurstRow] /\ burst[u] \in BurstRow
  BY DEF RunTypeOK
<1>2. /\ [burst[u] EXCEPT !.state = "acting", !.claim = "held"] \in BurstRow
      /\ [burst[u] EXCEPT !.claim = "stale"] \in BurstRow
      /\ [burst[u] EXCEPT !.claim = "stale"].state = burst[u].state
  BY <1>1 DEF BurstRow
<1>3. CASE /\ burst[u].state = "queued"
           /\ burst' = [burst EXCEPT ![u] = [burst[u] EXCEPT !.state = "acting", !.claim = "held"]]
  BY <1>1, <1>2, <1>3 DEF NoneOpens
<1>4. CASE burst' = [burst EXCEPT ![u] = [burst[u] EXCEPT !.claim = "stale"]]
  BY <1>1, <1>2, <1>4 DEF NoneOpens
<1>5. [burst EXCEPT ![u].state = "acting", ![u].claim = "held"]
        = [burst EXCEPT ![u] = [burst[u] EXCEPT !.state = "acting", !.claim = "held"]]
  BY <1>1
<1> QED
  BY <1>1, <1>3, <1>4, <1>5

LEMMA FinishTypedRun ==
    ASSUME RunTypeOK, FinishBanRun("done") \/ FinishBanRun("stopped")
    PROVE  RunGoesOn
<1>1. run \in RunRow
  BY DEF RunTypeOK
<1>2. ASSUME NEW state \in {"done", "stopped"}
      PROVE  [run EXCEPT !.state = state] \in RunRow /\ [run EXCEPT !.state = state].state = state
  BY <1>1 DEF RunRow
<1>3. CASE FinishBanRun("done")
  BY <1>1, <1>2, <1>3 DEF FinishBanRun, RunGoesOn
<1>4. CASE FinishBanRun("stopped")
  BY <1>1, <1>2, <1>4 DEF FinishBanRun, RunGoesOn
<1> QED
  BY <1>3, <1>4

\* What a report does to the run leaves its state.
LEMMA ReportTyped ==
    ASSUME RunTypeOK,
           \/ ReleaseStaleBanRunReportClaims
           \/ \E step \in {"card", "log"} : RecordBanRunReportStep(step)
           \/ \E count \in BOOLEAN : ReleaseBanRunReport(count)
           \/ run' = [run EXCEPT !.claim = "held"]
           \/ run' = [run EXCEPT !.claim = "stale"]
    PROVE  RunGoesOn
<1>1. run \in RunRow
  BY DEF RunTypeOK
<1>2. /\ run'.state = run.state /\ run' \in RunRow
  <2>1. CASE ReleaseStaleBanRunReportClaims
    BY <1>1, <2>1 DEF ReleaseStaleBanRunReportClaims, RunRow
  <2>2. ASSUME NEW step \in {"card", "log"}, RecordBanRunReportStep(step)
        PROVE  run'.state = run.state /\ run' \in RunRow
    <3> DEFINE settled == IF step = "card" THEN [run EXCEPT !.card = TRUE, !.attempts = 0]
                          ELSE [run EXCEPT !.log = TRUE, !.attempts = 0]
    <3>1. settled \in RunRow /\ settled.state = run.state
      BY <1>1 DEF RunRow
    <3>2. run' = run \/ run' = settled
                \/ run' = [settled EXCEPT !.reported = TRUE, !.claim = "none"]
      BY <2>2 DEF RecordBanRunReportStep
    <3> HIDE DEF settled
    <3>3. /\ [settled EXCEPT !.reported = TRUE, !.claim = "none"] \in RunRow
          /\ [settled EXCEPT !.reported = TRUE, !.claim = "none"].state = run.state
      BY <3>1 DEF RunRow
    <3> QED
      BY <1>1, <3>1, <3>2, <3>3
  <2>3. ASSUME NEW count \in BOOLEAN, ReleaseBanRunReport(count)
        PROVE  run'.state = run.state /\ run' \in RunRow
    <3> DEFINE n == IF count THEN run.attempts + 1 ELSE run.attempts
    <3>1. n \in Nat
      BY <1>1 DEF RunRow
    <3>2. run' = run \/ run' = [run EXCEPT !.claim = "none", !.attempts = n]
      BY <2>3 DEF ReleaseBanRunReport
    <3> HIDE DEF n
    <3> QED
      BY <1>1, <3>1, <3>2 DEF RunRow
  <2>4. CASE run' = [run EXCEPT !.claim = "held"] \/ run' = [run EXCEPT !.claim = "stale"]
    BY <1>1, <2>4 DEF RunRow
  <2> QED
    BY <2>1, <2>2, <2>3, <2>4
<1> QED
  BY <1>2 DEF RunGoesOn

-----------------------------------------------------------------------------
\* A responder's hands.

\* Where a responder may hold a joiner row.
HeldPcs == {"look", "reread", "ban", "banned", "keep", "putback"}

\* It works on one account, and claims only what ClaimJoiner may claim.
WellHeld(s) ==
    /\ \A u \in s.on : s.on = {u}
    /\ s.pc = "take" \/ s.claimed => s.joiner.state \in ClaimableStates
    /\ s.claimed => s.pc \in HeldPcs
    /\ s.pc = "keep" => s.claimed

RunHandInv == \A r \in Responders : WellHeld(responder[r])

RunTypeInv == RunTypeOK /\ RunHandInv

\* Looking at somebody, or banning them, without a claim.
LookPcs == {"look", "reread", "ban"}

Open(s) == s.pc \in LookPcs /\ ~s.claimed

\* A responder is past its last look at the lockdown.
PastLook(s) == s.claimed /\ s.pc \in {"ban", "banned", "keep"}

\* What r becomes by a step that leaves the lockdown's side as it is.
Proceeds(r, s) ==
    /\ s \in Responder /\ WellHeld(s) /\ Becomes(r, s)
    /\ s.claimed => responder[r].claimed /\ s.on = responder[r].on
    /\ PastLook(s) => PastLook(responder[r]) \/ ld = "active"
    /\ Open(s) => \/ /\ Open(responder[r]) /\ s.on = responder[r].on
                     /\ s.joiner = responder[r].joiner
                     /\ s.pc = "ban" => ld = "active" \/ responder[r].pc = "ban"
                  \/ /\ s.pc = "look" /\ s.on = responder[r].on
                     /\ \A u \in s.on : s.joiner = rows[u]
                     /\ s.joiner.state \notin ClaimableStates \cup {"exempt", "acting", "unbanning"}

Works(r) == \E s : Proceeds(r, s)

world == <<ld, tg, rows, guard, worker>>

\* The other kinds of step: a claim, and the end of one.
TakesRow(r, u) ==
    /\ \E s \in Responder : WellHeld(s) /\ Becomes(r, s) /\ s.claimed /\ s.on = {u} /\ s.pc = "look"
    /\ rows[u].state \in ClaimableStates /\ Moved(u, "acting") /\ OnlyRow(u)
    /\ rows' \in [Users -> JoinerRow \cup {NoRow}]
    /\ UNCHANGED <<ld, tg, guard, worker>>

GivesRowBack(r, u) ==
    /\ \E s \in Responder : WellHeld(s) /\ Becomes(r, s) /\ ~s.claimed /\ s.pc \notin LookPcs
    /\ RunHolds(r, u) /\ OnlyRow(u)
    /\ rows' \in [Users -> JoinerRow \cup {NoRow}]
    /\ rows' = rows \/ \E state \in ClaimableStates : rows[u].state = "acting" /\ Moved(u, state)
    /\ UNCHANGED <<ld, tg, guard, worker>>

\* A step of r that works on nobody, from a step that holds nothing.
LEMMA Elsewhere ==
    ASSUME RunTypeInv, NEW r \in Responders, NEW s \in Responder, Becomes(r, s),
           s.pc \notin HeldPcs \cup {"take"}, ~s.claimed,
           \A u \in s.on : s.on = {u}
    PROVE  Works(r)
<1>1. WellHeld(s) /\ ~Open(s) /\ ~PastLook(s)
  BY DEF WellHeld, Open, PastLook, LookPcs, HeldPcs
<1> QED
  BY <1>1 DEF Works, Proceeds

\* A step of r that keeps what r has in hand, away from the call.
LEMMA KeepsHands ==
    ASSUME RunTypeInv, NEW r \in Responders, NEW s \in Responder, Becomes(r, s),
           s.on = responder[r].on, s.joiner = responder[r].joiner,
           s.claimed = responder[r].claimed,
           s.pc \in HeldPcs \/ ~s.claimed, s.pc # "take", s.pc = "keep" => s.claimed,
           PastLook(s) => PastLook(responder[r]) \/ ld = "active",
           Open(s) => responder[r].pc \in LookPcs,
           Open(s) /\ s.pc = "ban" => ld = "active" \/ responder[r].pc = "ban"
    PROVE  Works(r)
<1>1. WellHeld(responder[r]) /\ responder[r] \in Responder
  BY DEF RunTypeInv, RunHandInv, RunTypeOK
<1>2. WellHeld(s)
  BY <1>1 DEF WellHeld
<1> QED
  BY <1>2 DEF Works, Proceeds, Open

-----------------------------------------------------------------------------
\* The steps of a cycle and of a report: nobody is in hand.

\* Nothing of the joiners' side changes.
Aside == NoneOpens /\ RunGoesOn /\ UNCHANGED world /\ (Fault \/ NoFault)

CycleStep(r) ==
    \/ ReleaseStaleOfRun(r) \/ CycleEnds(r) \/ ProcessBanRun(r) \/ ListQueuedBurst(r)
    \/ BatchEnds(r) \/ Unqueue(r) \/ StopBanRun(r)

ReportStep(r) ==
    \/ ClaimBanRunReport(r) \/ ReadBanRun(r) \/ DeliverStep(r) \/ SettleStep(r) \/ GiveReportBack(r)

LEMMA NothingHeld ==
    ASSUME RunTypeInv, NEW r \in Responders, responder[r].pc \notin HeldPcs
    PROVE  responder[r] \in Responder /\ ~responder[r].claimed /\ \A u \in responder[r].on : responder[r].on = {u}
BY DEF RunTypeInv, RunTypeOK, RunHandInv, WellHeld, Responder

\* Going on from such a step to another, or resting.
LEMMA RestsWork ==
    ASSUME RunTypeInv, NEW r \in Responders, RunRests(r)
    PROVE  Works(r)
<1>1. Becomes(r, AtRelease)
  BY RunMoves DEF RunTypeInv
<1>2. AtRelease.pc \notin HeldPcs \cup {"take"} /\ ~AtRelease.claimed /\ AtRelease.on = {}
  BY DEF AtRelease, HeldPcs
<1> QED
  BY <1>1, <1>2, RestTyped, Elsewhere

LEMMA GoesWork ==
    ASSUME RunTypeInv, NEW r \in Responders, responder[r].pc \notin HeldPcs,
           NEW pc \in RunPcs \ (HeldPcs \cup {"take"}), RunGoes(r, pc)
    PROVE  Works(r)
<1> DEFINE s == [responder[r] EXCEPT !.pc = pc]
<1>1. Becomes(r, s) /\ s \in Responder
  BY RunMoves, ChangeTyped DEF RunTypeInv
<1>2. s.pc = pc /\ s.claimed = responder[r].claimed /\ s.on = responder[r].on
  BY NothingHeld DEF Responder
<1> HIDE DEF s
<1> QED
  BY <1>1, <1>2, NothingHeld, Elsewhere

LEMMA EndsWork ==
    ASSUME RunTypeInv, NEW r \in Responders, responder[r].pc \notin HeldPcs,
           NEW pc \in RunPcs \ (HeldPcs \cup {"take"}), NEW res \in RunOutcomes, RunEnds(r, pc, res)
    PROVE  Works(r)
<1> DEFINE s == [responder[r] EXCEPT !.pc = pc, !.res = res]
<1>1. Becomes(r, s) /\ s \in Responder
  BY RunMoves, ChangeTyped DEF RunTypeInv
<1>2. s.pc = pc /\ s.claimed = responder[r].claimed /\ s.on = responder[r].on
  BY NothingHeld DEF Responder
<1> HIDE DEF s
<1> QED
  BY <1>1, <1>2, NothingHeld, Elsewhere

LEMMA CycleWorks ==
    ASSUME RunTypeInv, NEW r \in Responders, CycleStep(r)
    PROVE  Works(r) /\ Aside
<1>0. RunTypeOK /\ responder \in [Responders -> Responder]
  BY DEF RunTypeInv, RunTypeOK
<1>1. Aside
  BY <1>0, BurstIsKept, RunIsKept, BurstReleasedTyped, FinishTypedRun, ReportTyped
  DEF CycleStep, ReleaseStaleOfRun, CycleEnds, ProcessBanRun, ListQueuedBurst, BatchEnds, Unqueue,
      StopBanRun, Aside, world
<1>2. /\ {"cycle", "list", "unqueue", "stop", "batch"} \subseteq RunPcs \ (HeldPcs \cup {"take"})
      /\ \A pc \in {"release", "cycle", "list", "unqueue", "stop", "batch"} : pc \notin HeldPcs
  BY DEF RunPcs, HeldPcs
<1>3. CASE RunRests(r)
  BY <1>1, <1>3, RestsWork
<1>4. CASE \E pc \in {"cycle", "list", "unqueue", "stop"} : RunGoes(r, pc)
  <2>1. responder[r].pc \in {"release", "cycle", "unqueue", "list", "batch", "stop"}
    BY DEF CycleStep, ReleaseStaleOfRun, CycleEnds, ProcessBanRun, ListQueuedBurst, BatchEnds,
           Unqueue, StopBanRun
  <2> QED
    BY <1>1, <1>2, <1>4, <2>1, GoesWork
<1>5. CASE ListQueuedBurst(r) /\ ~RunRests(r)
  <2> DEFINE batch == [u \in Users |-> IF burst[u].state = "queued" THEN burst[u] ELSE NoBurst]
             s == [responder[r] EXCEPT !.pc = "batch", !.batch = batch]
  <2>1. batch \in [Users -> BurstRow]
    BY <1>0, NothingTyped DEF RunTypeOK
  <2>2. responder[r].pc = "list"
        /\ responder' = [responder EXCEPT ![r].pc = "batch", ![r].batch = batch]
    BY <1>5 DEF ListQueuedBurst
  <2> HIDE DEF batch
  <2>3. Becomes(r, s)
    BY <1>0, <2>2 DEF Becomes
  <2>4. s \in Responder /\ s.pc = "batch" /\ s.claimed = responder[r].claimed /\ s.on = responder[r].on
    BY <1>0, <1>2, <2>1 DEF Responder
  <2> HIDE DEF s
  <2> QED
    BY <1>1, <1>2, <2>2, <2>3, <2>4, NothingHeld, Elsewhere
<1> QED
  BY <1>3, <1>4, <1>5
  DEF CycleStep, ReleaseStaleOfRun, CycleEnds, ProcessBanRun, BatchEnds, Unqueue, StopBanRun

LEMMA ReportWorks ==
    ASSUME RunTypeInv, NEW r \in Responders, ReportStep(r)
    PROVE  Works(r) /\ Aside
<1>0. RunTypeOK /\ responder \in [Responders -> Responder] /\ run \in RunRow
  BY DEF RunTypeInv, RunTypeOK
<1>1. Aside
  BY <1>0, BurstIsKept, RunIsKept, ReportTyped
  DEF ReportStep, ClaimBanRunReport, ReadBanRun, DeliverStep, SettleStep, GiveReportBack, Aside, world
<1>2. /\ {"read", "deliver", "settled", "giveback"} \subseteq RunPcs \ (HeldPcs \cup {"take"})
      /\ {"read", "deliver", "settled", "giveback", "cycle"} \cap HeldPcs = {}
      /\ {"retry", "failed"} \subseteq RunOutcomes
  BY DEF RunPcs, ReportPcs, HeldPcs, RunOutcomes
<1>3. responder[r].pc \in {"read", "deliver", "settled", "giveback", "cycle"}
  BY DEF ReportStep, ClaimBanRunReport, ReadBanRun, DeliverStep, SettleStep, GiveReportBack
<1>4. CASE RunRests(r)
  BY <1>1, <1>4, RestsWork
<1>5. CASE \E pc \in {"read", "settled"} : RunGoes(r, pc)
  BY <1>1, <1>2, <1>3, <1>5, GoesWork
<1>6. CASE \E res \in {"retry", "failed"} : RunEnds(r, "giveback", res)
  BY <1>1, <1>2, <1>3, <1>6, EndsWork
<1>7. CASE responder' = [responder EXCEPT ![r].pc = "deliver", ![r].seen = run]
  <2> DEFINE s == [responder[r] EXCEPT !.pc = "deliver", !.seen = run]
  <2>1. Becomes(r, s)
    BY <1>0, <1>7 DEF Becomes
  <2>2. s \in Responder /\ s.pc = "deliver" /\ s.claimed = responder[r].claimed /\ s.on = responder[r].on
    BY <1>0, <1>2 DEF Responder
  <2> HIDE DEF s
  <2> QED
    BY <1>1, <1>2, <1>3, <2>1, <2>2, NothingHeld, Elsewhere
<1>8. CASE responder' = [responder EXCEPT ![r].pc = "deliver", ![r].seen.card = TRUE,
                                          ![r].seen.attempts = 0]
  <2> DEFINE seen == [responder[r].seen EXCEPT !.card = TRUE, !.attempts = 0]
             s == [responder[r] EXCEPT !.pc = "deliver", !.seen = seen]
  <2>0. responder[r] \in Responder /\ responder[r].seen \in RunRow
    BY <1>0 DEF Responder
  <2>1. seen \in RunRow
    BY <2>0 DEF RunRow
  <2>2. Becomes(r, s)
    BY <1>0, <2>0, <1>8 DEF Becomes, Responder
  <2> HIDE DEF seen
  <2>3. s \in Responder /\ s.pc = "deliver" /\ s.claimed = responder[r].claimed /\ s.on = responder[r].on
    BY <1>2, <2>0, <2>1 DEF Responder
  <2> HIDE DEF s
  <2> QED
    BY <1>1, <1>2, <1>3, <2>2, <2>3, NothingHeld, Elsewhere
<1> QED
  BY <1>4, <1>5, <1>6, <1>7, <1>8
  DEF ReportStep, ClaimBanRunReport, ReadBanRun, DeliverStep, SettleStep, GiveReportBack

-----------------------------------------------------------------------------
\* The steps of one account.

LEMMA NextWorks ==
    ASSUME RunTypeInv, NEW r \in Responders, NEW u \in Users, NextAccount(r, u)
    PROVE  Works(r)
<1> DEFINE batch == [responder[r].batch EXCEPT ![u] = NoBurst]
           s == [AtRelease EXCEPT !.pc = "batch", !.batch = batch]
<1>1. Becomes(r, s)
  BY RunMoves DEF RunTypeInv
<1>2. batch \in [Users -> BurstRow]
  BY NothingTyped DEF RunTypeInv, RunTypeOK, Responder
<1> HIDE DEF batch
<1>3. s \in Responder /\ s.pc = "batch" /\ ~s.claimed /\ s.on = {}
  BY <1>2, RestTyped DEF AtRelease, Responder, RunPcs
<1> HIDE DEF s
<1>4. "batch" \notin HeldPcs \cup {"take"}
  BY DEF HeldPcs
<1> QED
  BY <1>1, <1>3, <1>4, Elsewhere

LEMMA TakeAccountWorks ==
    ASSUME RunTypeInv, NEW r \in Responders, NEW u \in Users, TakeAccount(r, u)
    PROVE  Works(r) /\ Aside
<1>0. RunTypeOK /\ responder \in [Responders -> Responder]
  BY DEF RunTypeInv, RunTypeOK
<1>1. Aside
  BY <1>0, BurstIsKept, RunIsKept DEF TakeAccount, Aside, world
<1>2. responder[r].pc = "batch" /\ "batch" \notin HeldPcs
  BY DEF TakeAccount, HeldPcs
<1>3. {"claim", "unqueue"} \subseteq RunPcs \ (HeldPcs \cup {"take"})
  BY DEF RunPcs, ActingPcs, HeldPcs
<1>4. CASE RunRests(r)
  BY <1>1, <1>4, RestsWork
<1>5. CASE responder' = [responder EXCEPT ![r].pc = "claim", ![r].on = {u}]
  <2> DEFINE s == [responder[r] EXCEPT !.pc = "claim", !.on = {u}]
  <2>1. Becomes(r, s)
    BY <1>0, <1>5 DEF Becomes
  <2>2. s \in Responder /\ s.pc = "claim" /\ s.claimed = responder[r].claimed /\ s.on = {u}
    BY <1>0, <1>3 DEF Responder
  <2> HIDE DEF s
  <2> QED
    BY <1>1, <1>2, <1>3, <2>1, <2>2, NothingHeld, Elsewhere
<1>6. CASE responder' = [responder EXCEPT ![r] = [AtRelease EXCEPT !.pc = "unqueue"]]
  <2> DEFINE s == [AtRelease EXCEPT !.pc = "unqueue"]
  <2>1. Becomes(r, s)
    BY <1>6 DEF Becomes
  <2>2. s \in Responder /\ s.pc = "unqueue" /\ ~s.claimed /\ s.on = {}
    BY <1>3, RestTyped DEF Responder, AtRelease
  <2> HIDE DEF s
  <2> QED
    BY <1>1, <1>3, <2>1, <2>2, Elsewhere
<1> QED
  BY <1>4, <1>5, <1>6 DEF TakeAccount

LEMMA ClaimBurstWorks ==
    ASSUME RunTypeInv, NEW r \in Responders, NEW u \in Users, ClaimBurst(r, u)
    PROVE  Works(r) /\ Aside
<1>0. RunTypeOK
  BY DEF RunTypeInv
<1>1. Aside
  BY <1>0, BurstIsKept, BurstClaimedTyped, RunIsKept DEF ClaimBurst, Aside, world
<1>2. responder[r].pc = "claim" /\ "claim" \notin HeldPcs
  BY DEF ClaimBurst, ActsOn, HeldPcs
<1>3. "joiner" \in RunPcs \ (HeldPcs \cup {"take"})
  BY DEF RunPcs, ActingPcs, HeldPcs
<1> QED
  BY <1>1, <1>2, <1>3, GoesWork, NextWorks DEF ClaimBurst

LEMMA ReadJoinerWorks ==
    ASSUME RunTypeInv, NEW r \in Responders, NEW u \in Users, ReadJoiner(r, u)
    PROVE  Works(r) /\ Aside
<1>0. RunTypeOK /\ responder[r] \in Responder /\ responder \in [Responders -> Responder]
  BY DEF RunTypeInv, RunTypeOK
<1>1. Aside
  BY <1>0, BurstIsKept, RunIsKept DEF ReadJoiner, Aside, world
<1>2. responder[r].pc = "joiner" /\ "joiner" \notin HeldPcs /\ u \in responder[r].on
  BY DEF ReadJoiner, ActsOn, RunOn, HeldPcs
<1>3. /\ "settle" \in RunPcs \ (HeldPcs \cup {"take"}) /\ {"take", "look"} \subseteq RunPcs
      /\ "settle" \notin LookPcs
      /\ {"skipped", "retry"} \subseteq RunOutcomes
  BY DEF RunPcs, ActingPcs, HeldPcs, RunOutcomes, LookPcs
<1>4. CASE \E res \in {"skipped", "retry"} : RunEnds(r, "settle", res)
  BY <1>1, <1>2, <1>3, <1>4, EndsWork
<1>5. CASE ~\E res \in {"skipped", "retry"} : RunEnds(r, "settle", res)
  <2> DEFINE res == IF rows[u].state = "exempt" THEN "skipped" ELSE "retry"
             pc == AfterJoiner(rows[u])
             s == [responder[r] EXCEPT !.joiner = rows[u], !.pc = pc, !.res = res]
  <2>1. res \in RunOutcomes
    BY <1>3
  <2>2. responder' = [responder EXCEPT ![r].joiner = rows[u], ![r].pc = pc, ![r].res = res]
    BY <1>5 DEF ReadJoiner
  <2>3. /\ pc \in {"settle", "take", "look"}
        /\ pc = "take" => rows[u].state \in ClaimableStates
        /\ pc = "look" => rows[u].state \notin ClaimableStates \cup {"exempt", "acting", "unbanning"}
    BY DEF AfterJoiner
  <2>4. pc \in RunPcs
    BY <1>3, <2>3
  <2>5. rows[u] \in JoinerRow \cup {NoRow}
    BY <1>0 DEF RunTypeOK, TypeOK
  <2> HIDE DEF res, pc
  <2>6. Becomes(r, s)
    BY <1>0, <2>2 DEF Becomes
  <2>7. /\ s \in Responder /\ s.pc = pc /\ s.joiner = rows[u]
        /\ s.on = responder[r].on /\ s.claimed = responder[r].claimed
    BY <1>0, <2>1, <2>4, <2>5 DEF Responder
  <2> HIDE DEF s
  <2>8. ~s.claimed /\ s.on = {u}
    BY <1>2, <2>7, NothingHeld
  <2>9. WellHeld(s) /\ ~PastLook(s)
    BY <2>3, <2>7, <2>8 DEF WellHeld, PastLook
  <2>10. Open(s) => pc = "look"
    BY <1>3, <2>3, <2>7 DEF Open, LookPcs
  <2>11. Proceeds(r, s)
    BY <2>3, <2>6, <2>7, <2>8, <2>9, <2>10 DEF Proceeds
  <2> QED
    BY <1>1, <2>11 DEF Works
<1> QED
  BY <1>4, <1>5

\* The look at the account, the look at the lockdown, the ban: what is held stays so.
LEMMA HeldGoesWork ==
    ASSUME RunTypeInv, NEW r \in Responders, NEW pc \in HeldPcs,
           \/ RunGoes(r, pc)
           \/ \E res \in RunOutcomes : RunEnds(r, pc, res),
           pc \in {"ban", "banned", "keep"} => PastLook(responder[r]) \/ ld = "active" \/ ~responder[r].claimed,
           pc \in LookPcs => responder[r].pc \in LookPcs,
           pc = "ban" => ld = "active", pc = "keep" => responder[r].claimed
    PROVE  /\ Works(r)
           /\ responder'[r].on = responder[r].on /\ responder'[r].claimed = responder[r].claimed
           /\ responder'[r].pc = pc
<1>0. RunTypeOK /\ responder[r] \in Responder
  BY DEF RunTypeInv, RunTypeOK
<1>1. pc \in RunPcs /\ pc # "take"
  BY DEF HeldPcs, RunPcs, ActingPcs
<1>2. PICK s \in Responder : /\ Becomes(r, s) /\ s.pc = pc /\ s.on = responder[r].on
                             /\ s.joiner = responder[r].joiner /\ s.claimed = responder[r].claimed
  <2>1. CASE RunGoes(r, pc)
    <3>1. Becomes(r, [responder[r] EXCEPT !.pc = pc]) /\ [responder[r] EXCEPT !.pc = pc] \in Responder
      BY <1>0, <1>1, <2>1, RunMoves, ChangeTyped
    <3> QED
      BY <1>0, <3>1 DEF Responder
  <2>2. ASSUME NEW res \in RunOutcomes, RunEnds(r, pc, res)
        PROVE  \E s \in Responder : /\ Becomes(r, s) /\ s.pc = pc /\ s.on = responder[r].on
                                    /\ s.joiner = responder[r].joiner /\ s.claimed = responder[r].claimed
    <3>1. /\ Becomes(r, [responder[r] EXCEPT !.pc = pc, !.res = res])
          /\ [responder[r] EXCEPT !.pc = pc, !.res = res] \in Responder
      BY <1>0, <1>1, <2>2, RunMoves, ChangeTyped
    <3> QED
      BY <1>0, <3>1 DEF Responder
  <2> QED
    BY <2>1, <2>2
<1>3. /\ PastLook(s) => PastLook(responder[r]) \/ ld = "active"
      /\ Open(s) => responder[r].pc \in LookPcs
  BY <1>2 DEF PastLook, Open
<1> QED
  BY <1>0, <1>1, <1>2, <1>3, KeepsHands, BecomesTyped

LEMMA DecideWorks ==
    ASSUME RunTypeInv, NEW r \in Responders, NEW u \in Users, DecideBan(r, u) \/ RereadLockdown(r, u)
    PROVE  Works(r) /\ Aside
<1>1. Aside
  BY BurstIsKept, RunIsKept DEF RunTypeInv, DecideBan, RereadLockdown, RunErrs, Aside, world
<1>2. /\ {"putback", "reread", "ban"} \subseteq HeldPcs /\ {"reread", "ban"} \subseteq LookPcs
      /\ "putback" \notin LookPcs /\ {"skipped", "retry", "failed"} \subseteq RunOutcomes
      /\ responder[r].pc \in LookPcs
  BY DEF DecideBan, RereadLockdown, ActsOn, HeldPcs, LookPcs, RunOutcomes
<1>3. CASE \E res \in RunOutcomes : RunEnds(r, "putback", res)
  BY <1>1, <1>2, <1>3, HeldGoesWork
<1>4. CASE RunGoes(r, "reread")
  BY <1>1, <1>2, <1>4, HeldGoesWork
<1>5. CASE RunGoes(r, "ban") /\ ld = "active"
  BY <1>1, <1>2, <1>5, HeldGoesWork
<1> QED
  BY <1>2, <1>3, <1>4, <1>5 DEF DecideBan, RereadLockdown, RunErrs

LEMMA BanWorks ==
    ASSUME RunTypeInv, NEW r \in Responders, NEW u \in Users, BanForGood(r, u)
    PROVE  /\ Works(r) /\ NoneOpens /\ RunGoesOn /\ (Fault \/ NoFault)
           /\ responder'[r].on = responder[r].on
           /\ tg' \in {tg, [tg EXCEPT ![u] = Kicked(0)]}
<1>1. NoneOpens /\ RunGoesOn /\ (Fault \/ NoFault) /\ tg' \in {tg, [tg EXCEPT ![u] = Kicked(0)]}
  BY BurstIsKept, RunIsKept DEF RunTypeInv, BanForGood, RunErrs
<1>2. /\ {"putback", "banned"} \subseteq HeldPcs /\ {"putback", "banned"} \cap LookPcs = {}
      /\ {"retry", "failed"} \subseteq RunOutcomes
      /\ responder[r].claimed => PastLook(responder[r])
  BY DEF BanForGood, ActsOn, HeldPcs, LookPcs, RunOutcomes, PastLook
<1>3. CASE \E res \in RunOutcomes : RunEnds(r, "putback", res)
  BY <1>1, <1>2, <1>3, HeldGoesWork
<1>4. CASE RunGoes(r, "banned")
  BY <1>1, <1>2, <1>4, HeldGoesWork
<1> QED
  BY <1>2, <1>3, <1>4 DEF BanForGood, RunErrs

LEMMA RecordBannedWorks ==
    ASSUME RunTypeInv, NEW r \in Responders, NEW u \in Users, RecordBanned(r, u)
    PROVE  Works(r) /\ Aside
<1>1. Aside
  BY BurstIsKept, RunIsKept, MoveBurstTyped DEF RunTypeInv, RecordBanned, Aside, world
<1>2. /\ "keep" \in HeldPcs /\ "keep" \notin LookPcs
      /\ responder[r].claimed => PastLook(responder[r])
  BY DEF RecordBanned, ActsOn, HeldPcs, LookPcs, PastLook
<1>3. CASE NextAccount(r, u)
  BY <1>1, <1>3, NextWorks
<1>4. CASE responder[r].claimed /\ RunGoes(r, "keep")
  BY <1>1, <1>2, <1>4, HeldGoesWork
<1> QED
  BY <1>3, <1>4 DEF RecordBanned

LEMMA SettleWorks ==
    ASSUME RunTypeInv, NEW r \in Responders, NEW u \in Users, SettleAccount(r, u)
    PROVE  Works(r) /\ Aside
<1> DEFINE res == responder[r].res
           to == CASE res = "skipped" -> "skipped"
                   [] res = "failed" /\ LastAttempt(responder[r].batch[u]) -> "failed"
                   [] OTHER -> "queued"
<1>1. to \in {"banned", "skipped", "failed", "queued"} /\ (res = "failed") \in BOOLEAN
  OBVIOUS
<1>2. \/ MoveBurst(u, to, res = "failed") /\ NoFault
      \/ UNCHANGED burst /\ Fault
  BY DEF SettleAccount
<1> HIDE DEF to, res
<1>3. NoneOpens
  BY <1>1, <1>2, BurstIsKept, MoveBurstTyped DEF RunTypeInv
<1>4. Aside
  BY <1>2, <1>3, RunIsKept DEF RunTypeInv, SettleAccount, Aside, world
<1> QED
  BY <1>4, NextWorks DEF SettleAccount

\* The claim of a joiner row.
LEMMA TakeWorks ==
    ASSUME RunTypeInv, NEW r \in Responders, NEW u \in Users, TakeJoiner(r, u)
    PROVE  /\ NoneOpens /\ RunGoesOn /\ (Fault \/ NoFault)
           /\ TakesRow(r, u) \/ (Works(r) /\ UNCHANGED world)
<1>0. RunTypeOK /\ TypeOK /\ WellHeld(responder[r]) /\ responder[r] \in Responder
  BY DEF RunTypeInv, RunTypeOK, RunHandInv
<1>1. NoneOpens /\ RunGoesOn /\ (Fault \/ NoFault)
  BY <1>0, BurstIsKept, RunIsKept DEF TakeJoiner
<1>2. /\ responder[r].pc = "take" /\ u \in responder[r].on
      /\ responder[r].joiner.state \in ClaimableStates
      /\ responder[r].on = {u}
  BY <1>0 DEF TakeJoiner, ActsOn, RunOn, WellHeld
<1>3. /\ "take" \notin HeldPcs /\ "settle" \in RunPcs \ (HeldPcs \cup {"take"})
      /\ "look" \in RunPcs /\ "look" \in HeldPcs /\ "retry" \in RunOutcomes
  BY DEF HeldPcs, RunPcs, ActingPcs, RunOutcomes
<1>4. CASE RunEnds(r, "settle", "retry") /\ UNCHANGED rows
  <2>1. Works(r)
    BY <1>2, <1>3, <1>4, EndsWork
  <2> QED
    BY <1>1, <1>4, <2>1 DEF TakeJoiner, world
<1>5. CASE /\ Matches(u, responder[r].joiner.id, {responder[r].joiner.state})
           /\ rows' = [rows EXCEPT ![u] = InState(rows[u], "acting")]
           /\ responder' = [responder EXCEPT ![r].pc = "look", ![r].claimed = TRUE]
  <2> DEFINE s == [responder[r] EXCEPT !.pc = "look", !.claimed = TRUE]
  <2>1. Becomes(r, s)
    BY <1>0, <1>5 DEF Becomes, RunTypeOK
  <2>2. /\ s \in Responder /\ s.pc = "look" /\ s.claimed /\ s.on = {u}
        /\ s.joiner = responder[r].joiner
    BY <1>0, <1>2, <1>3 DEF Responder
  <2> HIDE DEF s
  <2>3. WellHeld(s)
    BY <1>2, <1>3, <2>2 DEF WellHeld
  <2>4. rows[u].state \in ClaimableStates /\ rows[u] \in JoinerRow
    BY <1>0, <1>2, <1>5, StateMakesRow, StatesTyped DEF Matches
  <2>5. rows'[u] = InState(rows[u], "acting") /\ OnlyRow(u)
    BY <1>0, <1>5 DEF TypeOK, OnlyRow
  <2>6. Moved(u, "acting")
    BY <1>0, <2>4, <2>5, InStateMoves
  <2>7. UNCHANGED <<ld, tg, guard, worker>>
    BY DEF TakeJoiner
  <2>8. rows' \in [Users -> JoinerRow \cup {NoRow}]
    BY <1>0, <1>5, <2>4, InStateTyped, RowWritten, StatesTyped
  <2> QED
    BY <1>1, <2>1, <2>2, <2>3, <2>4, <2>5, <2>6, <2>7, <2>8 DEF TakesRow
<1> QED
  BY <1>4, <1>5 DEF TakeJoiner

\* The end of a claim.
LEMMA GiveWorks ==
    ASSUME RunTypeInv, NEW r \in Responders, NEW u \in Users, KeepJoiner(r, u) \/ RestoreJoiner(r, u)
    PROVE  /\ NoneOpens /\ RunGoesOn /\ (Fault \/ NoFault)
           /\ GivesRowBack(r, u) \/ (Works(r) /\ UNCHANGED world)
<1>0. RunTypeOK /\ TypeOK /\ WellHeld(responder[r]) /\ responder[r] \in Responder
  BY DEF RunTypeInv, RunTypeOK, RunHandInv
<1>1. /\ NoneOpens /\ RunGoesOn /\ (Fault \/ NoFault) /\ UNCHANGED <<ld, tg, guard, worker>>
      /\ u \in responder[r].on
  BY <1>0, BurstIsKept, RunIsKept DEF KeepJoiner, RestoreJoiner, ActsOn, RunOn
<1>2. PICK s \in Responder : /\ Becomes(r, s) /\ ~s.claimed /\ s.pc \in {"batch", "settle"}
                             /\ WellHeld(s) /\ Works(r)
  <2>0. {"batch", "settle"} \cap (HeldPcs \cup {"take"}) = {} /\ {"batch", "settle"} \subseteq RunPcs
    BY DEF HeldPcs, RunPcs, ActingPcs
  <2>1. CASE KeepJoiner(r, u)
    <3>1. Works(r)
      BY <2>1, NextWorks DEF KeepJoiner
    <3> DEFINE batch == [responder[r].batch EXCEPT ![u] = NoBurst]
               s == [AtRelease EXCEPT !.pc = "batch", !.batch = batch]
    <3>2. Becomes(r, s)
      BY <1>0, <2>1, RunMoves DEF KeepJoiner
    <3>3. batch \in [Users -> BurstRow]
      BY <1>0, NothingTyped DEF Responder
    <3> HIDE DEF batch
    <3>4. s \in Responder /\ s.pc = "batch" /\ ~s.claimed /\ s.on = {}
      BY <2>0, <3>3, RestTyped DEF AtRelease, Responder
    <3> HIDE DEF s
    <3>5. WellHeld(s)
      BY <3>4 DEF WellHeld
    <3> QED
      BY <3>1, <3>2, <3>4, <3>5
  <2>2. CASE RestoreJoiner(r, u)
    <3> DEFINE s == [responder[r] EXCEPT !.pc = "settle", !.claimed = FALSE]
    <3>1. Becomes(r, s)
      BY <1>0, <2>2 DEF RestoreJoiner, Becomes, RunTypeOK
    <3>2. s \in Responder /\ s.pc = "settle" /\ ~s.claimed /\ s.on = responder[r].on
      BY <1>0, <2>0 DEF Responder
    <3> HIDE DEF s
    <3>3. WellHeld(s)
      BY <1>0, <3>2 DEF WellHeld
    <3>4. Works(r)
      BY <2>0, <3>1, <3>2, <3>3, Elsewhere DEF WellHeld
    <3> QED
      BY <3>1, <3>2, <3>3, <3>4
  <2> QED
    BY <2>1, <2>2
<1>3. s.pc \notin LookPcs
  BY <1>2 DEF LookPcs
<1>4. CASE UNCHANGED rows
  BY <1>1, <1>2, <1>4 DEF world
<1>5. ASSUME NEW state \in ClaimableStates, responder[r].claimed,
             MoveJoiner(u, responder[r].joiner.id, "acting", state, FALSE)
      PROVE  GivesRowBack(r, u)
  <2>1. /\ OnlyRow(u)
        /\ rows' = rows \/ (rows[u].state = "acting" /\ Moved(u, state))
    BY <1>0, <1>5, MoveMoves, StatesTyped DEF Matches
  <2>2. RunHolds(r, u)
    BY <1>1, <1>5 DEF RunHolds, RunOn
  <2>3. rows' \in [Users -> JoinerRow \cup {NoRow}]
    BY <1>0, <1>5, MoveTyped, StatesTyped
  <2> QED
    BY <1>1, <1>2, <1>3, <1>5, <2>1, <2>2, <2>3 DEF GivesRowBack
<1>6. CASE KeepJoiner(r, u)
  <2>1. responder[r].claimed /\ "kept" \in ClaimableStates
    BY <1>0, <1>6 DEF KeepJoiner, ActsOn, WellHeld, ClaimableStates
  <2> QED
    BY <1>1, <1>4, <1>5, <1>6, <2>1 DEF KeepJoiner
<1>7. CASE RestoreJoiner(r, u) /\ responder[r].claimed
  <2>1. responder[r].joiner.state \in ClaimableStates
    BY <1>0, <1>7 DEF WellHeld
  <2> QED
    BY <1>1, <1>4, <1>5, <1>7, <2>1 DEF RestoreJoiner
<1>8. CASE RestoreJoiner(r, u) /\ ~responder[r].claimed
  BY <1>1, <1>4, <1>8 DEF RestoreJoiner
<1> QED
  BY <1>6, <1>7, <1>8

-----------------------------------------------------------------------------
\* All steps, in the kinds the invariants tell apart.

\* A step of r that opens no account: it leaves the joiners' side alone, claims a row,
\* gives one back, or bans.
RunSteps(r) ==
    /\ NoneOpens /\ RunGoesOn /\ (Fault \/ NoFault)
    /\ \/ Works(r) /\ UNCHANGED world
       \/ \E u \in Users : TakesRow(r, u) \/ GivesRowBack(r, u) \/ (BanForGood(r, u) /\ Works(r))

Confirms == BanConfirmReads \/ BanConfirmStarts

LEMMA ResponderSteps ==
    ASSUME RunTypeInv, NEW r \in Responders, ResponderStep(r) \/ ResponderStops(r)
    PROVE  RunSteps(r)
<1>1. CASE CycleStep(r) \/ ReportStep(r)
  BY <1>1, CycleWorks, ReportWorks DEF RunSteps, Aside
<1>2. ASSUME NEW u \in Users, ActsOnAccount(r, u)
      PROVE  RunSteps(r)
  <2>1. CASE TakeAccount(r, u) \/ ClaimBurst(r, u) \/ ReadJoiner(r, u) \/ DecideBan(r, u)
             \/ RereadLockdown(r, u) \/ RecordBanned(r, u) \/ SettleAccount(r, u)
    BY <2>1, TakeAccountWorks, ClaimBurstWorks, ReadJoinerWorks, DecideWorks, RecordBannedWorks,
       SettleWorks DEF RunSteps, Aside
  <2>2. CASE TakeJoiner(r, u) \/ KeepJoiner(r, u) \/ RestoreJoiner(r, u)
    BY <2>2, TakeWorks, GiveWorks DEF RunSteps
  <2>3. CASE BanForGood(r, u)
    BY <2>3, BanWorks DEF RunSteps
  <2> QED
    BY <1>2, <2>1, <2>2, <2>3 DEF ActsOnAccount
<1>3. CASE ResponderStops(r)
  <2>1. Works(r)
    BY <1>3, RestsWork DEF ResponderStops
  <2> QED
    BY <1>3, <2>1, BurstIsKept, RunIsKept DEF RunTypeInv, ResponderStops, RunSteps, world
<1> QED
  BY <1>1, <1>2, <1>3 DEF ResponderStep, CycleStep, ReportStep

LEMMA RunKinds ==
    ASSUME RunTypeInv, [RunNext]_allVars
    PROVE  \/ [Next]_vars /\ UNCHANGED runVars /\ (Beside \/ UNCHANGED allVars)
           \/ Confirms
           \/ \E r \in Responders : RunSteps(r)
           \/ Aside /\ UNCHANGED responder
<1>1. CASE Beside
  BY <1>1 DEF Beside
<1>2. CASE UNCHANGED allVars
  BY <1>2 DEF allVars, vars, runVars
<1>3. ASSUME NEW u \in Users, BurstClaimExpires(u)
      PROVE  Aside /\ UNCHANGED responder
  BY <1>3, BurstClaimedTyped, RunIsKept DEF RunTypeInv, BurstClaimExpires, Aside, world
<1>4. CASE ReportClaimExpires
  BY <1>4, BurstIsKept, ReportTyped DEF RunTypeInv, ReportClaimExpires, Aside, world
<1> QED
  BY <1>1, <1>2, <1>3, <1>4, ResponderSteps DEF RunNext, Confirms

\* What a step of r leaves to the other responders.
LEMMA OthersStay ==
    ASSUME RunTypeInv, NEW r \in Responders, RunSteps(r)
    PROVE  /\ responder' \in [Responders -> Responder]
           /\ OtherRuns(r) /\ WellHeld(responder'[r])
<1>1. PICK s \in Responder : Becomes(r, s) /\ WellHeld(s)
  BY DEF RunSteps, Works, Proceeds, TakesRow, GivesRowBack
<1> QED
  BY <1>1, BecomesTyped DEF RunTypeInv

LEMMA ConfirmTyped ==
    ASSUME RunTypeInv, Confirms
    PROVE  /\ UNCHANGED <<ld, tg, rows, guard, worker, responder>> /\ (Fault \/ NoFault)
           /\ run' \in RunRow /\ burst' \in [Users -> BurstRow]
           /\ \/ UNCHANGED burst /\ run.state \in {"none", "asked"}
              \/ run.state = "asked" /\ run'.state = "running"
              \/ /\ run.state = "asked" /\ run'.state = "done"
                 /\ \A u \in Users : burst'[u].state \in {"queued", "acting"} =>
                        burst[u].state \in {"queued", "acting"}
<1>0. run \in RunRow /\ burst \in [Users -> BurstRow] /\ RunTypeOK
  BY DEF RunTypeInv, RunTypeOK
<1>1. CASE BanConfirmReads
  BY <1>0, <1>1 DEF BanConfirmReads, RunRow
<1>2. CASE BanConfirmStarts /\ UNCHANGED burst /\ run' = NoRun
  BY <1>0, <1>2, NothingTyped DEF BanConfirmStarts
<1>3. ASSUME NEW excluded \in SUBSET Users, StartBanRun(excluded), BanConfirmStarts
      PROVE  /\ run' \in RunRow /\ burst' \in [Users -> BurstRow]
             /\ \/ run'.state = "running"
                \/ /\ run'.state = "done"
                   /\ \A u \in Users : burst'[u].state \in {"queued", "acting"} =>
                          burst[u].state \in {"queued", "acting"}
  <2> DEFINE copied == [u \in Users |-> IF burst[u] = NoBurst /\ rows[u] # NoRow
                                        THEN [NoBurst EXCEPT !.state = "unhandled"] ELSE burst[u]]
             queued == {u \in Users \ excluded : Unhandled(copied[u]) /\ rows[u].state # "exempt"}
             new(u) == IF ~Unhandled(copied[u]) THEN copied[u]
                       ELSE IF u \in queued THEN [copied[u] EXCEPT !.state = "queued"]
                       ELSE IF rows[u].state = "exempt" THEN [copied[u] EXCEPT !.state = "skipped"]
                       ELSE copied[u]
  <2>1. /\ burst' = [u \in Users |-> new(u)]
        /\ run' = IF queued # {} THEN [NoRun EXCEPT !.state = "running"]
                  ELSE [NoRun EXCEPT !.state = "done", !.reported = TRUE]
    BY <1>3 DEF StartBanRun
  <2>2. \A u \in Users :
          /\ copied[u] \in BurstRow
          /\ copied[u].state \in {"queued", "acting"} => burst[u].state \in {"queued", "acting"}
    <3> SUFFICES ASSUME NEW u \in Users
                 PROVE  /\ copied[u] \in BurstRow
                        /\ copied[u].state \in {"queued", "acting"} => burst[u].state \in {"queued", "acting"}
      OBVIOUS
    <3>1. [NoBurst EXCEPT !.state = "unhandled"] \in BurstRow
          /\ [NoBurst EXCEPT !.state = "unhandled"].state = "unhandled"
      BY DEF NoBurst, BurstRow
    <3> QED
      BY <1>0, <3>1
  <2> HIDE DEF copied
  <2>3. \A u \in Users :
          /\ new(u) \in BurstRow
          /\ queued = {} /\ new(u).state \in {"queued", "acting"} => copied[u].state \in {"queued", "acting"}
    <3> SUFFICES ASSUME NEW u \in Users
                 PROVE  /\ new(u) \in BurstRow
                        /\ queued = {} /\ new(u).state \in {"queued", "acting"} =>
                             copied[u].state \in {"queued", "acting"}
      OBVIOUS
    <3>1. \A state \in {"queued", "skipped"} :
            /\ [copied[u] EXCEPT !.state = state] \in BurstRow
            /\ [copied[u] EXCEPT !.state = state].state = state
      BY <2>2 DEF BurstRow
    <3> HIDE DEF queued
    <3> QED
      BY <2>2, <3>1
  <2> HIDE DEF new, queued
  <2>4. /\ [NoRun EXCEPT !.state = "running"] \in RunRow
        /\ [NoRun EXCEPT !.state = "running"].state = "running"
        /\ [NoRun EXCEPT !.state = "done", !.reported = TRUE] \in RunRow
        /\ [NoRun EXCEPT !.state = "done", !.reported = TRUE].state = "done"
    BY DEF NoRun, RunRow
  <2> QED
    BY <2>1, <2>2, <2>3, <2>4
<1> QED
  BY <1>1, <1>2, <1>3 DEF Confirms, BanConfirmStarts

-----------------------------------------------------------------------------
LEMMA RunTypeInit == RunInit => RunTypeInv
<1> SUFFICES ASSUME RunInit
             PROVE  RunTypeInv
  OBVIOUS
<1>1. PICK pre \in SUBSET Users :
        /\ burst = [u \in Users |-> IF u \in pre THEN [NoBurst EXCEPT !.state = "unhandled"] ELSE NoBurst]
        /\ InitWith({s \in [Users -> {Left, Asking, Member}] :
                        \A u \in Users : s[u] = Member => u \in pre})
  BY DEF RunInit
<1>2. TypeOK
  <2>1. NoRow \in JoinerRow \cup {NoRow} /\ NoBatch \in [Users -> JoinerRow \cup {NoRow}]
    BY DEF NoBatch
  <2>2. Idle \in Worker
    BY <2>1 DEF Idle, Worker, WorkerPcs, Outcomes
  <2>3. worker \in [Workers -> Worker]
    BY <1>1, <2>2 DEF InitWith
  <2>4. guard \in [Updates -> Update]
    <3>1. PICK u \in Users :
            guard = [d \in Updates |-> [Sent(u, "member", "self") EXCEPT !.pc = "unsent"]]
      BY <1>1 DEF InitWith
    <3>2. [Sent(u, "member", "self") EXCEPT !.pc = "unsent"] \in Update
      BY DEF Sent, Update, GuardPcs, Paths, MaxLooks
    <3> QED
      BY <3>1, <3>2
  <2>5. tg \in [Users -> {Left, Asking, Member} \cup {Kicked(t) : t \in Dates}]
    BY <1>1 DEF InitWith
  <2>6. ld = "active" /\ rows = [u \in Users |-> NoRow] /\ faults \in 0..MaxFaults
    BY <1>1, BoundsAssumption DEF InitWith
  <2> QED
    BY <2>1, <2>3, <2>4, <2>5, <2>6 DEF TypeOK, Update, Worker
<1>3. [NoBurst EXCEPT !.state = "unhandled"] \in BurstRow /\ NoBurst \in BurstRow
  BY DEF NoBurst, BurstRow
<1>4. WellHeld(AtRelease)
  BY DEF WellHeld, AtRelease
<1>5. run = NoRun /\ responder = [r \in Responders |-> AtRelease]
  BY DEF RunInit
<1> QED
  BY <1>1, <1>2, <1>3, <1>4, <1>5, NothingTyped, RestTyped
  DEF RunTypeInv, RunTypeOK, RunHandInv

\* A step of the run keeps the types of the joiners' variables.
LEMMA WorldTyped ==
    ASSUME RunTypeInv, NEW r \in Responders, RunSteps(r)
    PROVE  TypeOK'
<1>0. TypeOK
  BY DEF RunTypeInv, RunTypeOK
<1>1. UNCHANGED <<tg, rows>> => TypeOK'
  <2> SUFFICES ASSUME UNCHANGED <<tg, rows>>
               PROVE  TypeOK'
    OBVIOUS
  <2>1. UNCHANGED <<ld, guard, worker>> /\ (Fault \/ NoFault)
    BY DEF RunSteps, TakesRow, GivesRowBack, BanForGood, world
  <2> QED
    BY <1>0, <2>1, FaultsTyped DEF TypeOK
<1>2. CASE UNCHANGED world
  BY <1>1, <1>2 DEF world
<1>3. ASSUME NEW u \in Users, BanForGood(r, u)
      PROVE  TypeOK'
  <2>1. tg' \in {tg, [tg EXCEPT ![u] = Kicked(0)]}
    BY <1>3, BanWorks
  <2>2. tg' \in [Users -> {Left, Asking, Member} \cup {Kicked(t) : t \in Dates}]
    BY <1>0, <2>1, UpdatesAreDates DEF TypeOK
  <2>3. UNCHANGED <<ld, guard, worker, rows>> /\ (Fault \/ NoFault)
    BY <1>3 DEF BanForGood, RunErrs
  <2> QED
    BY <1>0, <2>2, <2>3, FaultsTyped DEF TypeOK
<1>4. ASSUME rows' \in [Users -> JoinerRow \cup {NoRow}],
             UNCHANGED <<ld, tg, guard, worker>>
      PROVE  TypeOK'
  BY <1>0, <1>4, FaultsTyped DEF TypeOK, RunSteps
<1>5. ASSUME NEW u \in Users, TakesRow(r, u) \/ GivesRowBack(r, u)
      PROVE  TypeOK'
  BY <1>4, <1>5 DEF TakesRow, GivesRowBack
<1> QED
  BY <1>2, <1>3, <1>5 DEF RunSteps

LEMMA RunTypeStep ==
    ASSUME RunTypeInv, [RunNext]_allVars
    PROVE  RunTypeInv'
<1>0. TypeOK /\ RunTypeOK /\ burst \in [Users -> BurstRow] /\ run \in RunRow
  BY DEF RunTypeInv, RunTypeOK
<1>1. CASE [Next]_vars /\ UNCHANGED runVars
  <2>1. TypeOK'
    BY <1>0, <1>1, StepTyped
  <2> QED
    BY <1>1, <2>1 DEF RunTypeInv, RunTypeOK, RunHandInv, runVars
<1>2. ASSUME UNCHANGED <<ld, tg, rows, guard, worker>>, Fault \/ NoFault
      PROVE  TypeOK'
  BY <1>0, <1>2, FaultsTyped DEF TypeOK
<1>3. CASE Confirms
  <2>1. /\ UNCHANGED <<ld, tg, rows, guard, worker, responder>> /\ (Fault \/ NoFault)
        /\ run' \in RunRow /\ burst' \in [Users -> BurstRow]
    BY <1>3, ConfirmTyped
  <2> QED
    BY <1>2, <2>1 DEF RunTypeInv, RunTypeOK, RunHandInv
<1>4. ASSUME NEW r \in Responders, RunSteps(r)
      PROVE  RunTypeInv'
  <2>1. TypeOK' /\ responder' \in [Responders -> Responder]
    BY <1>4, WorldTyped, OthersStay
  <2>2. burst' \in [Users -> BurstRow] /\ run' \in RunRow
    BY <1>4 DEF RunSteps, NoneOpens, RunGoesOn
  <2>3. OtherRuns(r) /\ WellHeld(responder'[r])
    BY <1>4, OthersStay
  <2>4. RunHandInv'
    BY <2>3 DEF RunTypeInv, RunHandInv, OtherRuns
  <2> QED
    BY <2>1, <2>2, <2>4 DEF RunTypeInv, RunTypeOK
<1>5. CASE Aside /\ UNCHANGED responder
  BY <1>2, <1>5 DEF Aside, NoneOpens, RunGoesOn, world, RunTypeInv, RunTypeOK, RunHandInv
<1> QED
  BY <1>1, <1>3, <1>4, <1>5, RunKinds

LEMMA RunTypesHold == RunSpec => []RunTypeInv
BY RunTypeInit, RunTypeStep, PTL DEF RunSpec

\* In every instance the variables of the ban run and of the joiners beside it keep
\* their types: the burst rows, the run with its report, and what each responder has
\* in hand.
THEOREM RunTypeCorrect == RunSpec => []RunTypeOK
<1>1. RunTypeInv => RunTypeOK
  BY DEF RunTypeInv
<1> QED
  BY <1>1, RunTypesHold, PTL

-----------------------------------------------------------------------------
\* The end of the run.  Nobody is open before it starts either, and StartBanRun
\* leaves nobody open where it has nobody to queue.
HandledInv == run.state \in {"none", "asked", "done"} => NoneOpen

LEMMA HandledInit == RunInit => HandledInv
<1>1. [NoBurst EXCEPT !.state = "unhandled"].state = "unhandled" /\ NoBurst.state = "absent"
  BY DEF NoBurst
<1> QED
  BY <1>1 DEF RunInit, HandledInv, NoneOpen

LEMMA HandledStep ==
    ASSUME RunTypeInv, HandledInv, [RunNext]_allVars
    PROVE  HandledInv'
<1>1. CASE UNCHANGED runVars
  BY <1>1 DEF HandledInv, NoneOpen, runVars
<1>2. CASE Confirms
  BY <1>2, ConfirmTyped DEF HandledInv, NoneOpen
<1>3. CASE NoneOpens /\ RunGoesOn
  BY <1>3 DEF HandledInv, NoneOpen, NoneOpens, RunGoesOn
<1> QED
  BY <1>1, <1>2, <1>3, RunKinds DEF RunSteps, Aside

\* In every instance a run that is done has handled every account it queued: those
\* that another responder has in flight, or that one which stopped left claimed, keep
\* it running (FinishBanRun, ReleaseStaleBurstClaims).
THEOREM DoneIsHandled == RunSpec => []DoneMeansHandled
<1>1. RunInit => RunTypeInv /\ HandledInv
  BY RunTypeInit, HandledInit
<1>2. RunTypeInv /\ HandledInv /\ [RunNext]_allVars => (RunTypeInv /\ HandledInv)'
  BY RunTypeStep, HandledStep
<1>3. HandledInv => DoneMeansHandled
  BY DEF HandledInv, DoneMeansHandled
<1> QED
  BY <1>1, <1>2, <1>3, PTL DEF RunSpec

-----------------------------------------------------------------------------
\* The rows the run holds.  Whoever holds one holds its claim, and alone: no worker
\* and no other responder has it in hand.
HoldsAlone(r, u) ==
    /\ rows[u].state = "acting" /\ ~rows[u].stale
    /\ \A w \in Workers : u \notin worker[w].on
    /\ \A s \in Responders : RunHolds(s, u) => s = r

HeldInv == \A r \in Responders, u \in Users : RunHolds(r, u) => HoldsAlone(r, u)

\* What the joiners' proofs need of a step beside the run.
HandsInv == SentInOrder /\ HandInv /\ ClaimInv

\* A claimed row that no worker has in hand and that is not stale stays as it is, but
\* for its age.
LEMMA HeldStays ==
    ASSUME TypeOK, HandsInv, [Next]_vars, NEW u \in Users,
           rows[u].state = "acting", ~rows[u].stale, \A w \in Workers : u \notin worker[w].on
    PROVE  rows'[u].state = "acting" /\ \A w \in Workers : u \notin worker'[w].on
<1>0. SentInOrder /\ HandInv
  BY DEF HandsInv
<1>1. ASSUME NEW d \in Updates, GuardWorks(d)
      PROVE  rows'[u] = rows[u]
  <2>1. rows[u] # NoRow /\ rows[u].state \notin ReclaimStates \cup {"pending"}
    BY DEF ReclaimStates, NoRow
  <2> QED
    BY <1>1, <2>1
    DEF GuardWorks, GuardLooks, GuardInserts, GuardReclaims, GuardMoves, GuardDeletes, OnlyRow, Matches
<1>2. ASSUME NEW w \in Workers, WorkerWorks(w)
      PROVE  rows'[u] = rows[u] /\ \A v \in Workers : u \notin worker'[v].on
  <2>1. ~Claims(w, u)
    BY DEF Claims
  <2>2. \A v \in Workers : u \notin worker'[v].on
    BY <1>0, <1>2, <2>1, OnGrowsByClaim
  <2>3. Turns(w) => rows'[u] = rows[u]
    BY DEF Turns, Swept
  <2>4. ASSUME NEW x \in Users, Claims(w, x) \/ Records(w, x)
        PROVE  rows'[u] = rows[u]
    BY <2>1, <2>4 DEF Claims, Records, OnlyRow
  <2>5. rows'[u] = rows[u]
    BY <1>2, <2>3, <2>4 DEF WorkerWorks, Lists, Drops, Calls
  <2> QED
    BY <2>2, <2>5
<1>3. ASSUME NEW w \in Workers, WorkerStops(w)
      PROVE  rows' = rows /\ \A v \in Workers : u \notin worker'[v].on
  BY <1>3, StoppedIsIdle DEF Others
<1>4. ASSUME NEW x \in Users, WindowCloses(x) \/ ClaimExpires(x)
      PROVE  rows'[u].state = rows[u].state /\ UNCHANGED worker
  BY <1>4, RowsAge DEF Ages, OnlyRow, WindowCloses, ClaimExpires
<1> QED
  BY <1>0, <1>1, <1>2, <1>3, <1>4, Kinds, SendingKeeps, WorkerStepWorks
  DEF GuardWorks, Strays, Lifts, vars

LEMMA HandsBeside ==
    ASSUME "slow call" \notin Hazards, TypeOK, HandsInv, [Next]_vars
    PROVE  HandsInv'
BY SentStep, HandStep, ClaimStep DEF HandsInv

\* The holder's row, under a step of the run.
LEMMA RunLeavesHands ==
    ASSUME RunTypeInv, HandsInv, HeldInv, NEW r \in Responders, RunSteps(r)
    PROVE  HandsInv'
<1>1. UNCHANGED <<guard, worker>>
  BY DEF RunSteps, TakesRow, GivesRowBack, BanForGood, world
<1>2. SentInOrder' /\ HandInv'
  BY <1>1 DEF HandsInv, SentInOrder, HandInv, BatchOf
<1>3. ASSUME NEW w \in Workers, NEW u \in worker[w].on
      PROVE  rows'[u] = rows[u]
  <2>1. u \in Users /\ rows[u].state \in {"acting", "unbanning"}
    BY <1>3, OnAreUsers DEF RunTypeInv, RunTypeOK, HandsInv, ClaimInv, Holds
  <2>2. ~TakesRow(r, u)
    BY <2>1 DEF TakesRow, ClaimableStates
  <2>3. ~GivesRowBack(r, u)
    BY <1>3, <2>1 DEF GivesRowBack, HeldInv, HoldsAlone
  <2> QED
    BY <2>1, <2>2, <2>3 DEF RunSteps, TakesRow, GivesRowBack, BanForGood, OnlyRow, world
<1>4. ClaimInv'
  <2> SUFFICES ASSUME NEW w \in Workers, NEW u \in worker[w].on
               PROVE  Holds(w, u)'
    BY <1>1 DEF ClaimInv
  <2>1. Holds(w, u) /\ rows'[u] = rows[u]
    BY <1>3 DEF HandsInv, ClaimInv
  <2> QED
    BY <1>1, <2>1 DEF Holds
<1> QED
  BY <1>2, <1>4 DEF HandsInv

LEMMA HeldInit == RunInit => HandsInv /\ HeldInv
<1> SUFFICES ASSUME RunInit
             PROVE  HandsInv /\ HeldInv
  OBVIOUS
<1>1. PICK people : InitWith(people)
  BY DEF RunInit
<1>2. worker = [w \in Workers |-> Idle] /\ Idle.on = {} /\ Idle.pc = "release"
  BY <1>1 DEF InitWith, Idle
<1>3. \A d \in Updates : guard[d].pc = "unsent"
  <2>1. PICK u \in Users :
          guard = [d \in Updates |-> [Sent(u, "member", "self") EXCEPT !.pc = "unsent"]]
    BY <1>1 DEF InitWith
  <2>2. [Sent(u, "member", "self") EXCEPT !.pc = "unsent"].pc = "unsent"
    BY DEF Sent
  <2> QED
    BY <2>1, <2>2
<1>4. SentInOrder
  BY <1>3 DEF SentInOrder
<1>5. HandInv /\ ClaimInv
  BY <1>2 DEF HandInv, ClaimInv, Banning, Lifting
<1>6. \A r \in Responders : ~responder[r].claimed
  BY DEF RunInit, AtRelease
<1> QED
  BY <1>4, <1>5, <1>6 DEF HandsInv, HeldInv, RunHolds

LEMMA HeldStep ==
    ASSUME RunTypeInv, HandsInv, HeldInv, [RunNext]_allVars
    PROVE  HeldInv'
<1>0. TypeOK /\ HandsInv /\ ClaimInv
  BY DEF RunTypeInv, RunTypeOK, HandsInv
<1>1. CASE UNCHANGED <<rows, worker, responder>>
  BY <1>1 DEF HeldInv, HoldsAlone, RunHolds, RunOn
<1>2. CASE Beside
  <2> SUFFICES ASSUME NEW r \in Responders, NEW u \in Users, RunHolds(r, u)'
               PROVE  HoldsAlone(r, u)'
    BY DEF HeldInv
  <2>1. [Next]_vars /\ UNCHANGED responder
    BY <1>2 DEF Beside, runVars
  <2>2. RunHolds(r, u) /\ HoldsAlone(r, u)
    BY <2>1 DEF RunHolds, RunOn, HeldInv
  <2>3. rows'[u].state = "acting" /\ \A w \in Workers : u \notin worker'[w].on
    BY <1>0, <2>1, <2>2, HeldStays DEF HoldsAlone
  <2>4. rows'[u].stale = rows[u].stale
    BY <1>2, <2>2 DEF Beside
  <2> QED
    BY <2>1, <2>2, <2>3, <2>4 DEF HoldsAlone, RunHolds, RunOn
<1>3. ASSUME NEW r \in Responders, RunSteps(r)
      PROVE  HeldInv'
  <2> SUFFICES ASSUME NEW s \in Responders, NEW u \in Users, RunHolds(s, u)'
               PROVE  HoldsAlone(s, u)'
    BY DEF HeldInv
  <2>0. OtherRuns(r) /\ UNCHANGED worker /\ responder \in [Responders -> Responder]
    BY <1>3, OthersStay DEF RunSteps, TakesRow, GivesRowBack, BanForGood, world, RunTypeInv, RunTypeOK
  <2>1. CASE Works(r) /\ UNCHANGED rows
    <3>1. \A q \in Responders, x \in Users : RunHolds(q, x)' => RunHolds(q, x)
      <4> SUFFICES ASSUME NEW q \in Responders, NEW x \in Users, RunHolds(q, x)'
                   PROVE  RunHolds(q, x)
        OBVIOUS
      <4>1. CASE q # r
        BY <2>0, <4>1 DEF OtherRuns, RunHolds, RunOn
      <4>2. CASE q = r
        BY <2>0, <2>1, <4>2 DEF Works, Proceeds, Becomes, RunHolds, RunOn
      <4> QED
        BY <4>1, <4>2
    <3> QED
      BY <2>0, <2>1, <3>1 DEF HeldInv, HoldsAlone
  <2>2. ASSUME NEW x \in Users, TakesRow(r, x)
        PROVE  HoldsAlone(s, u)'
    <3>1. /\ \A q \in Responders : ~RunHolds(q, x)
          /\ \A w \in Workers : x \notin worker[w].on
      BY <1>0, <2>2 DEF TakesRow, HeldInv, HoldsAlone, ClaimInv, Holds, ClaimableStates
    <3>2. PICK t : responder'[r] = t /\ t.claimed /\ t.on = {x}
      BY <2>0, <2>2 DEF TakesRow, Becomes
    <3>3. \A q \in Responders \ {r}, y \in Users : RunHolds(q, y)' <=> RunHolds(q, y)
      BY <2>0 DEF OtherRuns, RunHolds, RunOn
    <3>4. CASE u = x
      <4>1. s = r /\ \A q \in Responders : RunHolds(q, u)' => q = r
        BY <3>1, <3>3, <3>4
      <4>2. rows'[u].state = "acting" /\ ~rows'[u].stale
        BY <2>2, <3>4 DEF TakesRow, Moved
      <4> QED
        BY <2>0, <3>1, <3>4, <4>1, <4>2 DEF HoldsAlone
    <3>5. CASE u # x
      <4>1. s # r /\ RunHolds(s, u) /\ ~RunHolds(r, u)'
        BY <3>2, <3>3, <3>5 DEF RunHolds, RunOn
      <4>2. HoldsAlone(s, u) /\ rows'[u] = rows[u]
        BY <2>2, <3>5, <4>1 DEF HeldInv, TakesRow, OnlyRow
      <4> QED
        BY <2>0, <3>3, <4>1, <4>2 DEF HoldsAlone
    <3> QED
      BY <3>4, <3>5
  <2>3. ASSUME NEW x \in Users, GivesRowBack(r, x)
        PROVE  HoldsAlone(s, u)'
    <3>1. \A y \in Users : ~RunHolds(r, y)'
      BY <2>0, <2>3 DEF GivesRowBack, Becomes, RunHolds
    <3>2. \A q \in Responders \ {r}, y \in Users : RunHolds(q, y)' <=> RunHolds(q, y)
      BY <2>0 DEF OtherRuns, RunHolds, RunOn
    <3>3. s # r /\ RunHolds(s, u) /\ HoldsAlone(s, u)
      BY <3>1, <3>2 DEF HeldInv
    <3>4. u # x
      BY <2>3, <3>3 DEF GivesRowBack, HoldsAlone
    <3>5. rows'[u] = rows[u]
      BY <2>3, <3>4 DEF GivesRowBack, OnlyRow
    <3> QED
      BY <2>0, <3>1, <3>2, <3>3, <3>5 DEF HoldsAlone
  <2> QED
    BY <1>3, <2>1, <2>2, <2>3 DEF RunSteps, BanForGood, world
<1> QED
  BY <1>1, <1>2, <1>3, RunKinds, ConfirmTyped DEF Aside, world, allVars


\* The rows of workers and responders are in one hand each, as long as no call outlasts
\* its claim: a claim that grows old under a worker is another's to take.
LEMMA RunHandsHold ==
    ASSUME "slow call" \notin Hazards
    PROVE  RunSpec => [](RunTypeInv /\ HandsInv /\ HeldInv)
<1>1. ASSUME RunTypeInv, HandsInv, HeldInv, [RunNext]_allVars
      PROVE  HandsInv'
  <2>1. CASE [Next]_vars
    BY <1>1, <2>1, HandsBeside DEF RunTypeInv, RunTypeOK
  <2>2. CASE UNCHANGED world
    <3>1. rows' = rows /\ guard' = guard /\ worker' = worker
      BY <2>2 DEF world
    <3>2. SentInOrder' /\ HandInv'
      BY <1>1, <3>1 DEF HandsInv, SentInOrder, HandInv, BatchOf
    <3>3. ClaimInv'
      BY <1>1, <3>1 DEF HandsInv, ClaimInv, Holds
    <3> QED
      BY <3>2, <3>3 DEF HandsInv
  <2> QED
    BY <1>1, <2>1, <2>2, RunKinds, RunLeavesHands, ConfirmTyped DEF Aside, world
<1>2. RunTypeInv /\ HandsInv /\ HeldInv /\ [RunNext]_allVars => (RunTypeInv /\ HandsInv /\ HeldInv)'
  BY <1>1, RunTypeStep, HeldStep
<1> QED
  BY <1>2, RunTypeInit, HeldInit, PTL DEF RunSpec

-----------------------------------------------------------------------------
\* The lift.

LEMMA LiftEndsAtRest ==
    ASSUME TypeOK, SentInOrder, [Next]_vars, ld' = "lifted"
    PROVE  ld = "lifted" \/ \A u \in Users : rows[u].state \notin UnfinishedStates
<1>1. FinishLift => ld = "lifted" \/ \A u \in Users : rows[u].state \notin UnfinishedStates
  BY DEF FinishLift
<1>2. ASSUME NEW w \in Workers, WorkerWorks(w)
      PROVE  ld = "lifted" \/ FinishLift
  BY <1>2 DEF WorkerWorks, Turns, Lists, Claims, Drops, Calls, Records
<1>3. Lifts => FinishLift
  BY DEF Lifts
<1> QED
  BY <1>1, <1>2, <1>3, Kinds, SendingKeeps, WorkerStepWorks
  DEF GuardWorks, WorkerStops, Strays, WindowCloses, ClaimExpires, vars

\* Which hands are past their last look after a step of a responder.
LEMMA LooksAgain ==
    ASSUME RunTypeInv, NEW r \in Responders, RunSteps(r), NEW s \in Responders,
           PastLook(responder[s])'
    PROVE  /\ UNCHANGED ld /\ responder'[s].on = responder[s].on
           /\ PastLook(responder[s]) \/ ld = "active"
<1>1. UNCHANGED ld
  BY DEF RunSteps, TakesRow, GivesRowBack, BanForGood, world
<1>2. CASE s # r
  BY <1>1, <1>2, OthersStay DEF OtherRuns
<1>3. CASE s = r
  <2>0. responder \in [Responders -> Responder]
    BY DEF RunTypeInv, RunTypeOK
  <2>1. \A u \in Users : ~TakesRow(r, u) /\ ~GivesRowBack(r, u)
    BY <1>3, <2>0 DEF TakesRow, GivesRowBack, Becomes, PastLook
  <2>2. PICK t \in Responder : Proceeds(r, t)
    BY <2>1 DEF RunSteps, Works, Proceeds
  <2>3. responder'[s] = t
    BY <1>3, <2>0, <2>2 DEF Proceeds, Becomes
  <2> QED
    BY <1>1, <1>3, <2>2, <2>3 DEF Proceeds, PastLook
<1> QED
  BY <1>2, <1>3

LEMMA LiftWaitStep ==
    ASSUME RunTypeInv, HandsInv, HeldInv, LiftWaitsForRun, [RunNext]_allVars
    PROVE  LiftWaitsForRun'
<1> SUFFICES ASSUME ld' = "lifted", NEW r \in Responders, NEW u \in Users, RunHolds(r, u)',
                    responder'[r].pc \in {"ban", "banned", "keep"}
             PROVE  FALSE
  BY DEF LiftWaitsForRun
<1>0. TypeOK /\ SentInOrder
  BY DEF RunTypeInv, RunTypeOK, HandsInv
<1>1. PastLook(responder[r])'
  BY DEF PastLook, RunHolds
<1>2. ASSUME PastLook(responder[r]), responder'[r].on = responder[r].on, ld = "lifted"
      PROVE  FALSE
  BY <1>2 DEF LiftWaitsForRun, RunHolds, RunOn, PastLook
<1>3. CASE [Next]_vars /\ UNCHANGED runVars
  <2>1. RunHolds(r, u) /\ PastLook(responder[r]) /\ responder' = responder
    BY <1>1, <1>3 DEF runVars, RunHolds, RunOn
  <2>2. rows[u].state = "acting" /\ "acting" \in UnfinishedStates
    BY <2>1 DEF HeldInv, HoldsAlone, UnfinishedStates
  <2> QED
    BY <1>0, <1>2, <1>3, <2>1, <2>2, LiftEndsAtRest
<1>4. CASE UNCHANGED <<ld, responder>>
  BY <1>1, <1>2, <1>4
<1>5. ASSUME NEW s \in Responders, RunSteps(s)
      PROVE  FALSE
  BY <1>1, <1>2, <1>5, LooksAgain
<1> QED
  BY <1>3, <1>4, <1>5, RunKinds, ConfirmTyped DEF Aside, world

\* In every instance where no call outlasts its claim, a lift does not end while the
\* run has somebody it recorded past its last look at the lockdown: their row is acting
\* until the run moves it, and FinishLift counts it (lockdownResponseBanOne).
THEOREM LiftsWaitForRuns ==
    ASSUME "slow call" \notin Hazards
    PROVE  RunSpec => []LiftWaitsForRun
<1>1. RunInit => LiftWaitsForRun
  <2>1. RunInit => ld = "active"
    BY DEF RunInit, InitWith
  <2> QED
    BY <2>1 DEF LiftWaitsForRun
<1>2. RunSpec => [](RunTypeInv /\ HandsInv /\ HeldInv)
  BY RunHandsHold
<1>3. RunTypeInv /\ HandsInv /\ HeldInv /\ LiftWaitsForRun /\ [RunNext]_allVars => LiftWaitsForRun'
  BY LiftWaitStep
<1> QED
  BY <1>1, <1>2, <1>3, PTL DEF RunSpec


-----------------------------------------------------------------------------
\* Whom an administrator let in.  Rows are unbanned by the lift only.
UnbanStates == {"unbanning", "unbanned", "unban_failed"}

\* The lift's part of a worker's cycle.
LiftPcs == {"cancel", "unlist", "unbans", "finish"} \cup Lifting

UnbannedInv ==
    ld = "active" => /\ \A u \in Users : rows[u].state \notin UnbanStates
                     /\ \A w \in Workers : worker[w].pc \notin LiftPcs

\* Who is looked at without a claim has no row; where a row appears after the lift
\* began, the run goes no further than its last look.
OpenInv ==
    \A r \in Responders, u \in Users : RunOn(r, u) /\ Open(responder[r]) =>
        \/ responder[r].joiner = NoRow /\ rows[u] = NoRow
        \/ ld # "active" /\ responder[r].pc # "ban"

LEMMA LiftPart ==
    ASSUME TypeOK, NEW w \in Workers, WorkerStep(w), worker'[w].pc \in LiftPcs
    PROVE  worker[w].pc \in LiftPcs \/ ld = "lifting"
<1>1. ASSUME NEW u \in Users, WorkerHandles(w, u)
      PROVE  worker[w].pc \in LiftPcs
  <2>1. Claims(w, u) \/ Drops(w, u) \/ Calls(w, u) \/ Records(w, u)
    BY <1>1, ClaimsWork, CallsWork, RecordsWork DEF WorkerHandles
  <2> QED
    BY <2>1 DEF Claims, Drops, Calls, Records, LiftPcs, Lifting, Banning
<1>2. CASE Release(w) \/ ListPending(w)
  <2>1. \/ \E pc \in {"list", "lifts"} : WorkerGoes(w, pc)
        \/ ListInState(w, "pending", "bans", "lifts")
    BY <1>2 DEF Release, ListPending
  <2>2. worker'[w].pc \in {"list", "lifts", "bans"}
    BY <2>1, GoesTurns, ListLists
  <2> QED
    BY <2>2 DEF LiftPcs, Lifting
<1>3. CASE ListLifting(w)
  <2>1. ld = "lifting" \/ WorkerGoes(w, "release")
    BY <1>3 DEF ListLifting
  <2>2. WorkerGoes(w, "release") => worker'[w].pc = "release"
    BY GoesTurns
  <2> QED
    BY <2>1, <2>2 DEF LiftPcs, Lifting
<1>4. CASE Cancel(w) \/ ListBanned(w) \/ Finish(w)
  BY <1>4 DEF Cancel, ListBanned, Finish, LiftPcs
<1> QED
  BY <1>1, <1>2, <1>3, <1>4 DEF WorkerStep

LEMMA UnbannedBeside ==
    ASSUME TypeOK, SentInOrder, UnbannedInv, [Next]_vars
    PROVE  UnbannedInv'
<1> SUFFICES ASSUME ld' = "active"
             PROVE  UnbannedInv'
  BY DEF UnbannedInv
<1>0. /\ ld = "active"
      /\ \A u \in Users : rows[u].state \notin UnbanStates
      /\ \A w \in Workers : worker[w].pc \notin LiftPcs
  BY NeverActiveAgain DEF UnbannedInv
<1>1. ASSUME NEW d \in Updates, GuardWorks(d)
      PROVE  UnbannedInv'
  <2>1. /\ NoRow.state = "none" /\ RowOf(d).state \in {"exempt", "pending"}
        /\ \A id : [RowOf(d) EXCEPT !.id = id].state \in {"exempt", "pending"}
    BY DEF NoRow, RowOf
  <2>2. ASSUME NEW u \in Users
        PROVE  rows'[u].state \notin UnbanStates
    <3>1. CASE u # guard[d].user \/ GuardLooks(d)
      BY <1>0, <1>1, <3>1 DEF GuardWorks, OnlyRow, GuardLooks
    <3>2. CASE u = guard[d].user /\ ~GuardLooks(d)
      BY <1>1, <2>1, <3>2
      DEF GuardWorks, GuardInserts, GuardReclaims, GuardMoves, GuardDeletes, Moved, UnbanStates
    <3> QED
      BY <3>1, <3>2
  <2> QED
    BY <1>0, <1>1, <2>2 DEF UnbannedInv, GuardWorks
<1>2. ASSUME NEW w \in Workers, WorkerStep(w)
      PROVE  UnbannedInv'
  <2>0. WorkerWorks(w)
    BY <1>2, WorkerStepWorks
  <2>1. ASSUME NEW u \in Users
        PROVE  rows'[u].state \notin UnbanStates
    <3>1. \/ rows'[u] = rows[u] \/ Swept(u) \/ Claims(w, u) \/ Records(w, u)
      BY <2>0 DEF WorkerWorks, Turns, Lists, Claims, Drops, Calls, Records, OnlyRow
    <3>2. Swept(u) => rows'[u] = rows[u] \/ rows'[u].state \notin UnbanStates
      BY DEF Swept, Moved, UnbanStates
    <3>3. Claims(w, u) => rows'[u].state = "acting"
      BY <1>0 DEF Claims, Moved, LiftPcs
    <3>4. Records(w, u) => rows'[u] = rows[u] \/ rows'[u].state = BanOutcome(w, u)
      BY <1>0 DEF Records, Moved, LiftPcs, Lifting
    <3>5. BanOutcome(w, u) \notin UnbanStates
      BY DEF BanOutcome, UnbanStates
    <3> QED
      BY <1>0, <3>1, <3>2, <3>3, <3>4, <3>5 DEF UnbanStates
  <2>2. \A v \in Workers \ {w} : worker'[v] = worker[v]
    BY <2>0 DEF WorkerWorks, Turns, Lists, Claims, Drops, Calls, Records, PutDown, Others
  <2>3. worker'[w].pc \notin LiftPcs
    BY <1>0, <1>2, LiftPart
  <2> QED
    BY <1>0, <2>1, <2>2, <2>3 DEF UnbannedInv
<1>3. ASSUME NEW w \in Workers, WorkerStops(w)
      PROVE  UnbannedInv'
  <2>1. Others(w) /\ UNCHANGED rows /\ worker'[w].pc \notin LiftPcs
    BY <1>3, StoppedIsIdle DEF LiftPcs, Lifting
  <2> QED
    BY <1>0, <2>1 DEF Others, UnbannedInv
<1>4. ASSUME NEW u \in Users, WindowCloses(u) \/ ClaimExpires(u)
      PROVE  UnbannedInv'
  BY <1>0, <1>4, RowsAge DEF Ages, OnlyRow, UnbannedInv, WindowCloses, ClaimExpires
<1>5. ASSUME UNCHANGED <<rows, worker>>
      PROVE  UnbannedInv'
  BY <1>0, <1>5 DEF UnbannedInv
<1> QED
  BY <1>1, <1>2, <1>3, <1>4, <1>5, Kinds, SendingKeeps DEF Strays, Lifts, vars


\* The rows and the lockdown after a step of a responder.
LEMMA RunMovesRows ==
    ASSUME RunTypeInv, HeldInv, NEW r \in Responders, RunSteps(r), NEW u \in Users
    PROVE  /\ UNCHANGED <<ld, worker>>
           /\ rows[u] = NoRow => rows'[u] = NoRow
           /\ rows[u].state \notin UnbanStates => rows'[u].state \notin UnbanStates
<1>1. UNCHANGED <<ld, worker>>
  BY DEF RunSteps, TakesRow, GivesRowBack, BanForGood, world
<1>2. NoRow.state = "none" /\ "none" \notin ClaimableStates
  BY DEF NoRow, ClaimableStates
<1>3. \A state \in ClaimableStates \cup {"acting"} : state \notin UnbanStates
  BY DEF ClaimableStates, UnbanStates
<1>4. CASE rows'[u] = rows[u]
  BY <1>1, <1>4
<1>5. ASSUME NEW x \in Users, TakesRow(r, x), rows'[u] # rows[u]
      PROVE  rows[u] # NoRow /\ rows'[u].state \notin UnbanStates
  BY <1>2, <1>3, <1>5 DEF TakesRow, OnlyRow, Moved
<1>6. ASSUME NEW x \in Users, GivesRowBack(r, x), rows'[u] # rows[u]
      PROVE  rows[u] # NoRow /\ rows'[u].state \notin UnbanStates
  BY <1>2, <1>3, <1>6 DEF GivesRowBack, OnlyRow, Moved
<1> QED
  BY <1>1, <1>4, <1>5, <1>6 DEF RunSteps, BanForGood, world

LEMMA UnbannedStep ==
    ASSUME RunTypeInv, HandsInv, HeldInv, UnbannedInv, [RunNext]_allVars
    PROVE  UnbannedInv'
<1>1. CASE [Next]_vars
  BY <1>1, UnbannedBeside DEF RunTypeInv, RunTypeOK, HandsInv
<1>2. CASE UNCHANGED <<ld, rows, worker>>
  BY <1>2 DEF UnbannedInv
<1>3. ASSUME NEW r \in Responders, RunSteps(r)
      PROVE  UnbannedInv'
  <2>1. UNCHANGED <<ld, worker>>
    BY <1>3 DEF RunSteps, TakesRow, GivesRowBack, BanForGood, world
  <2>2. \A u \in Users : rows[u].state \notin UnbanStates => rows'[u].state \notin UnbanStates
    BY <1>3, RunMovesRows
  <2> QED
    BY <2>1, <2>2 DEF UnbannedInv
<1> QED
  BY <1>1, <1>2, <1>3, RunKinds, ConfirmTyped DEF Aside, world

LEMMA OpenStep ==
    ASSUME "unclaimed" \notin RunHazards, RunTypeInv, HandsInv, HeldInv, UnbannedInv, OpenInv,
           [RunNext]_allVars
    PROVE  OpenInv'
<1> SUFFICES ASSUME NEW r \in Responders, NEW u \in Users, RunOn(r, u)', Open(responder[r])'
             PROVE  \/ responder'[r].joiner = NoRow /\ rows'[u] = NoRow
                    \/ ld' # "active" /\ responder'[r].pc # "ban"
  BY DEF OpenInv
<1>0. TypeOK /\ SentInOrder /\ responder \in [Responders -> Responder]
  BY DEF RunTypeInv, RunTypeOK, HandsInv
<1>1. CASE UNCHANGED <<ld, rows, responder>>
  BY <1>1 DEF OpenInv, RunOn
<1>2. CASE Beside
  <2>1. [Next]_vars /\ responder' = responder
    BY <1>2 DEF Beside, runVars
  <2>2. RunOn(r, u) /\ Open(responder[r])
    BY <2>1 DEF RunOn
  <2>3. ld # "active" => ld' # "active"
    BY <1>0, <2>1, NeverActiveAgain
  <2>4. CASE responder[r].joiner = NoRow /\ rows[u] = NoRow
    <3>1. Unclaimed(r, u)
      BY <2>2, <2>4 DEF Unclaimed, Open, LookPcs
    <3>2. rows'[u] = rows[u]
      BY <1>2, <3>1 DEF Beside
    <3> QED
      BY <2>1, <2>4, <3>2
  <2> QED
    BY <2>1, <2>2, <2>3, <2>4 DEF OpenInv
<1>3. ASSUME NEW s \in Responders, RunSteps(s), s # r
      PROVE  \/ responder'[r].joiner = NoRow /\ rows'[u] = NoRow
             \/ ld' # "active" /\ responder'[r].pc # "ban"
  <2>1. responder'[r] = responder[r]
    BY <1>3, OthersStay DEF OtherRuns
  <2>2. UNCHANGED ld /\ (rows[u] = NoRow => rows'[u] = NoRow)
    BY <1>3, RunMovesRows
  <2> QED
    BY <2>1, <2>2 DEF OpenInv, RunOn
<1>4. CASE RunSteps(r)
  <2>1. UNCHANGED ld /\ (rows[u] = NoRow => rows'[u] = NoRow)
    BY <1>4, RunMovesRows
  <2>2. \A x \in Users : ~TakesRow(r, x) /\ ~GivesRowBack(r, x)
    BY <1>0 DEF TakesRow, GivesRowBack, Becomes, Open
  <2>3. PICK t \in Responder : Proceeds(r, t)
    BY <1>4, <2>2 DEF RunSteps, Works, Proceeds
  <2>4. responder'[r] = t
    BY <1>0, <2>3 DEF Proceeds, Becomes
  <2>5. Open(t) /\ u \in t.on
    BY <2>4 DEF RunOn
  <2>6. CASE /\ Open(responder[r]) /\ t.on = responder[r].on
             /\ t.joiner = responder[r].joiner
             /\ t.pc = "ban" => ld = "active" \/ responder[r].pc = "ban"
    BY <2>1, <2>4, <2>5, <2>6 DEF OpenInv, RunOn
  <2>7. CASE /\ t.pc = "look" /\ t.joiner = rows[u]
             /\ t.joiner.state \notin ClaimableStates \cup {"exempt", "acting", "unbanning"}
    <3>1. CASE rows[u] = NoRow
      BY <2>1, <2>4, <2>7, <3>1
    <3>2. CASE rows[u] # NoRow
      <4>1. rows[u].state \in JoinerStates
        BY <1>0, <3>2 DEF TypeOK, JoinerRow
      <4>2. rows[u].state \in UnbanStates
        BY <2>7, <4>1
        DEF JoinerStates, ReclaimStates, UnfinishedStates, ClaimableStates, UnbanStates
      <4> QED
        BY <2>1, <2>4, <2>7, <4>2 DEF UnbannedInv
    <3> QED
      BY <3>1, <3>2
  <2> QED
    BY <2>3, <2>5, <2>6, <2>7 DEF Proceeds
<1> QED
  BY <1>1, <1>2, <1>3, <1>4, RunKinds, ConfirmTyped DEF Aside, world, allVars

\* Who is banned for good has a row the run claimed, or none.
LEMMA BansItsOwn ==
    ASSUME RunTypeInv, OpenInv, NEW r \in Responders, NEW u \in Users, BanForGood(r, u)
    PROVE  RunHolds(r, u) \/ rows[u] = NoRow
<1>1. responder[r].pc = "ban" /\ RunOn(r, u)
  BY DEF BanForGood, ActsOn
<1> QED
  BY <1>1 DEF OpenInv, Open, LookPcs, RunHolds

LEMMA OpenInit == RunInit => UnbannedInv /\ OpenInv
<1> SUFFICES ASSUME RunInit
             PROVE  UnbannedInv /\ OpenInv
  OBVIOUS
<1>1. PICK people : InitWith(people)
  BY DEF RunInit
<1>2. \A u \in Users : rows[u].state = "none"
  BY <1>1 DEF InitWith, NoRow
<1>3. \A w \in Workers : worker[w].pc = "release"
  BY <1>1 DEF InitWith, Idle
<1>4. \A r \in Responders : responder[r].pc = "release"
  BY DEF RunInit, AtRelease
<1> QED
  BY <1>2, <1>3, <1>4 DEF UnbannedInv, OpenInv, UnbanStates, LiftPcs, Lifting, Open, LookPcs

\* All that holds of the hands of a run that meets neither hazard.
RunInv == RunTypeInv /\ HandsInv /\ HeldInv /\ UnbannedInv /\ OpenInv

LEMMA RunInvHolds ==
    ASSUME "slow call" \notin Hazards, "unclaimed" \notin RunHazards
    PROVE  RunSpec => []RunInv
<1>1. RunTypeInv /\ HandsInv /\ HeldInv /\ UnbannedInv /\ OpenInv /\ [RunNext]_allVars
        => (UnbannedInv /\ OpenInv)'
  BY UnbannedStep, OpenStep
<1>2. RunInv <=> RunTypeInv /\ HandsInv /\ HeldInv /\ UnbannedInv /\ OpenInv
  BY DEF RunInv
<1> QED
  BY <1>1, <1>2, OpenInit, RunHandsHold, PTL DEF RunSpec

\* In every instance where no call outlasts its claim and nobody without a row joins
\* while the run looks at them, nobody an administrator let in is banned for good by
\* the run: it bans only whose row it claimed, and who has none; a row that is there
\* and cannot be claimed is one the lift unbanned (AfterJoiner, D-22).
THEOREM LetInStay ==
    ASSUME "slow call" \notin Hazards, "unclaimed" \notin RunHazards
    PROVE  RunSpec => LetInIsNotBanned
<1>1. ASSUME RunInv, [RunNext]_allVars
      PROVE  [responder' # responder =>
                \A u \in Users : rows[u].state = "exempt" => tg'[u] = tg[u]]_allVars
  <2> SUFFICES ASSUME responder' # responder, NEW u \in Users, rows[u].state = "exempt"
               PROVE  tg'[u] = tg[u]
    OBVIOUS
  <2>1. PICK r \in Responders : RunSteps(r)
    BY <1>1, RunKinds, ConfirmTyped DEF RunInv, runVars
  <2>2. ASSUME NEW x \in Users, BanForGood(r, x)
        PROVE  tg'[u] = tg[u]
    <3>1. x # u
      <4>1. NoRow.state = "none"
        BY DEF NoRow
      <4> QED
        BY <1>1, <2>2, <4>1, BansItsOwn DEF RunInv, HeldInv, HoldsAlone
    <3>2. tg' \in {tg, [tg EXCEPT ![x] = Kicked(0)]}
      BY <1>1, <2>2, BanWorks DEF RunInv
    <3>3. tg \in [Users -> {Left, Asking, Member} \cup {Kicked(t) : t \in Dates}]
      BY <1>1 DEF RunInv, RunTypeInv, RunTypeOK, TypeOK
    <3> QED
      BY <3>1, <3>2, <3>3
  <2> QED
    BY <2>1, <2>2 DEF RunSteps, TakesRow, GivesRowBack, world
<1> QED
  BY <1>1, RunInvHolds, PTL DEF RunSpec, LetInIsNotBanned


-----------------------------------------------------------------------------
\* The bans for good, under the workers' hands.
RunBase == RowsDated /\ BatchDated /\ LookInv

LEMMA RunBaseInit == RunInit => RunBase
<1> SUFFICES ASSUME RunInit
             PROVE  RunBase
  OBVIOUS
<1>1. PICK people : InitWith(people)
  BY DEF RunInit
<1>2. \A w \in Workers : worker[w].pc = "release"
  BY <1>1 DEF InitWith, Idle
<1>3. WellDated(NoRow)
  BY DEF WellDated, NoRow
<1>4. RowsDated
  BY <1>1, <1>3 DEF InitWith, RowsDated
<1> QED
  BY <1>2, <1>4 DEF RunBase, BatchDated, LookInv, Banning

\* A step of the run keeps the rows' dates, and bans nobody a worker has in hand.
LEMMA RunBaseKept ==
    ASSUME RunInv, RunBase, NEW r \in Responders, RunSteps(r)
    PROVE  RunBase'
<1>0. UNCHANGED worker /\ BatchDated'
  <2>1. UNCHANGED worker
    BY DEF RunSteps, TakesRow, GivesRowBack, BanForGood, world
  <2> QED
    BY <2>1 DEF RunBase, BatchDated, BatchOf
<1>1. ASSUME NEW u \in Users
      PROVE  WellDated(rows'[u])
  <2>1. WellDated(rows[u])
    BY DEF RunBase, RowsDated
  <2>2. \A state \in ClaimableStates \cup {"acting"} : state \notin {"none", "exempt"}
    BY DEF ClaimableStates
  <2>3. CASE rows'[u] = rows[u]
    BY <2>1, <2>3
  <2>4. ASSUME NEW x \in Users, TakesRow(r, x), rows'[u] # rows[u]
        PROVE  WellDated(rows'[u])
    <3>1. x = u /\ rows[u].state \in ClaimableStates /\ Moved(u, "acting")
      BY <2>4 DEF TakesRow, OnlyRow
    <3> QED
      BY <2>1, <2>2, <3>1, MovedDated
  <2>5. ASSUME NEW x \in Users, GivesRowBack(r, x), rows'[u] # rows[u]
        PROVE  WellDated(rows'[u])
    <3>1. x = u
      BY <2>5 DEF GivesRowBack, OnlyRow
    <3>2. PICK state \in ClaimableStates : rows[u].state = "acting" /\ Moved(u, state)
      BY <2>5, <3>1 DEF GivesRowBack
    <3> QED
      BY <2>1, <2>2, <3>2, MovedDated
  <2> QED
    BY <2>3, <2>4, <2>5 DEF RunSteps, BanForGood, world
<1>2. LookInv'
  <2>1. CASE UNCHANGED tg
    BY <1>0, <2>1 DEF RunBase, LookInv
  <2>2. ASSUME NEW x \in Users, BanForGood(r, x)
        PROVE  LookInv'
    <3>1. tg' \in {tg, [tg EXCEPT ![x] = Kicked(0)]}
      BY <2>2, BanWorks DEF RunInv
    <3>2. RunHolds(r, x) \/ rows[x] = NoRow
      BY <2>2, BansItsOwn DEF RunInv
    <3>3. \A w \in Workers : x \notin worker[w].on
      <4>1. NoRow.state \notin {"acting", "unbanning"}
        BY DEF NoRow
      <4>2. ASSUME NEW w \in Workers, x \in worker[w].on
            PROVE  rows[x].state \in {"acting", "unbanning"}
        BY <4>2 DEF RunInv, HandsInv, ClaimInv, Holds
      <4>3. RunHolds(r, x) => \A w \in Workers : x \notin worker[w].on
        BY DEF RunInv, HeldInv, HoldsAlone
      <4> QED
        BY <3>2, <4>1, <4>2, <4>3
    <3>4. tg \in [Users -> {Left, Asking, Member} \cup {Kicked(t) : t \in Dates}]
          /\ \A w \in Workers : worker[w].on \subseteq Users
      BY DEF RunInv, RunTypeInv, RunTypeOK, TypeOK
    <3>5. \A w \in Workers : \A u \in worker[w].on : tg'[u] = tg[u]
      BY <3>1, <3>3, <3>4
    <3> QED
      BY <1>0, <3>5 DEF RunBase, LookInv
  <2> QED
    BY <2>1, <2>2 DEF RunSteps, TakesRow, GivesRowBack, world
<1> QED
  BY <1>0, <1>1, <1>2 DEF RunBase, RowsDated

LEMMA RunBaseStep ==
    ASSUME RunInv, RunBase, [RunNext]_allVars
    PROVE  RunBase'
<1>0. RunTypeInv /\ TypeOK /\ SentInOrder /\ HandInv
  BY DEF RunInv, RunTypeInv, RunTypeOK, HandsInv
<1>1. CASE [Next]_vars
  BY <1>0, <1>1, RowsDatedStep, BatchDatedStep, LookStep DEF RunBase
<1>2. CASE UNCHANGED <<tg, rows, worker>>
  BY <1>2 DEF RunBase, RowsDated, BatchDated, BatchOf, LookInv, WellDated
<1> QED
  BY <1>0, <1>1, <1>2, RunBaseKept, RunKinds, ConfirmTyped DEF Aside, world

\* In every instance where no call outlasts its claim and nobody without a row joins
\* while the run looks at them, no step of a worker touches a ban for good, the run's
\* included: whoever the run bans is in no worker's hands (lockdownResponseBanOne).
THEOREM RunsBansStay ==
    ASSUME "slow call" \notin Hazards, "unclaimed" \notin RunHazards
    PROVE  RunSpec => DeliberateBanStays
<1>1. RunInv /\ RunBase /\ [RunNext]_allVars => RunBase'
  BY RunBaseStep
<1>2. ASSUME RunInv, RunBase, [RunNext]_allVars
      PROVE  [worker' # worker => \A u \in Users : tg[u] = Kicked(0) => tg'[u] = tg[u]]_vars
  <2>0. RunTypeInv /\ TypeOK /\ SentInOrder /\ HandInv /\ BatchDated /\ LookInv
    BY <1>2 DEF RunInv, RunTypeInv, RunTypeOK, HandsInv, RunBase
  <2>1. CASE [Next]_vars
    BY <2>0, <2>1, HandBansKept
  <2>2. UNCHANGED worker \/ [Next]_vars
    BY <1>2, <2>0, RunKinds, ConfirmTyped
    DEF RunSteps, TakesRow, GivesRowBack, BanForGood, Aside, world
  <2> QED
    BY <2>1, <2>2
<1> QED
  BY <1>1, <1>2, RunBaseInit, RunInvHolds, PTL DEF RunSpec, DeliberateBanStays

==============================================================================

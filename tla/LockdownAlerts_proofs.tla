----------------------- MODULE LockdownAlerts_proofs ------------------------
(***************************************************************************)
(* The types and the safety of LockdownAlerts, for any workers, admins,    *)
(* destinations, reminders, attempts and faults.                           *)
(***************************************************************************)
EXTENDS LockdownAlerts, TLAPS

-----------------------------------------------------------------------------
\* What an actor is, and the steps at which it has a slot in hand.
Actor == [pc : Pcs, on : Slots \cup {NoSlot}, attempts : Nat, buttons : BOOLEAN,
          revoked : BOOLEAN, dests : SUBSET Dests, due : 0..MaxSeq, res : Outcomes]

PostPcs == {"post_reads", "post_routes", "send", "post_records"}

SyncPcs == {"sync_looks", "sync_reads", "sync_edits", "sync_records"}

ClosePcs == {"close_looks", "close_edits", "close_records"}

\* Between the claim of a row and the write that gives it back.
HoldPcs == PostPcs \cup SyncPcs \cup ClosePcs

SlotPcs == HoldPcs \cup {"claim_post", "supersede"}

OnSlot == \A a \in Actors : actor[a].pc \in SlotPcs => actor[a].on \in Slots

TypeInv == TypeOK /\ OnSlot

LEMMA Shapes == TypeOK => actor \in [Actors -> Actor]
BY DEF TypeOK, Actor

LEMMA Staff == Workers \subseteq Actors /\ Admins \subseteq Actors
BY DEF Actors

LEMMA SlotIs ==
    /\ Slots = (0..MaxSeq) \X Dests
    /\ \A s \in Slots : seq(s) \in 0..MaxSeq /\ dest(s) \in Dests /\ seq(s) \in Nat
    /\ NoSlot \notin Slots
BY DestsAssumption, BoundsAssumption DEF Slots, NoSlot, seq, dest

LEMMA FaultsGrow ==
    ASSUME TypeOK, Fault \/ NoFault
    PROVE  faults' \in 0..MaxFaults /\ faults <= faults' /\ (Fault => faults' = faults + 1)
BY BoundsAssumption DEF TypeOK, Fault, NoFault

-----------------------------------------------------------------------------
\* What a step makes of its actor.
Turned(a, r) == actor' = [actor EXCEPT ![a] = r]

LEMMA ActorMoves ==
    ASSUME TypeOK, NEW a \in Actors
    PROVE  /\ Rests(a) => Turned(a, Idle)
           /\ \A pc \in Pcs : Goes(a, pc) => Turned(a, [actor[a] EXCEPT !.pc = pc])
           /\ \A pc \in Pcs, res \in Outcomes :
                Ends(a, pc, res) => Turned(a, [actor[a] EXCEPT !.pc = pc, !.res = res])
           /\ \A pc \in Pcs : Looks(a, pc) =>
                Turned(a, [actor[a] EXCEPT !.pc = pc, !.attempts = copies[actor[a].on].attempts,
                                           !.buttons = copies[actor[a].on].buttons_live])
           /\ \A pc \in Pcs, s \in Slots : Lists(a, s, pc) =>
                Turned(a, [actor[a] EXCEPT !.pc = pc, !.on = s, !.attempts = copies[s].attempts])
           /\ \A pc \in Pcs, s \in Slots :
                actor' = [actor EXCEPT ![a].pc = pc, ![a].on = s]
                    => Turned(a, [actor[a] EXCEPT !.pc = pc, !.on = s])
<1>0. actor \in [Actors -> Actor]
  BY Shapes
<1>1. Rests(a) => Turned(a, Idle)
  BY DEF Rests, Turned
<1>2. ASSUME NEW pc \in Pcs, Goes(a, pc)
      PROVE  Turned(a, [actor[a] EXCEPT !.pc = pc])
  BY <1>0, <1>2 DEF Goes, Turned, Actor
<1>3. ASSUME NEW pc \in Pcs, NEW res \in Outcomes, Ends(a, pc, res)
      PROVE  Turned(a, [actor[a] EXCEPT !.pc = pc, !.res = res])
  BY <1>0, <1>3 DEF Ends, Turned, Actor
<1>4. ASSUME NEW pc \in Pcs, Looks(a, pc)
      PROVE  Turned(a, [actor[a] EXCEPT !.pc = pc, !.attempts = copies[actor[a].on].attempts,
                                        !.buttons = copies[actor[a].on].buttons_live])
  BY <1>0, <1>4 DEF Looks, Turned, Actor
<1>5. ASSUME NEW pc \in Pcs, NEW s \in Slots, Lists(a, s, pc)
      PROVE  Turned(a, [actor[a] EXCEPT !.pc = pc, !.on = s, !.attempts = copies[s].attempts])
  BY <1>0, <1>5 DEF Lists, Turned, Actor
<1>6. ASSUME NEW pc \in Pcs, NEW s \in Slots,
             actor' = [actor EXCEPT ![a].pc = pc, ![a].on = s]
      PROVE  Turned(a, [actor[a] EXCEPT !.pc = pc, !.on = s])
  BY <1>0, <1>6 DEF Turned, Actor
<1> QED
  BY <1>1, <1>2, <1>3, <1>4, <1>5, <1>6

LEMMA TurnedOnly ==
    ASSUME TypeOK, NEW a \in Actors, NEW r, Turned(a, r)
    PROVE  actor'[a] = r /\ \A b \in Actors \ {a} : actor'[b] = actor[b]
BY Shapes DEF Turned

LEMMA TurnedTyped ==
    ASSUME TypeInv, NEW a \in Actors, NEW r \in Actor, Turned(a, r),
           r.pc \in SlotPcs => r.on \in Slots
    PROVE  actor' \in [Actors -> Actor] /\ OnSlot'
<1>1. actor \in [Actors -> Actor]
  BY Shapes DEF TypeInv
<1>2. \A b \in Actors : actor'[b] = IF b = a THEN r ELSE actor[b]
  BY <1>1 DEF Turned
<1> QED
  BY <1>1, <1>2 DEF TypeInv, OnSlot, Turned

-----------------------------------------------------------------------------
\* What a step makes of one row.

\* A write that gives the row s of a holds back: of a post, a refresh, a close.
PostWrites(a, s) ==
    /\ Posting(s)
    /\ \/ actor[a].res = "done" /\ copies'[s] =
            [copies[s] EXCEPT !.state = "posted", !.claim = "none", !.attempts = 0]
       \/ \E st \in {"pending", "failed"}, n \in Nat : copies'[s] =
            [copies[s] EXCEPT !.state = st, !.claim = "none", !.attempts = n]

Closes(s, hows) ==
    /\ copies[s].closed = "no"
    /\ \E how \in hows : copies'[s] =
            [copies[s] EXCEPT !.closed = how, !.claim = "none",
                              !.buttons_live = FALSE, !.edit_pending = FALSE]

GivesBack(s) ==
    \E n \in Nat : copies'[s] = [copies[s] EXCEPT !.claim = "none", !.attempts = n]

Refreshed(s, buttons) ==
    LET still == copies[s].edit_pending /\ copies[s].buttons_live # buttons
    IN copies'[s] = [copies[s] EXCEPT !.claim = "none", !.attempts = 0, !.edit_pending = still]

SyncWrites(a, s) ==
    \/ Open(s) /\ actor[a].res \in {"done", "failed"} /\ Refreshed(s, actor[a].buttons)
            /\ (actor[a].res = "failed" => shown'[s] = [shown[s] EXCEPT !.kept = TRUE])
    \/ Closes(s, {"gone"})
    \/ Open(s) /\ actor[a].res \in {"retry", "failed"} /\ GivesBack(s)

CloseWrites(a, s) ==
    \/ actor[a].res = "done" /\ Closes(s, {"edited"})
    \/ Closes(s, {"gone", "failed"})
    \/ Open(s) /\ GivesBack(s)

Ended(s) ==
    \E a \in Actors :
        /\ actor[a].on = s
        /\ actor'[a].pc \in {"idle", "supersede"}
        /\ \/ actor[a].pc = "post_records" /\ PostWrites(a, s)
                /\ (copies'[s].state = "posted" => shown'[s] = ActiveText(TRUE, actor[a].revoked))
           \/ actor[a].pc = "sync_records" /\ SyncWrites(a, s)
           \/ actor[a].pc = "close_records" /\ CloseWrites(a, s)

\* A claim of the row, for a post, a refresh or a close.
ClaimedTo(s, pc) ==
    \E a \in Actors :
        /\ actor[a].pc \in {"idle", "claim_post"} /\ (pc = "post_reads" => actor[a].on = s)
        /\ actor'[a] = [actor[a] EXCEPT !.pc = pc, !.on = s]
        /\ \A b \in Actors \ {a} : actor'[b] = actor[b]

Claimed(s) ==
    \/ MayClaimSlot(s) /\ copies'[s] = ClaimAlertSlot(s) /\ ClaimedTo(s, "post_reads")
    \/ MayClaimSync(s) /\ copies'[s] = ClaimAlertSync(s) /\ ClaimedTo(s, "sync_looks") /\ ld.active
    \/ MayClaimClose(s) /\ copies'[s] = ClaimAlertClose(s) /\ ClaimedTo(s, "close_looks") /\ ~ld.active

\* A mark for a refresh, with the buttons gone or the link revoked.
MarkedBy(s) ==
    \/ \E w \in Workers :
            /\ actor[w].pc = "supersede" /\ Superseded(actor[w].on, s)
            /\ copies'[s] = [copies[s] EXCEPT !.buttons_live = FALSE, !.edit_pending = TRUE]
    \/ /\ Open(s) /\ copies[s].buttons_live /\ ld'.revoked
       /\ copies'[s] = [copies[s] EXCEPT !.edit_pending = TRUE]

Aged(s) ==
    \/ /\ copies[s].claim = "held" /\ \A a \in Actors : ~Holds(a, s)
       /\ copies'[s] = [copies[s] EXCEPT !.claim = "stale"]
    \/ copies[s].claim = "stale" /\ copies'[s] = Released(copies[s])

RowMoves(s) ==
    \/ copies'[s] = copies[s]
    \/ copies[s] = NoCopy /\ copies'[s] = [NoCopy EXCEPT !.state = "pending"]
    \/ Claimed(s) \/ Ended(s) \/ MarkedBy(s) \/ Aged(s)

LEMMA Written ==
    ASSUME TypeOK, NEW s \in Slots, NEW guard \in BOOLEAN, NEW row \in CopyRow,
           Update(s, guard, row)
    PROVE  /\ copies' \in [Slots -> CopyRow]
           /\ copies'[s] = IF guard THEN row ELSE copies[s]
           /\ \A t \in Slots \ {s} : copies'[t] = copies[t]
BY DEF TypeOK, Update

\* Every row a statement writes is a row.
LEMMA RowForms ==
    ASSUME TypeOK, NEW s \in Slots
    PROVE  /\ copies[s] \in CopyRow /\ NoCopy \in CopyRow
           /\ [NoCopy EXCEPT !.state = "pending"] \in CopyRow
           /\ ClaimAlertSlot(s) \in CopyRow /\ ClaimAlertSync(s) \in CopyRow
           /\ ClaimAlertClose(s) \in CopyRow
           /\ \A st \in CopyStates, n \in Nat :
                [copies[s] EXCEPT !.state = st, !.claim = "none", !.attempts = n] \in CopyRow
           /\ \A n \in Nat : [copies[s] EXCEPT !.claim = "none", !.attempts = n] \in CopyRow
           /\ \A still \in BOOLEAN :
                [copies[s] EXCEPT !.claim = "none", !.attempts = 0, !.edit_pending = still] \in CopyRow
           /\ \A how \in {"edited", "gone", "failed"} :
                [copies[s] EXCEPT !.closed = how, !.claim = "none",
                                  !.buttons_live = FALSE, !.edit_pending = FALSE] \in CopyRow
           /\ [copies[s] EXCEPT !.buttons_live = FALSE, !.edit_pending = TRUE] \in CopyRow
           /\ [copies[s] EXCEPT !.edit_pending = TRUE] \in CopyRow
           /\ [copies[s] EXCEPT !.claim = "stale"] \in CopyRow
           /\ Released(copies[s]) \in CopyRow
<1>1. copies[s] \in CopyRow /\ NoCopy \in CopyRow
  BY DEF TypeOK, NoCopy, CopyRow, CopyStates
<1>2. Released(copies[s]) \in CopyRow
  BY <1>1 DEF Released, CopyRow, CopyStates
<1>3. ClaimAlertSlot(s) \in CopyRow /\ ClaimAlertSync(s) \in CopyRow
  BY <1>1 DEF ClaimAlertSlot, ClaimAlertSync, CopyRow, CopyStates
<1>4. ClaimAlertClose(s) \in CopyRow
  BY <1>1 DEF ClaimAlertClose, CopyRow
<1>5. [NoCopy EXCEPT !.state = "pending"] \in CopyRow
  BY DEF NoCopy, CopyRow, CopyStates
<1>6. \A st \in CopyStates, n \in Nat :
        [copies[s] EXCEPT !.state = st, !.claim = "none", !.attempts = n] \in CopyRow
  BY <1>1 DEF CopyRow
<1>7. \A n \in Nat : [copies[s] EXCEPT !.claim = "none", !.attempts = n] \in CopyRow
  BY <1>1 DEF CopyRow
<1>8. \A still \in BOOLEAN :
        [copies[s] EXCEPT !.claim = "none", !.attempts = 0, !.edit_pending = still] \in CopyRow
  BY <1>1 DEF CopyRow
<1>9. \A how \in {"edited", "gone", "failed"} :
        [copies[s] EXCEPT !.closed = how, !.claim = "none",
                          !.buttons_live = FALSE, !.edit_pending = FALSE] \in CopyRow
  BY <1>1 DEF CopyRow
<1>10. /\ [copies[s] EXCEPT !.buttons_live = FALSE, !.edit_pending = TRUE] \in CopyRow
       /\ [copies[s] EXCEPT !.edit_pending = TRUE] \in CopyRow
       /\ [copies[s] EXCEPT !.claim = "stale"] \in CopyRow
  BY <1>1 DEF CopyRow
<1> QED
  BY <1>1, <1>2, <1>3, <1>4, <1>5, <1>6, <1>7, <1>8, <1>9, <1>10

RowsMove == copies' \in [Slots -> CopyRow] /\ \A s \in Slots : RowMoves(s)

\* One row is written, the others are left.
LEMMA OneRowMoves ==
    ASSUME TypeOK, NEW s \in Slots, NEW guard \in BOOLEAN, NEW row \in CopyRow,
           Update(s, guard, row), guard => RowMoves(s)
    PROVE  RowsMove
BY Written DEF RowsMove, RowMoves

LEMMA PlannedMoves ==
    ASSUME TypeInv, NEW a, NEW ss, Planned(a, ss)
    PROVE  RowsMove
BY RowForms DEF TypeInv, TypeOK, Planned, RowsMove, RowMoves

LEMMA RowsSame == TypeInv /\ UNCHANGED copies => RowsMove
BY DEF TypeInv, TypeOK, RowsMove, RowMoves

LEMMA ClaimMoves ==
    ASSUME TypeInv, NEW a \in Actors, NEW s \in Slots, NEW row \in CopyRow, NEW pc \in Pcs,
           copies' = [copies EXCEPT ![s] = row],
           actor' = [actor EXCEPT ![a].pc = pc, ![a].on = s],
           actor[a].pc \in {"idle", "claim_post"}, pc = "post_reads" => actor[a].on = s
    PROVE  copies'[s] = row /\ ClaimedTo(s, pc)
<1>1. Turned(a, [actor[a] EXCEPT !.pc = pc, !.on = s])
  BY ActorMoves DEF TypeInv
<1> QED
  BY <1>1, Shapes DEF TypeInv, TypeOK, Turned, ClaimedTo

LEMMA ClaimsMove ==
    ASSUME TypeInv,
           \/ \E w \in Workers : PostClaims(w)
           \/ \E w \in Workers, s \in Slots : SyncClaims(w, s) \/ CloseClaims(w, s)
           \/ \E a \in Admins, s \in Slots : PressStale(a, s)
    PROVE  RowsMove
<1>1. CASE \E w \in Workers : PostClaims(w)
  <2>1. PICK w \in Workers : PostClaims(w)
    BY <1>1
  <2>2. PICK s \in Slots : s = actor[w].on
    BY <2>1 DEF PostClaims, At, TypeInv, OnSlot, SlotPcs, Actors
  <2>3. /\ MayClaimSlot(s) /\ copies' = [copies EXCEPT ![s] = ClaimAlertSlot(s)]
        /\ copies'[s] = ClaimAlertSlot(s) /\ ClaimedTo(s, "post_reads")
    <3>1. /\ MayClaimSlot(s) /\ copies' = [copies EXCEPT ![s] = ClaimAlertSlot(s)]
          /\ actor' = [actor EXCEPT ![w].pc = "post_reads", ![w].on = s]
          /\ actor[w].pc = "claim_post"
      BY <2>1, <2>2 DEF PostClaims, Claims, At
    <3>2. "post_reads" \in Pcs /\ w \in Actors
      BY Staff DEF Pcs
    <3> QED
      BY <2>2, <3>1, <3>2, ClaimMoves, RowForms DEF TypeInv
  <2>4. RowMoves(s)
    BY <2>3 DEF RowMoves, Claimed
  <2> QED
    BY <2>3, <2>4, RowForms DEF RowsMove, RowMoves, TypeInv, TypeOK
<1>2. ASSUME NEW w \in Workers, NEW s \in Slots, SyncClaims(w, s) PROVE RowsMove
  <2>1. /\ MayClaimSync(s) /\ copies' = [copies EXCEPT ![s] = ClaimAlertSync(s)]
        /\ copies'[s] = ClaimAlertSync(s) /\ ClaimedTo(s, "sync_looks") /\ ld.active
    <3>1. /\ MayClaimSync(s) /\ copies' = [copies EXCEPT ![s] = ClaimAlertSync(s)]
          /\ actor' = [actor EXCEPT ![w].pc = "sync_looks", ![w].on = s]
          /\ actor[w].pc = "idle" /\ ld.active
      BY <1>2 DEF SyncClaims, Claims, At
    <3>2. "sync_looks" \in Pcs /\ w \in Actors
      BY Staff DEF Pcs
    <3> QED
      BY <3>1, <3>2, ClaimMoves, RowForms DEF TypeInv
  <2>2. RowMoves(s)
    BY <2>1 DEF RowMoves, Claimed
  <2> QED
    BY <2>1, <2>2, RowForms DEF RowsMove, RowMoves, TypeInv, TypeOK
<1>3. ASSUME NEW a \in Actors, NEW s \in Slots, CloseClaims(a, s) \/ PressStale(a, s)
      PROVE  RowsMove
  <2>1. /\ MayClaimClose(s) /\ copies' = [copies EXCEPT ![s] = ClaimAlertClose(s)]
        /\ copies'[s] = ClaimAlertClose(s) /\ ClaimedTo(s, "close_looks") /\ ~ld.active
    <3>1. /\ MayClaimClose(s) /\ copies' = [copies EXCEPT ![s] = ClaimAlertClose(s)]
          /\ actor' = [actor EXCEPT ![a].pc = "close_looks", ![a].on = s]
          /\ actor[a].pc = "idle" /\ ~ld.active
      BY <1>3 DEF CloseClaims, PressStale, Claims, At
    <3>2. "close_looks" \in Pcs
      BY DEF Pcs
    <3> QED
      BY <3>1, <3>2, ClaimMoves, RowForms DEF TypeInv
  <2>2. RowMoves(s)
    BY <2>1 DEF RowMoves, Claimed
  <2> QED
    BY <2>1, <2>2, RowForms DEF RowsMove, RowMoves, TypeInv, TypeOK
<1> QED
  BY <1>1, <1>2, <1>3, Staff

LEMMA ReleaseMoves ==
    ASSUME TypeInv, NEW w \in Workers, ReleaseStaleAlertClaims(w) PROVE RowsMove
<1>1. \A s \in Slots : copies'[s] = copies[s] \/ Aged(s)
  <2> SUFFICES ASSUME NEW s \in Slots, copies'[s] # copies[s] PROVE Aged(s)
    OBVIOUS
  <2>1. copies'[s] = Released(copies[s])
    BY DEF ReleaseStaleAlertClaims
  <2>2. copies[s].claim = "stale"
    BY <2>1 DEF Released
  <2> QED
    BY <2>1, <2>2 DEF Aged
<1> QED
  BY <1>1, RowForms DEF ReleaseStaleAlertClaims, RowsMove, RowMoves, TypeInv

LEMMA ExpiryMoves ==
    ASSUME TypeInv, NEW s \in Slots, ClaimExpires(s) PROVE RowsMove
<1>1. copies' = [copies EXCEPT ![s] = [copies[s] EXCEPT !.claim = "stale"]]
  BY DEF ClaimExpires, TypeInv, TypeOK, CopyRow
<1>2. Aged(s)
  BY <1>1 DEF Aged, ClaimExpires, TypeInv, TypeOK
<1> QED
  BY <1>1, <1>2, RowForms DEF RowsMove, RowMoves, TypeInv, TypeOK

LEMMA RevokeMoves ==
    ASSUME TypeInv, NEW a \in Admins, RecordLinkRevoked(a) PROVE RowsMove
<1>1. CASE UNCHANGED copies
  BY <1>1, RowsSame
<1>2. CASE Revoked
  <2>1. ld'.revoked
    BY <1>2 DEF Revoked, TypeInv, TypeOK
  <2>2. \A s \in Slots : copies'[s] = copies[s] \/ MarkedBy(s)
    BY <1>2, <2>1 DEF Revoked, MarkedBy
  <2> QED
    BY <1>2, <2>2, RowForms DEF Revoked, RowsMove, RowMoves, TypeInv
<1> QED
  BY <1>1, <1>2 DEF RecordLinkRevoked

LEMMA SupersedeMoves ==
    ASSUME TypeInv, NEW w \in Workers, Supersede(w) PROVE RowsMove
<1>1. CASE UNCHANGED copies
  BY <1>1, RowsSame
<1>2. CASE SupersedeReminders(actor[w].on)
  <2>1. \A s \in Slots : copies'[s] = copies[s] \/ MarkedBy(s)
    BY <1>2 DEF Supersede, At, SupersedeReminders, MarkedBy
  <2> QED
    BY <1>2, <2>1, RowForms DEF SupersedeReminders, RowsMove, RowMoves, TypeInv
<1> QED
  BY <1>1, <1>2 DEF Supersede, WriteFails

\* The write that ends a post, a refresh or a close.
LEMMA PostMoves ==
    ASSUME TypeInv, NEW w \in Workers, PostRecords(w) PROVE RowsMove
<1>1. w \in Actors /\ actor[w].on \in Slots /\ actor[w].pc = "post_records"
  BY Staff DEF PostRecords, At, TypeInv, OnSlot, SlotPcs, HoldPcs, PostPcs
<1>2. PICK s \in Slots : s = actor[w].on
  BY <1>1
<1>3. actor'[w].pc \in {"idle", "supersede"}
  <2>1. Rests(w) \/ Goes(w, "supersede")
    BY DEF PostRecords, WriteFails
  <2>2. "supersede" \in Pcs
    BY DEF Pcs
  <2>3. actor'[w] = Idle \/ actor'[w] = [actor[w] EXCEPT !.pc = "supersede"]
    <3>1. Turned(w, Idle) \/ Turned(w, [actor[w] EXCEPT !.pc = "supersede"])
      BY <1>1, <2>1, <2>2, ActorMoves DEF TypeInv
    <3> QED
      BY <1>1, <3>1, TurnedOnly DEF TypeInv
  <2> QED
    BY <1>1, <2>3, Shapes DEF Idle, TypeInv, Actor
<1>4. CASE WriteFails(w)
  BY <1>4, RowsSame DEF WriteFails
<1>5. CASE RecordAlertPosted(s) /\ actor[w].res = "done"
              /\ shown' = [shown EXCEPT ![s] = IF Posting(s) THEN ActiveText(TRUE, actor[w].revoked) ELSE @]
  <2>1. Update(s, Posting(s), [copies[s] EXCEPT !.state = "posted", !.claim = "none", !.attempts = 0])
    BY <1>5 DEF RecordAlertPosted
  <2>2. Posting(s) \in BOOLEAN /\ "posted" \in CopyStates /\ 0 \in Nat
    BY DEF Posting, CopyStates
  <2>3. ASSUME Posting(s) PROVE RowMoves(s)
    <3>1. copies'[s] = [copies[s] EXCEPT !.state = "posted", !.claim = "none", !.attempts = 0]
      BY <2>1, <2>3 DEF Update, TypeInv, TypeOK
    <3>2. PostWrites(w, s) /\ shown'[s] = ActiveText(TRUE, actor[w].revoked)
      BY <1>5, <2>3, <3>1 DEF PostWrites, TypeInv, TypeOK
    <3> QED
      BY <1>1, <1>2, <1>3, <3>2 DEF RowMoves, Ended
  <2> QED
    BY <2>1, <2>2, <2>3, OneRowMoves, RowForms DEF TypeInv
<1>6. ASSUME FailAlertSlot(s) \/ \E count \in BOOLEAN : ReleaseAlertSlot(s, count)
      PROVE  RowsMove
  <2>1. PICK st \in {"pending", "failed"}, n \in Nat :
            Update(s, Posting(s), [copies[s] EXCEPT !.state = st, !.claim = "none", !.attempts = n])
    <3>1. copies[s].attempts + 1 \in Nat /\ \A count \in BOOLEAN :
                copies[s].attempts + (IF count THEN 1 ELSE 0) \in Nat
      BY DEF TypeInv, TypeOK, CopyRow
    <3> QED
      BY <1>6, <3>1 DEF FailAlertSlot, ReleaseAlertSlot
  <2>2. Posting(s) \in BOOLEAN /\ st \in CopyStates
    BY DEF Posting, CopyStates
  <2>3. ASSUME Posting(s) PROVE RowMoves(s)
    <3>1. copies'[s] = [copies[s] EXCEPT !.state = st, !.claim = "none", !.attempts = n]
      BY <2>1, <2>3 DEF Update, TypeInv, TypeOK
    <3>2. copies'[s].state # "posted"
      BY <3>1 DEF TypeInv, TypeOK, CopyRow
    <3>3. PostWrites(w, s)
      BY <2>3, <3>1 DEF PostWrites
    <3> QED
      BY <1>1, <1>2, <1>3, <3>2, <3>3 DEF RowMoves, Ended
  <2> QED
    BY <2>1, <2>2, <2>3, OneRowMoves, RowForms DEF TypeInv
<1> QED
  BY <1>2, <1>4, <1>5, <1>6 DEF PostRecords

LEMMA CloseForm ==
    ASSUME TypeInv, NEW s \in Slots, NEW how \in {"edited", "gone", "failed"},
           RecordAlertClosed(s, how)
    PROVE  RowsMove \/ Closes(s, {how})
<1>1. PICK row \in CopyRow : row = [copies[s] EXCEPT !.closed = how, !.claim = "none",
                                        !.buttons_live = FALSE, !.edit_pending = FALSE]
  BY RowForms DEF TypeInv
<1>2. copies' = [copies EXCEPT ![s] = IF copies[s].closed = "no" THEN row ELSE copies[s]]
  BY <1>1 DEF RecordAlertClosed, Update, TypeInv, TypeOK
<1>3. CASE copies[s].closed = "no"
  BY <1>1, <1>2, <1>3 DEF Closes, TypeInv, TypeOK
<1>4. CASE copies[s].closed # "no"
  BY <1>2, <1>4, RowsSame DEF TypeInv, TypeOK
<1> QED
  BY <1>3, <1>4

\* A statement on s writes a row of the table to it or nothing.
LEMMA RowWrites ==
    ASSUME TypeInv, NEW s \in Slots,
           \/ \E how \in {"edited", "gone", "failed"} : RecordAlertClosed(s, how)
           \/ \E count \in BOOLEAN : ReleaseAlertClose(s, count)
           \/ \E buttons \in BOOLEAN : RecordAlertSynced(s, buttons)
    PROVE  /\ copies' \in [Slots -> CopyRow]
           /\ \A t \in Slots \ {s} : copies'[t] = copies[t]
<1>1. PICK g \in BOOLEAN, row \in CopyRow : Update(s, g, row)
  <2>1. ASSUME NEW how \in {"edited", "gone", "failed"}, RecordAlertClosed(s, how)
        PROVE  \E g \in BOOLEAN, row \in CopyRow : Update(s, g, row)
    BY <2>1, RowForms DEF RecordAlertClosed, TypeInv
  <2>2. ASSUME NEW count \in BOOLEAN, ReleaseAlertClose(s, count)
        PROVE  \E g \in BOOLEAN, row \in CopyRow : Update(s, g, row)
    <3>1. copies[s].attempts + (IF count THEN 1 ELSE 0) \in Nat
      BY DEF TypeInv, TypeOK, CopyRow
    <3> QED
      BY <2>2, <3>1, RowForms DEF ReleaseAlertClose, TypeInv, Open
  <2>3. ASSUME NEW buttons \in BOOLEAN, RecordAlertSynced(s, buttons)
        PROVE  \E g \in BOOLEAN, row \in CopyRow : Update(s, g, row)
    <3>1. (copies[s].edit_pending /\ copies[s].buttons_live # buttons) \in BOOLEAN
      OBVIOUS
    <3> QED
      BY <2>3, <3>1, RowForms DEF RecordAlertSynced, TypeInv, Open
  <2> QED
    BY <2>1, <2>2, <2>3
<1> QED
  BY <1>1, Written DEF TypeInv

LEMMA GiveBackForm ==
    ASSUME TypeInv, NEW s \in Slots, NEW count \in BOOLEAN, ReleaseAlertClose(s, count)
    PROVE  RowsMove \/ (Open(s) /\ GivesBack(s))
<1>1. PICK n \in Nat : n = copies[s].attempts + (IF count THEN 1 ELSE 0)
  BY DEF TypeInv, TypeOK, CopyRow
<1>2. copies' = [copies EXCEPT ![s] = IF Open(s) /\ copies[s].claim # "none"
                                      THEN [copies[s] EXCEPT !.claim = "none", !.attempts = n]
                                      ELSE copies[s]]
  BY <1>1 DEF ReleaseAlertClose, Update, TypeInv, TypeOK
<1>3. CASE Open(s) /\ copies[s].claim # "none"
  BY <1>2, <1>3 DEF GivesBack, TypeInv, TypeOK
<1>4. CASE ~(Open(s) /\ copies[s].claim # "none")
  BY <1>2, <1>4, RowsSame DEF TypeInv, TypeOK
<1> QED
  BY <1>3, <1>4

LEMMA SyncForm ==
    ASSUME TypeInv, NEW s \in Slots, NEW buttons \in BOOLEAN, RecordAlertSynced(s, buttons)
    PROVE  RowsMove \/ (Open(s) /\ Refreshed(s, buttons))
<1>1. PICK row : row = [copies[s] EXCEPT !.claim = "none", !.attempts = 0,
                !.edit_pending = copies[s].edit_pending /\ copies[s].buttons_live # buttons]
  OBVIOUS
<1>2. copies' = [copies EXCEPT ![s] = IF Open(s) THEN row ELSE copies[s]]
  BY <1>1 DEF RecordAlertSynced, Update, TypeInv, TypeOK
<1>3. CASE Open(s)
  BY <1>1, <1>2, <1>3 DEF Refreshed, TypeInv, TypeOK
<1>4. CASE ~Open(s)
  BY <1>2, <1>4, RowsSame DEF TypeInv, TypeOK
<1> QED
  BY <1>3, <1>4

LEMMA OutcomesAre == {"done", "retry", "failed", "fatal", "gone"} = Outcomes
BY DEF Outcomes

LEMMA RestsAtIdle ==
    ASSUME TypeInv, NEW a \in Actors, Rests(a) PROVE actor'[a].pc = "idle"
<1>1. Turned(a, Idle)
  BY ActorMoves DEF TypeInv
<1>2. actor'[a] = Idle
  BY <1>1, TurnedOnly DEF TypeInv
<1> QED
  BY <1>2 DEF Idle

LEMMA SyncMoves ==
    ASSUME TypeInv, NEW w \in Workers, SyncRecords(w) PROVE RowsMove
<1>1. /\ w \in Actors /\ actor[w].on \in Slots /\ actor[w].pc = "sync_records"
      /\ actor'[w].pc = "idle" /\ actor[w].buttons \in BOOLEAN
  BY Staff, RestsAtIdle DEF SyncRecords, At, TypeInv, OnSlot, SlotPcs, HoldPcs, SyncPcs, TypeOK
<1>2. PICK s \in Slots : s = actor[w].on
  BY <1>1
<1>3. SUFFICES ASSUME ~RowsMove PROVE FALSE
  OBVIOUS
<1>4. copies' # copies
  BY <1>3, RowsSame
<1>5. /\ \/ /\ actor[w].res = "done" /\ RecordAlertSynced(s, actor[w].buttons)
         \/ /\ actor[w].res = "gone" /\ RecordAlertClosed(s, "gone")
         \/ /\ actor[w].res = "failed" /\ RecordAlertSynced(s, actor[w].buttons)
            /\ shown' = [shown EXCEPT ![s].kept = TRUE]
         \/ /\ actor[w].res \in {"retry", "failed"}
            /\ \E count \in BOOLEAN : ReleaseAlertClose(s, count)
  <2>1. (actor[w].res = "failed") \in BOOLEAN
    OBVIOUS
  <2> QED
    BY <1>2, <1>4, <2>1 DEF SyncRecords
<1>6. shown[s] \in Message
  BY DEF TypeInv, TypeOK
<1>7. SyncWrites(w, s)
  <2>1. ASSUME actor[w].res = "done", RecordAlertSynced(s, actor[w].buttons) PROVE SyncWrites(w, s)
    BY <1>1, <1>3, <2>1, SyncForm DEF SyncWrites
  <2>2. ASSUME RecordAlertClosed(s, "gone") PROVE SyncWrites(w, s)
    BY <1>3, <2>2, CloseForm DEF SyncWrites
  <2>3. ASSUME actor[w].res = "failed", RecordAlertSynced(s, actor[w].buttons),
               shown' = [shown EXCEPT ![s].kept = TRUE]
        PROVE  SyncWrites(w, s)
    <3>1. shown'[s] = [shown[s] EXCEPT !.kept = TRUE]
      BY <2>3 DEF TypeInv, TypeOK
    <3> QED
      BY <1>1, <1>3, <2>3, <3>1, SyncForm DEF SyncWrites
  <2>4. ASSUME actor[w].res \in {"retry", "failed"}, NEW count \in BOOLEAN, ReleaseAlertClose(s, count)
        PROVE  SyncWrites(w, s)
    BY <1>3, <2>4, GiveBackForm DEF SyncWrites
  <2> QED
    BY <1>5, <2>1, <2>2, <2>3, <2>4
<1>8. RowMoves(s)
  BY <1>1, <1>2, <1>7 DEF RowMoves, Ended
<1>9. copies' \in [Slots -> CopyRow] /\ \A t \in Slots \ {s} : copies'[t] = copies[t]
  BY <1>1, <1>5, RowWrites
<1> QED
  BY <1>3, <1>8, <1>9 DEF RowsMove, RowMoves

LEMMA CloseMoves ==
    ASSUME TypeInv, NEW a \in Actors, CloseRecords(a) PROVE RowsMove
<1>1. /\ actor[a].on \in Slots /\ actor[a].pc = "close_records" /\ actor'[a].pc = "idle"
  BY RestsAtIdle DEF CloseRecords, At, TypeInv, OnSlot, SlotPcs, HoldPcs, ClosePcs
<1>2. PICK s \in Slots : s = actor[a].on
  BY <1>1
<1>3. SUFFICES ASSUME ~RowsMove PROVE FALSE
  OBVIOUS
<1>4. copies' # copies
  BY <1>3, RowsSame
<1>5. \/ actor[a].res = "done" /\ RecordAlertClosed(s, "edited")
      \/ RecordAlertClosed(s, "gone") \/ RecordAlertClosed(s, "failed")
      \/ \E count \in BOOLEAN : ReleaseAlertClose(s, count)
  <2>1. (actor[a].res = "failed") \in BOOLEAN
    OBVIOUS
  <2> QED
    BY <1>2, <1>4, <2>1 DEF CloseRecords
<1>6. CloseWrites(a, s)
  <2>1. ASSUME actor[a].res = "done", RecordAlertClosed(s, "edited") PROVE CloseWrites(a, s)
    BY <1>3, <2>1, CloseForm DEF CloseWrites
  <2>2. ASSUME NEW how \in {"gone", "failed"}, RecordAlertClosed(s, how) PROVE CloseWrites(a, s)
    BY <1>3, <2>2, CloseForm DEF CloseWrites, Closes
  <2>3. ASSUME NEW count \in BOOLEAN, ReleaseAlertClose(s, count) PROVE CloseWrites(a, s)
    BY <1>3, <2>3, GiveBackForm DEF CloseWrites
  <2> QED
    BY <1>5, <2>1, <2>2, <2>3
<1>7. RowMoves(s)
  BY <1>1, <1>2, <1>6 DEF RowMoves, Ended
<1>8. copies' \in [Slots -> CopyRow] /\ \A t \in Slots \ {s} : copies'[t] = copies[t]
  BY <1>5, RowWrites
<1> QED
  BY <1>3, <1>7, <1>8 DEF RowsMove, RowMoves

\* Every step moves each row in one of these ways, or leaves it.
LEMMA StepMoves == TypeInv /\ [Next]_vars => RowsMove
<1> SUFFICES ASSUME TypeInv, [Next]_vars, ~RowsMove PROVE FALSE
  OBVIOUS
<1>0. copies' # copies
  BY RowsSame
<1>1. Next
  BY <1>0 DEF vars
<1>2. ASSUME NEW w \in Workers, WorkerStep(w) PROVE FALSE
  <2>1. CASE ReleaseStaleAlertClaims(w)
    BY <2>1, ReleaseMoves
  <2>2. CASE Plans(w)
    BY <1>0, <2>2, PlannedMoves DEF Plans, PlanAlerts, BeginAlert, PlanReminders, PlanReminderSlots
  <2>3. CASE PostsCopy(w)
    BY <1>0, <2>3, ClaimsMove, PostMoves, SupersedeMoves
       DEF PostsCopy, ListPending, PostClaimLost, PostReads, PostRoutes, Send
  <2>4. CASE SyncsCopy(w)
    BY <1>0, <2>4, ClaimsMove, SyncMoves DEF SyncsCopy, SyncLooks, SyncReads, SyncEdits, Edits
  <2>5. CASE (\E s \in Slots : CloseClaims(w, s)) \/ ClosesCopy(w)
    BY <1>0, <2>5, ClaimsMove, CloseMoves, Staff DEF ClosesCopy, CloseLooks, CloseEdits, Edits
  <2> QED
    BY <1>2, <2>1, <2>2, <2>3, <2>4, <2>5 DEF WorkerStep
<1>3. ASSUME NEW a \in Admins, AdminStep(a) \/ Presses(a) PROVE FALSE
  BY <1>0, <1>3, ClaimsMove, CloseMoves, RevokeMoves, Staff
     DEF AdminStep, Presses, ClosesCopy, CloseLooks, CloseEdits, Edits, Revoke, RevokeConfirm
<1> QED
  BY <1>0, <1>1, <1>2, <1>3, ExpiryMoves
     DEF Next, Stops, ChangesLink, DeletesMessage, HourPasses, LiftBegins

-----------------------------------------------------------------------------
\* The types.
ActorsTyped == actor' \in [Actors -> Actor] /\ OnSlot'

LEMMA HelpersTyped ==
    ASSUME TypeInv, NEW a \in Actors
    PROVE  /\ Rests(a) => ActorsTyped
           /\ actor[a].on \in Slots => \A pc \in Pcs :
                /\ Goes(a, pc) => ActorsTyped
                /\ \A res \in Outcomes : Ends(a, pc, res) => ActorsTyped
                /\ Looks(a, pc) => ActorsTyped
           /\ \A pc \in Pcs \ SlotPcs : Goes(a, pc) => ActorsTyped
           /\ \A pc \in Pcs, s \in Slots :
                /\ Lists(a, s, pc) => ActorsTyped
                /\ actor' = [actor EXCEPT ![a].pc = pc, ![a].on = s] => ActorsTyped
<1>0. actor[a] \in Actor /\ TypeOK
  BY Shapes DEF TypeInv
<1>1. Idle \in Actor /\ Idle.pc \notin SlotPcs
  BY BoundsAssumption DEF Idle, Actor, Pcs, Outcomes, SlotPcs, HoldPcs, PostPcs, SyncPcs, ClosePcs
<1>2. Rests(a) => ActorsTyped
  BY <1>0, <1>1, ActorMoves, TurnedTyped DEF ActorsTyped
<1>3. ASSUME NEW pc \in Pcs, actor[a].on \in Slots \/ pc \notin SlotPcs, Goes(a, pc)
      PROVE  ActorsTyped
  <2>1. PICK r : r = [actor[a] EXCEPT !.pc = pc]
    OBVIOUS
  <2>2. r \in Actor /\ r.pc = pc /\ r.on = actor[a].on
    BY <1>0, <2>1 DEF Actor
  <2>3. Turned(a, r)
    BY <1>0, <1>3, <2>1, ActorMoves
  <2> QED
    BY <1>3, <2>2, <2>3, TurnedTyped DEF ActorsTyped
<1>4. ASSUME NEW pc \in Pcs, actor[a].on \in Slots, NEW res \in Outcomes, Ends(a, pc, res)
      PROVE  ActorsTyped
  <2>1. PICK r : r = [actor[a] EXCEPT !.pc = pc, !.res = res]
    OBVIOUS
  <2>2. r \in Actor /\ r.on = actor[a].on
    BY <1>0, <2>1 DEF Actor
  <2>3. Turned(a, r)
    BY <1>0, <1>4, <2>1, ActorMoves
  <2> QED
    BY <1>4, <2>2, <2>3, TurnedTyped DEF ActorsTyped
<1>5. ASSUME NEW pc \in Pcs, actor[a].on \in Slots, Looks(a, pc)
      PROVE  ActorsTyped
  <2>1. PICK r : r = [actor[a] EXCEPT !.pc = pc, !.attempts = copies[actor[a].on].attempts,
                                      !.buttons = copies[actor[a].on].buttons_live]
    OBVIOUS
  <2>2. copies[actor[a].on].attempts \in Nat /\ copies[actor[a].on].buttons_live \in BOOLEAN
    BY <1>0, <1>5 DEF TypeOK, CopyRow
  <2>3. r \in Actor /\ r.on = actor[a].on
    BY <1>0, <2>1, <2>2 DEF Actor
  <2>4. Turned(a, r)
    BY <1>0, <1>5, <2>1, ActorMoves
  <2> QED
    BY <1>5, <2>3, <2>4, TurnedTyped DEF ActorsTyped
<1>6. ASSUME NEW pc \in Pcs, NEW s \in Slots, Lists(a, s, pc)
      PROVE  ActorsTyped
  <2>1. PICK r : r = [actor[a] EXCEPT !.pc = pc, !.on = s, !.attempts = copies[s].attempts]
    OBVIOUS
  <2>2. copies[s].attempts \in Nat
    BY <1>0 DEF TypeOK, CopyRow
  <2>3. r \in Actor /\ r.on = s
    BY <1>0, <2>1, <2>2 DEF Actor
  <2>4. Turned(a, r)
    BY <1>0, <1>6, <2>1, ActorMoves
  <2> QED
    BY <1>6, <2>3, <2>4, TurnedTyped DEF ActorsTyped
<1>7. ASSUME NEW pc \in Pcs, NEW s \in Slots, actor' = [actor EXCEPT ![a].pc = pc, ![a].on = s]
      PROVE  ActorsTyped
  <2>1. PICK r : r = [actor[a] EXCEPT !.pc = pc, !.on = s]
    OBVIOUS
  <2>2. r \in Actor /\ r.on = s
    BY <1>0, <2>1 DEF Actor
  <2>3. Turned(a, r)
    BY <1>0, <1>7, <2>1, ActorMoves
  <2> QED
    BY <1>7, <2>2, <2>3, TurnedTyped DEF ActorsTyped
<1> QED
  BY <1>2, <1>3, <1>4, <1>5, <1>6, <1>7

LEMMA ActorsSame == TypeInv /\ UNCHANGED actor => ActorsTyped
BY Shapes DEF TypeInv, ActorsTyped, OnSlot

\* An actor that reads the lockdown takes the state of its link along.
LEMMA ReadsRevoked ==
    ASSUME TypeInv, NEW a \in Actors, NEW pc \in Pcs,
           actor' = [actor EXCEPT ![a].pc = pc, ![a].revoked = ld.revoked]
    PROVE  Turned(a, [actor[a] EXCEPT !.pc = pc, !.revoked = ld.revoked])
BY Shapes DEF TypeInv, Turned, Actor

LEMMA ReadsTyped ==
    ASSUME TypeInv, NEW a \in Actors, NEW pc \in Pcs, actor[a].on \in Slots,
           actor' = [actor EXCEPT ![a].pc = pc, ![a].revoked = ld.revoked]
    PROVE  ActorsTyped
<1>1. PICK r : r = [actor[a] EXCEPT !.pc = pc, !.revoked = ld.revoked]
  OBVIOUS
<1>2. actor[a] \in Actor /\ ld.revoked \in BOOLEAN
  BY Shapes DEF TypeInv, TypeOK
<1>3. r \in Actor /\ r.on = actor[a].on
  BY <1>1, <1>2 DEF Actor
<1> QED
  BY <1>1, <1>3, ReadsRevoked, TurnedTyped DEF ActorsTyped

LEMMA PlansTyped ==
    ASSUME TypeInv, NEW w \in Workers, Plans(w) PROVE ActorsTyped
<1>0. w \in Actors /\ actor[w] \in Actor /\ actor \in [Actors -> Actor]
  BY Staff, Shapes DEF TypeInv
<1>1. CASE PlanAlerts(w)
  <2>1. PICK r : r = [actor[w] EXCEPT !.pc = "begin", !.dests = linked]
    OBVIOUS
  <2>2. Turned(w, r)
    BY <1>0, <1>1, <2>1 DEF PlanAlerts, Turned, Actor
  <2>3. r \in Actor /\ r.pc \notin SlotPcs
    BY <1>0, <2>1 DEF Actor, TypeInv, TypeOK, Pcs, SlotPcs, HoldPcs, PostPcs, SyncPcs, ClosePcs
  <2> QED
    BY <1>0, <2>2, <2>3, TurnedTyped DEF ActorsTyped
<1>2. CASE PlanReminders(w)
  <2>1. PICK r : r = [actor[w] EXCEPT !.pc = "insert", !.dests = linked \cap AlertDestKinds,
                                      !.due = ReminderSeq]
    OBVIOUS
  <2>2. Turned(w, r)
    BY <1>0, <1>2, <2>1 DEF PlanReminders, Turned, Actor
  <2>3. ReminderSeq \in 0..MaxSeq
    BY BoundsAssumption DEF ReminderSeq, TypeInv, TypeOK
  <2>4. r \in Actor /\ r.pc \notin SlotPcs
    BY <1>0, <2>1, <2>3 DEF Actor, TypeInv, TypeOK, Pcs, SlotPcs, HoldPcs, PostPcs, SyncPcs, ClosePcs
  <2> QED
    BY <1>0, <2>2, <2>4, TurnedTyped DEF ActorsTyped
<1>3. CASE BeginAlert(w) \/ PlanReminderSlots(w)
  BY <1>0, <1>3, HelpersTyped DEF BeginAlert, PlanReminderSlots
<1> QED
  BY <1>1, <1>2, <1>3 DEF Plans

LEMMA PcsAre ==
    /\ HoldPcs \subseteq Pcs /\ SlotPcs \subseteq Pcs
    /\ {"idle", "begin", "insert", "revoke", "record_revoke"} \subseteq Pcs \ SlotPcs
    /\ {"post_reads", "post_routes", "send", "post_records", "supersede", "claim_post",
        "sync_looks", "sync_reads", "sync_edits", "sync_records",
        "close_looks", "close_edits", "close_records"} \subseteq SlotPcs
BY DEF Pcs, SlotPcs, HoldPcs, PostPcs, SyncPcs, ClosePcs

\* An actor at work has a slot of the alert in hand.
LEMMA AtWork ==
    ASSUME TypeInv, NEW a \in Actors, NEW pc \in SlotPcs, At(a, pc)
    PROVE  actor[a].on \in Slots
BY DEF TypeInv, OnSlot, At

LEMMA PostsTyped ==
    ASSUME TypeInv, NEW w \in Workers, PostsCopy(w) PROVE ActorsTyped
<1>0. w \in Actors
  BY Staff
<1>1. CASE \E s \in Slots : ListPending(w, s)
  BY <1>0, <1>1, HelpersTyped, PcsAre DEF ListPending
<1>2. CASE PostClaims(w)
  BY <1>0, <1>2, HelpersTyped, AtWork, PcsAre DEF PostClaims, Claims
<1>3. CASE PostClaimLost(w)
  BY <1>0, <1>3, HelpersTyped DEF PostClaimLost
<1>4. CASE PostReads(w)
  <2>1. actor[w].on \in Slots /\ "post_records" \in Pcs /\ "post_routes" \in Pcs
    BY <1>0, <1>4, AtWork, PcsAre DEF PostReads
  <2>2. ASSUME actor' = [actor EXCEPT ![w].pc = "post_routes", ![w].revoked = ld.revoked]
        PROVE  ActorsTyped
    BY <1>0, <2>1, <2>2, ReadsTyped
  <2>3. ASSUME NEW res \in {"retry", "fatal"}, Ends(w, "post_records", res) PROVE ActorsTyped
    BY <1>0, <2>1, <2>3, HelpersTyped, OutcomesAre
  <2> QED
    BY <1>4, <2>2, <2>3 DEF PostReads
<1>5. CASE PostRoutes(w)
  <2>1. actor[w].on \in Slots /\ "post_records" \in Pcs /\ "send" \in Pcs
    BY <1>0, <1>5, AtWork, PcsAre DEF PostRoutes
  <2>2. Goes(w, "send") \/ \E res \in {"failed", "fatal", "retry"} : Ends(w, "post_records", res)
    BY <1>5 DEF PostRoutes
  <2> QED
    BY <1>0, <2>1, <2>2, HelpersTyped, OutcomesAre
<1>6. CASE Send(w)
  <2>1. actor[w].on \in Slots /\ "post_records" \in Pcs
    BY <1>0, <1>6, AtWork, PcsAre DEF Send
  <2>2. \E res \in {"done", "failed", "retry"} : Ends(w, "post_records", res)
    BY <1>6 DEF Send
  <2> QED
    BY <1>0, <2>1, <2>2, HelpersTyped, OutcomesAre
<1>7. CASE PostRecords(w)
  <2>1. actor[w].on \in Slots /\ "supersede" \in Pcs
    BY <1>0, <1>7, AtWork, PcsAre DEF PostRecords
  <2>2. Goes(w, "supersede") \/ Rests(w)
    BY <1>7 DEF PostRecords, WriteFails
  <2> QED
    BY <1>0, <2>1, <2>2, HelpersTyped
<1>8. CASE Supersede(w)
  BY <1>0, <1>8, HelpersTyped DEF Supersede, WriteFails
<1> QED
  BY <1>1, <1>2, <1>3, <1>4, <1>5, <1>6, <1>7, <1>8 DEF PostsCopy

LEMMA EditsTyped ==
    ASSUME TypeInv, NEW a \in Actors, NEW text \in Message, NEW pc \in Pcs,
           actor[a].on \in Slots, Edits(a, text, pc)
    PROVE  ActorsTyped /\ shown' \in [Slots -> Message]
<1>1. \E res \in {"done", "gone", "failed", "retry"} : Ends(a, pc, res)
  BY DEF Edits
<1>2. ActorsTyped
  BY <1>1, HelpersTyped, OutcomesAre
<1>3. shown' = shown \/ shown' = [shown EXCEPT ![actor[a].on] = text]
  BY DEF Edits
<1> QED
  BY <1>2, <1>3 DEF TypeInv, TypeOK

LEMMA TextsTyped ==
    /\ \A buttons, revoked \in BOOLEAN : ActiveText(buttons, revoked) \in Message
    /\ LiftedText \in Message /\ NoMessage \in Message
BY DEF ActiveText, LiftedText, NoMessage, Message

LEMMA SyncsTyped ==
    ASSUME TypeInv, NEW w \in Workers, SyncsCopy(w) PROVE ActorsTyped
<1>0. w \in Actors
  BY Staff
<1>1. ASSUME NEW s \in Slots, SyncClaims(w, s) PROVE ActorsTyped
  BY <1>0, <1>1, HelpersTyped, PcsAre DEF SyncClaims, Claims
<1>2. CASE SyncLooks(w)
  <2>1. actor[w].on \in Slots /\ "sync_reads" \in Pcs /\ "sync_records" \in Pcs
    BY <1>0, <1>2, AtWork, PcsAre DEF SyncLooks
  <2> QED
    BY <1>0, <1>2, <2>1, HelpersTyped, OutcomesAre DEF SyncLooks
<1>3. CASE SyncReads(w)
  <2>1. actor[w].on \in Slots /\ "sync_edits" \in Pcs /\ "sync_records" \in Pcs
    BY <1>0, <1>3, AtWork, PcsAre DEF SyncReads
  <2>2. ASSUME actor' = [actor EXCEPT ![w].pc = "sync_edits", ![w].revoked = ld.revoked]
        PROVE  ActorsTyped
    BY <1>0, <2>1, <2>2, ReadsTyped
  <2>3. ASSUME Ends(w, "sync_records", "retry") PROVE ActorsTyped
    BY <1>0, <2>1, <2>3, HelpersTyped, OutcomesAre
  <2> QED
    BY <1>3, <2>2, <2>3 DEF SyncReads
<1>4. CASE SyncEdits(w)
  <2>1. actor[w].on \in Slots /\ "sync_records" \in Pcs
    BY <1>0, <1>4, AtWork, PcsAre DEF SyncEdits
  <2>2. ActiveText(actor[w].buttons, actor[w].revoked) \in Message
    BY <1>0, TextsTyped DEF TypeInv, TypeOK
  <2> QED
    BY <1>0, <1>4, <2>1, <2>2, EditsTyped DEF SyncEdits
<1>5. CASE SyncRecords(w)
  BY <1>0, <1>5, HelpersTyped DEF SyncRecords
<1> QED
  BY <1>1, <1>2, <1>3, <1>4, <1>5 DEF SyncsCopy

LEMMA ClosesTyped ==
    ASSUME TypeInv, NEW a \in Actors,
           ClosesCopy(a) \/ \E s \in Slots : CloseClaims(a, s) \/ PressStale(a, s)
    PROVE  ActorsTyped
<1>1. ASSUME NEW s \in Slots, CloseClaims(a, s) \/ PressStale(a, s) PROVE ActorsTyped
  BY <1>1, HelpersTyped, PcsAre DEF CloseClaims, PressStale, Claims
<1>2. CASE CloseLooks(a)
  <2>1. actor[a].on \in Slots /\ "close_edits" \in Pcs /\ "close_records" \in Pcs
    BY <1>2, AtWork, PcsAre DEF CloseLooks
  <2> QED
    BY <1>2, <2>1, HelpersTyped, OutcomesAre DEF CloseLooks
<1>3. CASE CloseEdits(a)
  <2>1. actor[a].on \in Slots /\ "close_records" \in Pcs
    BY <1>3, AtWork, PcsAre DEF CloseEdits
  <2> QED
    BY <1>3, <2>1, EditsTyped, TextsTyped DEF CloseEdits
<1>4. CASE CloseRecords(a)
  BY <1>4, HelpersTyped DEF CloseRecords
<1> QED
  BY <1>1, <1>2, <1>3, <1>4 DEF ClosesCopy

LEMMA ActorsStep == TypeInv /\ [Next]_vars => ActorsTyped
<1> SUFFICES ASSUME TypeInv, [Next]_vars PROVE ActorsTyped
  OBVIOUS
<1>1. CASE UNCHANGED actor
  BY <1>1, ActorsSame
<1>2. ASSUME NEW w \in Workers, WorkerStep(w) PROVE ActorsTyped
  BY <1>1, <1>2, PlansTyped, PostsTyped, SyncsTyped, ClosesTyped, Staff
     DEF WorkerStep, ReleaseStaleAlertClaims
<1>3. ASSUME NEW a \in Admins, AdminStep(a) \/ Presses(a) PROVE ActorsTyped
  <2>1. a \in Actors
    BY Staff
  <2> QED
    BY <1>3, <2>1, ClosesTyped, HelpersTyped, PcsAre
       DEF AdminStep, Presses, Revoke, RecordLinkRevoked, RevokeConfirm
<1>4. ASSUME NEW a \in Actors, Stops(a) PROVE ActorsTyped
  BY <1>4, HelpersTyped DEF Stops
<1> QED
  BY <1>1, <1>2, <1>3, <1>4
     DEF Next, vars, ChangesLink, DeletesMessage, ClaimExpires, HourPasses, LiftBegins

-----------------------------------------------------------------------------
\* What a step makes of one message, and of the messages sent.
ShownBy(s) ==
    \/ \E w \in Workers :
            /\ actor[w].pc = "post_records" /\ actor[w].on = s /\ actor[w].res = "done" /\ Posting(s)
            /\ copies'[s].state = "posted" /\ shown'[s] = ActiveText(TRUE, actor[w].revoked)
    \/ \E w \in Workers :
            /\ actor[w].pc = "sync_edits" /\ actor[w].on = s
            /\ shown'[s] = ActiveText(actor[w].buttons, actor[w].revoked)
    \/ \E w \in Workers :
            /\ actor[w].pc = "sync_records" /\ actor[w].on = s /\ actor[w].res = "failed"
            /\ shown'[s] = [shown[s] EXCEPT !.kept = TRUE]
    \/ \E a \in Actors :
            actor[a].pc = "close_edits" /\ actor[a].on = s /\ shown'[s] = LiftedText
    \/ shown[s].there /\ shown'[s] = NoMessage

ShownMove == shown' \in [Slots -> Message] /\ \A s \in Slots : shown'[s] = shown[s] \/ ShownBy(s)

LEMMA ShownSame == TypeInv /\ UNCHANGED shown => ShownMove
BY DEF TypeInv, TypeOK, ShownMove

\* One message is written, the others are left.
LEMMA OneShownMoves ==
    ASSUME TypeInv, NEW s \in Slots, NEW m \in Message, shown' = [shown EXCEPT ![s] = m],
           shown'[s] = m => ShownBy(s)
    PROVE  ShownMove
BY DEF TypeInv, TypeOK, ShownMove

LEMMA PostShows ==
    ASSUME TypeInv, NEW w \in Workers, PostRecords(w), shown' # shown PROVE ShownMove
<1>1. w \in Actors /\ actor[w].on \in Slots /\ actor[w].pc = "post_records" /\ actor[w].revoked \in BOOLEAN
  BY Staff, AtWork, PcsAre DEF PostRecords, At, TypeInv, TypeOK
<1>2. PICK s \in Slots : s = actor[w].on
  BY <1>1
<1>3. /\ actor[w].res = "done" /\ RecordAlertPosted(s)
      /\ shown' = [shown EXCEPT ![s] = IF Posting(s) THEN ActiveText(TRUE, actor[w].revoked) ELSE shown[s]]
  BY <1>2 DEF PostRecords, WriteFails, TypeInv, TypeOK
<1>4. PICK m \in Message : m = ActiveText(TRUE, actor[w].revoked)
  BY <1>1, TextsTyped
<1>5. Posting(s) /\ shown' = [shown EXCEPT ![s] = m]
  BY <1>3, <1>4 DEF TypeInv, TypeOK
<1>6. copies'[s].state = "posted"
  <2>1. copies' = [copies EXCEPT ![s] = IF Posting(s)
                        THEN [copies[s] EXCEPT !.state = "posted", !.claim = "none", !.attempts = 0]
                        ELSE copies[s]]
    BY <1>3 DEF RecordAlertPosted, Update, TypeInv, TypeOK
  <2> QED
    BY <1>5, <2>1 DEF TypeInv, TypeOK, CopyRow
<1> QED
  BY ZenonT(30), <1>1, <1>2, <1>3, <1>4, <1>5, <1>6, OneShownMoves DEF ShownBy

LEMMA SyncShows ==
    ASSUME TypeInv, NEW w \in Workers, SyncEdits(w) \/ SyncRecords(w), shown' # shown
    PROVE  ShownMove
<1>1. w \in Actors /\ actor[w].on \in Slots
  BY Staff, AtWork, PcsAre DEF SyncEdits, SyncRecords
<1>2. PICK s \in Slots : s = actor[w].on
  BY <1>1
<1>3. CASE SyncEdits(w)
  <2>1. PICK m \in Message : m = ActiveText(actor[w].buttons, actor[w].revoked)
    BY <1>1, TextsTyped DEF TypeInv, TypeOK
  <2>2. shown' = [shown EXCEPT ![s] = m] /\ actor[w].pc = "sync_edits"
    BY <1>2, <1>3, <2>1 DEF SyncEdits, Edits, At
  <2> QED
    BY <1>2, <2>1, <2>2, OneShownMoves DEF ShownBy
<1>4. CASE SyncRecords(w)
  <2>1. PICK m \in Message : m = [shown[s] EXCEPT !.kept = TRUE]
    BY DEF TypeInv, TypeOK, Message
  <2>2. /\ shown' = [shown EXCEPT ![s] = m] /\ actor[w].pc = "sync_records"
        /\ actor[w].res = "failed"
    BY <1>2, <1>4, <2>1 DEF SyncRecords, At, TypeInv, TypeOK
  <2> QED
    BY <1>2, <2>1, <2>2, OneShownMoves DEF ShownBy
<1> QED
  BY <1>3, <1>4

LEMMA CloseShows ==
    ASSUME TypeInv, NEW a \in Actors, CloseEdits(a), shown' # shown PROVE ShownMove
<1>1. actor[a].on \in Slots
  BY AtWork, PcsAre DEF CloseEdits
<1>2. PICK s \in Slots : s = actor[a].on
  BY <1>1
<1>3. PICK m \in Message : m = LiftedText
  BY TextsTyped
<1>4. shown' = [shown EXCEPT ![s] = m] /\ actor[a].pc = "close_edits"
  BY <1>2, <1>3 DEF CloseEdits, Edits, At
<1> QED
  BY <1>2, <1>3, <1>4, OneShownMoves DEF ShownBy

LEMMA DeletionShows ==
    ASSUME TypeInv, NEW s \in Slots, DeletesMessage(s) PROVE ShownMove
BY TextsTyped, OneShownMoves DEF DeletesMessage, ShownBy

LEMMA StepShows == TypeInv /\ [Next]_vars => ShownMove
<1> SUFFICES ASSUME TypeInv, [Next]_vars, ~ShownMove PROVE FALSE
  OBVIOUS
<1>0. shown' # shown
  BY ShownSame
<1>1. ASSUME NEW w \in Workers, WorkerStep(w) PROVE FALSE
  <2>1. CASE PostsCopy(w)
    BY <1>0, <2>1, PostShows
       DEF PostsCopy, ListPending, PostClaims, Claims, PostClaimLost, PostReads, PostRoutes, Send,
           Supersede
  <2>2. CASE SyncsCopy(w)
    BY <1>0, <2>2, SyncShows DEF SyncsCopy, SyncClaims, Claims, SyncLooks, SyncReads
  <2>3. CASE (\E s \in Slots : CloseClaims(w, s)) \/ ClosesCopy(w)
    BY <1>0, <2>3, CloseShows, Staff DEF CloseClaims, Claims, ClosesCopy, CloseLooks, CloseRecords
  <2> QED
    BY <1>0, <1>1, <2>1, <2>2, <2>3
       DEF WorkerStep, ReleaseStaleAlertClaims, Plans, PlanAlerts, BeginAlert, PlanReminders,
           PlanReminderSlots
<1>2. ASSUME NEW a \in Admins, AdminStep(a) \/ Presses(a) PROVE FALSE
  BY <1>0, <1>2, CloseShows, Staff
     DEF AdminStep, Presses, ClosesCopy, CloseLooks, CloseRecords, Revoke, RecordLinkRevoked,
         RevokeConfirm, PressStale, Claims
<1> QED
  BY <1>0, <1>1, <1>2, DeletionShows
     DEF Next, vars, Stops, ChangesLink, ClaimExpires, HourPasses, LiftBegins

\* A message more is the send of a worker; one that goes well says so.
Sends(s) ==
    \E w \in Workers :
        /\ actor[w].pc = "send" /\ actor[w].on = s /\ posts'[s] = posts[s] + 1
        /\ faults' = faults + 1 \/ actor'[w] = [actor[w] EXCEPT !.pc = "post_records", !.res = "done"]
        /\ copies' = copies

PostsMove == posts' \in [Slots -> Nat] /\ \A s \in Slots : posts'[s] = posts[s] \/ Sends(s)

LEMMA SendPosts ==
    ASSUME TypeInv, NEW w \in Workers, Send(w), posts' # posts PROVE PostsMove
<1>1. w \in Actors /\ actor[w].on \in Slots /\ actor[w].pc = "send"
  BY Staff, AtWork, PcsAre DEF Send, At
<1>2. PICK s \in Slots : s = actor[w].on
  BY <1>1
<1>3. posts' = [posts EXCEPT ![s] = posts[s] + 1]
  BY <1>2 DEF Send, TypeInv, TypeOK
<1>4. faults' = faults + 1 \/ actor'[w] = [actor[w] EXCEPT !.pc = "post_records", !.res = "done"]
  <2>1. Fault \/ Ends(w, "post_records", "done")
    BY DEF Send
  <2>2. "post_records" \in Pcs /\ "done" \in Outcomes
    BY PcsAre, OutcomesAre
  <2>3. ASSUME Ends(w, "post_records", "done")
        PROVE  Turned(w, [actor[w] EXCEPT !.pc = "post_records", !.res = "done"])
    BY <1>1, <2>2, <2>3, ActorMoves DEF TypeInv
  <2> QED
    BY <1>1, <2>1, <2>3, TurnedOnly DEF Fault, TypeInv
<1>5. posts' \in [Slots -> Nat] /\ posts'[s] = posts[s] + 1 /\ copies' = copies
  BY <1>3 DEF Send, TypeInv, TypeOK
<1>6. Sends(s)
  BY <1>1, <1>2, <1>4, <1>5 DEF Sends
<1> QED
  BY <1>3, <1>5, <1>6 DEF PostsMove, TypeInv, TypeOK

LEMMA StepPosts == TypeInv /\ [Next]_vars => PostsMove
<1> SUFFICES ASSUME TypeInv, [Next]_vars, ~PostsMove PROVE FALSE
  OBVIOUS
<1>0. posts' # posts
  BY DEF PostsMove, TypeInv, TypeOK
<1>1. ASSUME NEW w \in Workers, WorkerStep(w) PROVE FALSE
  BY <1>0, <1>1, SendPosts
     DEF WorkerStep, ReleaseStaleAlertClaims, Plans, PlanAlerts, BeginAlert, PlanReminders,
         PlanReminderSlots, PostsCopy, ListPending, PostClaims, Claims, PostClaimLost, PostReads,
         PostRoutes, PostRecords, Supersede, SyncsCopy, SyncClaims, SyncLooks, SyncReads, SyncEdits,
         Edits, SyncRecords, CloseClaims, ClosesCopy, CloseLooks, CloseEdits, CloseRecords
<1>2. ASSUME NEW a \in Admins, AdminStep(a) \/ Presses(a) PROVE FALSE
  BY <1>0, <1>2
     DEF AdminStep, Presses, ClosesCopy, CloseLooks, CloseEdits, Edits, CloseRecords, Revoke,
         RecordLinkRevoked, RevokeConfirm, PressStale, Claims
<1> QED
  BY <1>0, <1>1, <1>2
     DEF Next, vars, Stops, ChangesLink, DeletesMessage, ClaimExpires, HourPasses, LiftBegins

LEMMA StepLockdown ==
    ASSUME TypeInv, [Next]_vars
    PROVE  /\ ld' \in [active : BOOLEAN, decided : BOOLEAN, revoked : BOOLEAN]
           /\ ld'.active => ld.active
           /\ ld.revoked => ld'.revoked
           /\ ld'.revoked /\ ~ld.revoked =>
                \E a \in Admins : RecordLinkRevoked(a) /\ Revoked
                                    /\ (~BeingPosted \/ "revoke in post" \in Hazards)
           /\ hour' \in 0..MaxSeq /\ linked' \subseteq Dests
           /\ faults' \in 0..MaxFaults /\ faults <= faults'
<1>0. TypeOK
  BY DEF TypeInv
<1>1. hour' \in 0..MaxSeq
  <2>1. hour' = hour \/ (hour < MaxSeq /\ hour' = hour + 1)
    BY DEF Next, vars, WorkerStep, ReleaseStaleAlertClaims, Plans, PlanAlerts, BeginAlert, PlanReminders,
           PlanReminderSlots, PostsCopy, ListPending, PostClaims, Claims, PostClaimLost, PostReads,
           PostRoutes, Send, PostRecords, Supersede, SyncsCopy, SyncClaims, SyncLooks, SyncReads,
           SyncEdits, Edits, SyncRecords, CloseClaims, ClosesCopy, CloseLooks, CloseEdits, CloseRecords,
           AdminStep, Presses, Revoke, RecordLinkRevoked, RevokeConfirm, PressStale, Stops,
           ChangesLink, DeletesMessage, ClaimExpires, HourPasses, LiftBegins
  <2> QED
    BY <1>0, <2>1, BoundsAssumption DEF TypeOK
<1>2. linked' \subseteq Dests
  <2>1. linked' = linked \/ \E d \in Dests : ChangesLink(d)
    BY DEF Next, vars, WorkerStep, ReleaseStaleAlertClaims, Plans, PlanAlerts, BeginAlert, PlanReminders,
           PlanReminderSlots, PostsCopy, ListPending, PostClaims, Claims, PostClaimLost, PostReads,
           PostRoutes, Send, PostRecords, Supersede, SyncsCopy, SyncClaims, SyncLooks, SyncReads,
           SyncEdits, Edits, SyncRecords, CloseClaims, ClosesCopy, CloseLooks, CloseEdits, CloseRecords,
           AdminStep, Presses, Revoke, RecordLinkRevoked, RevokeConfirm, PressStale, Stops,
           DeletesMessage, ClaimExpires, HourPasses, LiftBegins
  <2> QED
    BY <1>0, <2>1 DEF TypeOK, ChangesLink
<1>3. faults' \in 0..MaxFaults /\ faults <= faults'
  <2>1. faults' = faults \/ Fault
    BY ZenonT(30) DEF NoFault, Next, vars, WorkerStep, ReleaseStaleAlertClaims, Plans, PlanAlerts, BeginAlert,
           PlanReminders, PlanReminderSlots, PostsCopy, ListPending, PostClaims, Claims, PostClaimLost,
           PostReads, PostRoutes, Send, PostRecords, Supersede, SyncsCopy, SyncClaims, SyncLooks,
           SyncReads, SyncEdits, Edits, SyncRecords, CloseClaims, ClosesCopy, CloseLooks, CloseEdits,
           CloseRecords, AdminStep, Presses, Revoke, RecordLinkRevoked, RevokeConfirm, PressStale,
           Stops, ChangesLink, DeletesMessage, ClaimExpires, HourPasses, LiftBegins, WriteFails
  <2> QED
    BY <1>0, <2>1, FaultsGrow DEF NoFault
<1>4. \/ ld' = ld \/ ld' = [ld EXCEPT !.decided = TRUE] \/ ld' = [ld EXCEPT !.active = FALSE]
      \/ \E a \in Admins : RecordLinkRevoked(a) /\ Revoked
                                    /\ (~BeingPosted \/ "revoke in post" \in Hazards)
  BY DEF Next, vars, WorkerStep, ReleaseStaleAlertClaims, Plans, PlanAlerts, BeginAlert,
         PlanReminders, PlanReminderSlots, PostsCopy, ListPending, PostClaims, Claims, PostClaimLost,
         PostReads, PostRoutes, Send, PostRecords, Supersede, SyncsCopy, SyncClaims, SyncLooks,
         SyncReads, SyncEdits, Edits, SyncRecords, CloseClaims, ClosesCopy, CloseLooks, CloseEdits,
         CloseRecords, AdminStep, Presses, Revoke, RecordLinkRevoked, RevokeConfirm, PressStale,
         Stops, ChangesLink, DeletesMessage, ClaimExpires, HourPasses, LiftBegins
<1>5. ld \in [active : BOOLEAN, decided : BOOLEAN, revoked : BOOLEAN]
  BY <1>0 DEF TypeOK
<1>6. /\ ld' \in [active : BOOLEAN, decided : BOOLEAN, revoked : BOOLEAN]
      /\ ld'.active => ld.active
      /\ ld.revoked => ld'.revoked
  BY <1>4, <1>5 DEF Revoked
<1>7. ASSUME ld'.revoked, ~ld.revoked
      PROVE  \E a \in Admins : RecordLinkRevoked(a) /\ Revoked
                                    /\ (~BeingPosted \/ "revoke in post" \in Hazards)
  BY <1>4, <1>5, <1>7
<1> QED
  BY <1>1, <1>2, <1>3, <1>6, <1>7

LEMMA TypeStep == TypeInv /\ [Next]_vars => TypeInv'
BY StepMoves, StepShows, StepPosts, StepLockdown, ActorsStep
   DEF TypeInv, TypeOK, RowsMove, ShownMove, PostsMove, ActorsTyped, Actor

LEMMA TypeInit == Init => TypeInv
<1> SUFFICES ASSUME Init PROVE TypeInv
  OBVIOUS
<1>1. NoCopy \in CopyRow /\ NoMessage \in Message
  BY TextsTyped DEF NoCopy, CopyRow, CopyStates
<1>2. Idle \in Actor /\ Idle.pc \notin SlotPcs
  BY BoundsAssumption DEF Idle, Actor, Pcs, Outcomes, SlotPcs, HoldPcs, PostPcs, SyncPcs, ClosePcs
<1>3. actor \in [Actors -> Actor] /\ OnSlot
  BY <1>2 DEF Init, OnSlot
<1> QED
  BY <1>1, <1>3, BoundsAssumption DEF Init, TypeInv, TypeOK, Actor

LEMMA TypesHold == Spec => []TypeInv
BY TypeInit, TypeStep, PTL DEF Spec

\* In every instance every variable keeps its type: the lockdown's columns, the rows
\* of its copies, their messages, and what each worker and admin has in hand.
THEOREM TypeCorrect == Spec => []TypeOK
BY TypesHold, PTL DEF TypeInv

-----------------------------------------------------------------------------
\* What a step makes of the actors: one of them moves, if any.
ToEnd(a, pc, res) == Turned(a, [actor[a] EXCEPT !.pc = pc, !.res = res])

\* Away from any row, or to one it has not claimed.
GoesElsewhere(a) == \E r : Turned(a, r) /\ r.pc \notin HoldPcs \cup {"supersede"}

\* To the row s, with a claim.
TakesRow(a, s) ==
    /\ actor[a].pc \in {"idle", "claim_post"}
    /\ ld' = ld /\ shown' = shown
    /\ \/ /\ Turned(a, [actor[a] EXCEPT !.pc = "post_reads", !.on = s])
          /\ MayClaimSlot(s) /\ copies'[s] = ClaimAlertSlot(s)
       \/ /\ Turned(a, [actor[a] EXCEPT !.pc = "sync_looks", !.on = s])
          /\ MayClaimSync(s) /\ copies'[s] = ClaimAlertSync(s) /\ ld.active
       \/ /\ Turned(a, [actor[a] EXCEPT !.pc = "close_looks", !.on = s])
          /\ MayClaimClose(s) /\ copies'[s] = ClaimAlertClose(s) /\ ~ld.active

\* From one step of a post to the next.
PostGoes(a) ==
    /\ ld' = ld
    /\ \/ /\ At(a, "post_reads")
          /\ \/ Turned(a, [actor[a] EXCEPT !.pc = "post_routes", !.revoked = ld.revoked])
             \/ \E res \in {"retry", "fatal"} : ToEnd(a, "post_records", res)
       \/ /\ At(a, "post_routes")
          /\ \/ Turned(a, [actor[a] EXCEPT !.pc = "send"])
             \/ \E res \in {"failed", "fatal", "retry"} : ToEnd(a, "post_records", res)
       \/ At(a, "send") /\ \E res \in {"done", "failed", "retry"} : ToEnd(a, "post_records", res)
       \/ /\ At(a, "post_records") /\ actor[a].res = "done" /\ RecordAlertPosted(actor[a].on)
          /\ Turned(a, [actor[a] EXCEPT !.pc = "supersede"])

\* From one step of a refresh to the next.
SyncGoes(a) ==
    /\ ld' = ld /\ copies' = copies
    /\ \/ At(a, "sync_looks") /\ Turned(a,
            [actor[a] EXCEPT !.pc = "sync_reads", !.attempts = copies[actor[a].on].attempts,
                             !.buttons = copies[actor[a].on].buttons_live])
       \/ At(a, "sync_reads") /\ Turned(a, [actor[a] EXCEPT !.pc = "sync_edits", !.revoked = ld.revoked])
       \/ At(a, "sync_edits") /\ ToEnd(a, "sync_records", "done")
            /\ shown' = [shown EXCEPT ![actor[a].on] = ActiveText(actor[a].buttons, actor[a].revoked)]
       \/ /\ At(a, "sync_looks") \/ At(a, "sync_reads") \/ At(a, "sync_edits")
          /\ \E res \in {"retry", "failed", "gone"} : ToEnd(a, "sync_records", res)

\* From one step of a close to the next.
CloseGoes(a) ==
    /\ ld' = ld /\ copies' = copies
    /\ \/ At(a, "close_looks") /\ Turned(a,
            [actor[a] EXCEPT !.pc = "close_edits", !.attempts = copies[actor[a].on].attempts,
                             !.buttons = copies[actor[a].on].buttons_live])
       \/ At(a, "close_edits") /\ ToEnd(a, "close_records", "done")
            /\ shown' = [shown EXCEPT ![actor[a].on] = LiftedText]
       \/ /\ At(a, "close_looks") \/ At(a, "close_edits")
          /\ \E res \in {"retry", "failed", "gone"} : ToEnd(a, "close_records", res)

Acts(a) ==
    \/ GoesElsewhere(a) \/ (\E s \in Slots : TakesRow(a, s))
    \/ PostGoes(a) \/ SyncGoes(a) \/ CloseGoes(a)

LEMMA RestsElsewhere ==
    ASSUME TypeInv, NEW a \in Actors
    PROVE  /\ Rests(a) => GoesElsewhere(a)
           /\ \A pc \in Pcs \ (HoldPcs \cup {"supersede"}) : Goes(a, pc) => GoesElsewhere(a)
<1>0. TypeOK /\ actor[a] \in Actor
  BY Shapes DEF TypeInv
<1>1. Idle.pc \notin HoldPcs \cup {"supersede"}
  BY DEF Idle, HoldPcs, PostPcs, SyncPcs, ClosePcs
<1>2. Rests(a) => GoesElsewhere(a)
  BY <1>0, <1>1, ActorMoves DEF GoesElsewhere
<1>3. ASSUME NEW pc \in Pcs \ (HoldPcs \cup {"supersede"}), Goes(a, pc) PROVE GoesElsewhere(a)
  <2>1. Turned(a, [actor[a] EXCEPT !.pc = pc])
    BY <1>0, <1>3, ActorMoves
  <2>2. [actor[a] EXCEPT !.pc = pc].pc = pc
    BY <1>0 DEF Actor
  <2> QED
    BY <2>1, <2>2 DEF GoesElsewhere
<1> QED
  BY <1>2, <1>3

LEMMA EndsToEnd ==
    ASSUME TypeInv, NEW a \in Actors, NEW pc \in Pcs, NEW res \in Outcomes, Ends(a, pc, res)
    PROVE  ToEnd(a, pc, res)
BY ActorMoves DEF ToEnd, TypeInv

LEMMA PlansAct ==
    ASSUME TypeInv, NEW w \in Workers, Plans(w) PROVE GoesElsewhere(w)
<1>0. w \in Actors /\ actor \in [Actors -> Actor]
  BY Staff, Shapes DEF TypeInv
<1>1. CASE PlanAlerts(w)
  <2>1. PICK r : r = [actor[w] EXCEPT !.pc = "begin", !.dests = linked]
    OBVIOUS
  <2>2. Turned(w, r) /\ r.pc = "begin"
    BY <1>0, <1>1, <2>1 DEF PlanAlerts, Turned, Actor
  <2> QED
    BY <2>2 DEF GoesElsewhere, HoldPcs, PostPcs, SyncPcs, ClosePcs
<1>2. CASE PlanReminders(w)
  <2>1. PICK r : r = [actor[w] EXCEPT !.pc = "insert", !.dests = linked \cap AlertDestKinds,
                                      !.due = ReminderSeq]
    OBVIOUS
  <2>2. Turned(w, r) /\ r.pc = "insert"
    BY <1>0, <1>2, <2>1 DEF PlanReminders, Turned, Actor
  <2> QED
    BY <2>2 DEF GoesElsewhere, HoldPcs, PostPcs, SyncPcs, ClosePcs
<1>3. CASE BeginAlert(w) \/ PlanReminderSlots(w)
  BY <1>0, <1>3, RestsElsewhere DEF BeginAlert, PlanReminderSlots
<1> QED
  BY <1>1, <1>2, <1>3 DEF Plans

LEMMA ClaimsAct ==
    ASSUME TypeInv, NEW a \in Actors,
           \/ PostClaims(a)
           \/ \E s \in Slots : SyncClaims(a, s) \/ CloseClaims(a, s) \/ PressStale(a, s)
    PROVE  \E s \in Slots : TakesRow(a, s)
<1>0. TypeOK /\ {"post_reads", "sync_looks", "close_looks"} \subseteq Pcs
  BY PcsAre DEF TypeInv
<1>1. CASE PostClaims(a)
  <2>1. actor[a].on \in Slots
    BY <1>1, AtWork, PcsAre DEF PostClaims
  <2>2. PICK s \in Slots : s = actor[a].on
    BY <2>1
  <2>3. /\ MayClaimSlot(s) /\ copies' = [copies EXCEPT ![s] = ClaimAlertSlot(s)]
        /\ actor' = [actor EXCEPT ![a].pc = "post_reads", ![a].on = s]
        /\ actor[a].pc = "claim_post" /\ ld' = ld /\ shown' = shown
    BY <1>1, <2>2 DEF PostClaims, Claims, At
  <2>4. Turned(a, [actor[a] EXCEPT !.pc = "post_reads", !.on = s])
    BY <1>0, <2>3, ActorMoves
  <2>5. copies'[s] = ClaimAlertSlot(s)
    BY <2>3 DEF TypeInv, TypeOK
  <2> QED
    BY <2>3, <2>4, <2>5 DEF TakesRow
<1>2. ASSUME NEW s \in Slots, SyncClaims(a, s) PROVE TakesRow(a, s)
  <2>3. /\ MayClaimSync(s) /\ copies' = [copies EXCEPT ![s] = ClaimAlertSync(s)]
        /\ actor' = [actor EXCEPT ![a].pc = "sync_looks", ![a].on = s]
        /\ actor[a].pc = "idle" /\ ld' = ld /\ shown' = shown /\ ld.active
    BY <1>2 DEF SyncClaims, Claims, At
  <2>4. Turned(a, [actor[a] EXCEPT !.pc = "sync_looks", !.on = s])
    BY <1>0, <2>3, ActorMoves
  <2>5. copies'[s] = ClaimAlertSync(s)
    BY <2>3 DEF TypeInv, TypeOK
  <2> QED
    BY <2>3, <2>4, <2>5 DEF TakesRow
<1>3. ASSUME NEW s \in Slots, CloseClaims(a, s) \/ PressStale(a, s) PROVE TakesRow(a, s)
  <2>3. /\ MayClaimClose(s) /\ copies' = [copies EXCEPT ![s] = ClaimAlertClose(s)]
        /\ actor' = [actor EXCEPT ![a].pc = "close_looks", ![a].on = s]
        /\ actor[a].pc = "idle" /\ ld' = ld /\ shown' = shown /\ ~ld.active
    BY <1>3 DEF CloseClaims, PressStale, Claims, At
  <2>4. Turned(a, [actor[a] EXCEPT !.pc = "close_looks", !.on = s])
    BY <1>0, <2>3, ActorMoves
  <2>5. copies'[s] = ClaimAlertClose(s)
    BY <2>3 DEF TypeInv, TypeOK
  <2> QED
    BY <2>3, <2>4, <2>5 DEF TakesRow
<1> QED
  BY <1>1, <1>2, <1>3

LEMMA PostActs ==
    ASSUME TypeInv, NEW w \in Workers, PostsCopy(w) PROVE Acts(w)
<1>0. w \in Actors /\ TypeOK /\ actor[w] \in Actor
  BY Staff, Shapes DEF TypeInv
<1>1. ASSUME NEW s \in Slots, ListPending(w, s) PROVE GoesElsewhere(w)
  <2>1. PICK r : r = [actor[w] EXCEPT !.pc = "claim_post", !.on = s, !.attempts = copies[s].attempts]
    OBVIOUS
  <2>2. Turned(w, r)
    BY <1>0, <1>1, <2>1, ActorMoves, PcsAre DEF ListPending
  <2>3. r.pc = "claim_post"
    BY <1>0, <2>1 DEF Actor
  <2> QED
    BY <2>2, <2>3 DEF GoesElsewhere, HoldPcs, PostPcs, SyncPcs, ClosePcs
<1>2. CASE PostClaims(w)
  BY <1>0, <1>2, ClaimsAct DEF Acts
<1>3. CASE PostClaimLost(w) \/ Supersede(w)
  BY <1>0, <1>3, RestsElsewhere DEF PostClaimLost, Supersede, WriteFails, Acts
<1>4. CASE PostReads(w)
  <2>1. At(w, "post_reads") /\ ld' = ld /\ {"post_records", "post_routes"} \subseteq Pcs
    BY <1>4, PcsAre DEF PostReads
  <2>2. ASSUME actor' = [actor EXCEPT ![w].pc = "post_routes", ![w].revoked = ld.revoked]
        PROVE  PostGoes(w)
    BY <1>0, <2>1, <2>2, ReadsRevoked DEF PostGoes
  <2>3. ASSUME NEW res \in {"retry", "fatal"}, Ends(w, "post_records", res) PROVE PostGoes(w)
    BY <1>0, <2>1, <2>3, EndsToEnd, OutcomesAre DEF PostGoes
  <2> QED
    BY <1>4, <2>2, <2>3 DEF PostReads, Acts
<1>5. CASE PostRoutes(w)
  <2>1. At(w, "post_routes") /\ ld' = ld /\ {"post_records", "send"} \subseteq Pcs
    BY <1>5, PcsAre DEF PostRoutes
  <2>2. Goes(w, "send") \/ \E res \in {"failed", "fatal", "retry"} : Ends(w, "post_records", res)
    BY <1>5 DEF PostRoutes
  <2>3. ASSUME Goes(w, "send") PROVE PostGoes(w)
    BY <1>0, <2>1, <2>3, ActorMoves DEF PostGoes
  <2>4. ASSUME NEW res \in {"failed", "fatal", "retry"}, Ends(w, "post_records", res) PROVE PostGoes(w)
    BY <1>0, <2>1, <2>4, EndsToEnd, OutcomesAre DEF PostGoes
  <2> QED
    BY <2>2, <2>3, <2>4 DEF Acts
<1>6. CASE Send(w)
  <2>1. At(w, "send") /\ ld' = ld /\ "post_records" \in Pcs
    BY <1>6, PcsAre DEF Send
  <2>2. PICK res \in {"done", "failed", "retry"} : Ends(w, "post_records", res)
    BY <1>6 DEF Send
  <2> QED
    BY <1>0, <2>1, <2>2, EndsToEnd, OutcomesAre DEF PostGoes, Acts
<1>7. CASE PostRecords(w)
  <2>1. At(w, "post_records") /\ ld' = ld /\ "supersede" \in Pcs
    BY <1>7, PcsAre DEF PostRecords
  <2>2. Rests(w) \/ (Goes(w, "supersede") /\ actor[w].res = "done" /\ RecordAlertPosted(actor[w].on))
    BY <1>7 DEF PostRecords, WriteFails
  <2>3. ASSUME Goes(w, "supersede"), actor[w].res = "done", RecordAlertPosted(actor[w].on)
        PROVE  PostGoes(w)
    BY <1>0, <2>1, <2>3, ActorMoves DEF PostGoes
  <2> QED
    BY <1>0, <2>2, <2>3, RestsElsewhere DEF Acts
<1> QED
  BY <1>1, <1>2, <1>3, <1>4, <1>5, <1>6, <1>7 DEF PostsCopy, Acts

LEMMA LooksTurn ==
    ASSUME TypeInv, NEW a \in Actors, NEW pc \in Pcs, Looks(a, pc)
    PROVE  Turned(a, [actor[a] EXCEPT !.pc = pc, !.attempts = copies[actor[a].on].attempts,
                                      !.buttons = copies[actor[a].on].buttons_live])
BY ActorMoves DEF TypeInv

LEMMA SyncActs ==
    ASSUME TypeInv, NEW w \in Workers, SyncsCopy(w) PROVE Acts(w)
<1>0. w \in Actors /\ {"sync_reads", "sync_edits", "sync_records"} \subseteq Pcs
  BY Staff, PcsAre
<1>1. ASSUME NEW s \in Slots, SyncClaims(w, s) PROVE Acts(w)
  BY <1>0, <1>1, ClaimsAct DEF Acts
<1>2. CASE SyncLooks(w)
  <2>1. At(w, "sync_looks") /\ ld' = ld /\ copies' = copies
    BY <1>2 DEF SyncLooks
  <2>2. ASSUME Looks(w, "sync_reads") PROVE SyncGoes(w)
    BY <1>0, <2>1, <2>2, LooksTurn DEF SyncGoes
  <2>3. ASSUME Ends(w, "sync_records", "retry") PROVE SyncGoes(w)
    BY <1>0, <2>1, <2>3, EndsToEnd, OutcomesAre DEF SyncGoes
  <2> QED
    BY <1>2, <2>2, <2>3 DEF SyncLooks, Acts
<1>3. CASE SyncReads(w)
  <2>1. At(w, "sync_reads") /\ ld' = ld /\ copies' = copies
    BY <1>3 DEF SyncReads
  <2>2. ASSUME actor' = [actor EXCEPT ![w].pc = "sync_edits", ![w].revoked = ld.revoked]
        PROVE  SyncGoes(w)
    BY <1>0, <2>1, <2>2, ReadsRevoked DEF SyncGoes
  <2>3. ASSUME Ends(w, "sync_records", "retry") PROVE SyncGoes(w)
    BY <1>0, <2>1, <2>3, EndsToEnd, OutcomesAre DEF SyncGoes
  <2> QED
    BY <1>3, <2>2, <2>3 DEF SyncReads, Acts
<1>4. CASE SyncEdits(w)
  <2>1. At(w, "sync_edits") /\ ld' = ld /\ copies' = copies
    BY <1>4 DEF SyncEdits, Edits
  <2>2. ASSUME Ends(w, "sync_records", "done"),
               shown' = [shown EXCEPT ![actor[w].on] = ActiveText(actor[w].buttons, actor[w].revoked)]
        PROVE  SyncGoes(w)
    BY <1>0, <2>1, <2>2, EndsToEnd, OutcomesAre DEF SyncGoes
  <2>3. ASSUME NEW res \in {"retry", "failed", "gone"}, Ends(w, "sync_records", res) PROVE SyncGoes(w)
    BY <1>0, <2>1, <2>3, EndsToEnd, OutcomesAre DEF SyncGoes
  <2> QED
    BY <1>4, <2>2, <2>3 DEF SyncEdits, Edits, Acts
<1>5. CASE SyncRecords(w)
  BY <1>0, <1>5, RestsElsewhere DEF SyncRecords, Acts
<1> QED
  BY <1>1, <1>2, <1>3, <1>4, <1>5 DEF SyncsCopy

LEMMA CloseActs ==
    ASSUME TypeInv, NEW a \in Actors, ClosesCopy(a) PROVE Acts(a)
<1>0. {"close_edits", "close_records"} \subseteq Pcs
  BY PcsAre
<1>1. CASE CloseLooks(a)
  <2>1. At(a, "close_looks") /\ ld' = ld /\ copies' = copies
    BY <1>1 DEF CloseLooks
  <2>2. ASSUME Looks(a, "close_edits") PROVE CloseGoes(a)
    BY <1>0, <2>1, <2>2, LooksTurn DEF CloseGoes
  <2>3. ASSUME Ends(a, "close_records", "retry") PROVE CloseGoes(a)
    BY <1>0, <2>1, <2>3, EndsToEnd, OutcomesAre DEF CloseGoes
  <2> QED
    BY <1>1, <2>2, <2>3 DEF CloseLooks, Acts
<1>2. CASE CloseEdits(a)
  <2>1. At(a, "close_edits") /\ ld' = ld /\ copies' = copies
    BY <1>2 DEF CloseEdits, Edits
  <2>2. ASSUME Ends(a, "close_records", "done"), shown' = [shown EXCEPT ![actor[a].on] = LiftedText]
        PROVE  CloseGoes(a)
    BY <1>0, <2>1, <2>2, EndsToEnd, OutcomesAre DEF CloseGoes
  <2>3. ASSUME NEW res \in {"retry", "failed", "gone"}, Ends(a, "close_records", res) PROVE CloseGoes(a)
    BY <1>0, <2>1, <2>3, EndsToEnd, OutcomesAre DEF CloseGoes
  <2> QED
    BY <1>2, <2>2, <2>3 DEF CloseEdits, Edits, Acts
<1>3. CASE CloseRecords(a)
  BY <1>3, RestsElsewhere DEF CloseRecords, Acts
<1> QED
  BY <1>1, <1>2, <1>3 DEF ClosesCopy

LEMMA StepActs ==
    ASSUME TypeInv, [Next]_vars
    PROVE  UNCHANGED actor \/ \E a \in Actors : Acts(a)
<1>1. ASSUME NEW w \in Workers, WorkerStep(w) PROVE UNCHANGED actor \/ \E a \in Actors : Acts(a)
  <2>1. w \in Actors
    BY Staff
  <2>2. CASE ReleaseStaleAlertClaims(w)
    BY <2>2 DEF ReleaseStaleAlertClaims
  <2>3. CASE Plans(w)
    BY <2>1, <2>3, PlansAct DEF Acts
  <2>4. CASE \E s \in Slots : CloseClaims(w, s)
    BY <2>1, <2>4, ClaimsAct DEF Acts
  <2> QED
    BY <1>1, <2>1, <2>2, <2>3, <2>4, PostActs, SyncActs, CloseActs DEF WorkerStep
<1>2. ASSUME NEW a \in Admins, AdminStep(a) \/ Presses(a) PROVE Acts(a)
  <2>1. a \in Actors
    BY Staff
  <2>2. CASE ClosesCopy(a)
    BY <2>1, <2>2, CloseActs
  <2>3. CASE \E s \in Slots : PressStale(a, s)
    BY <2>1, <2>3, ClaimsAct DEF Acts
  <2>4. CASE Revoke(a) \/ RecordLinkRevoked(a) \/ RevokeConfirm(a)
    <3>1. {"revoke", "record_revoke"} \subseteq Pcs \ (HoldPcs \cup {"supersede"})
      BY DEF Pcs, HoldPcs, PostPcs, SyncPcs, ClosePcs
    <3> QED
      BY <2>1, <2>4, <3>1, RestsElsewhere DEF Revoke, RecordLinkRevoked, RevokeConfirm, Acts
  <2> QED
    BY <1>2, <2>2, <2>3, <2>4 DEF AdminStep, Presses
<1>3. ASSUME NEW a \in Actors, Stops(a) PROVE Acts(a)
  BY <1>3, RestsElsewhere DEF Stops, Acts
<1>4. ASSUME \/ \E d \in Dests : ChangesLink(d)
             \/ \E s \in Slots : DeletesMessage(s) \/ ClaimExpires(s)
             \/ HourPasses \/ LiftBegins \/ UNCHANGED vars
      PROVE  UNCHANGED actor
  BY <1>4 DEF ChangesLink, DeletesMessage, ClaimExpires, HourPasses, LiftBegins, vars
<1> QED
  BY <1>1, <1>2, <1>3, <1>4, Staff DEF Next

-----------------------------------------------------------------------------
\* Whoever has a row in hand has its claim, and has it alone.
Works(a, s) == actor[a].pc \in HoldPcs /\ actor[a].on = s

HandsInv ==
    /\ \A a \in Actors, s \in Slots : Works(a, s) =>
            /\ copies[s].claim = "held"
            /\ IF actor[a].pc \in PostPcs THEN Posting(s) ELSE Open(s)
    /\ \A a, b \in Actors, s \in Slots : Works(a, s) /\ Works(b, s) => a = b

\* Of a record, what a step of its actor keeps.
LEMMA Fields ==
    ASSUME NEW r \in Actor
    PROVE  /\ \A pc : /\ [r EXCEPT !.pc = pc].pc = pc /\ [r EXCEPT !.pc = pc].on = r.on
                      /\ [r EXCEPT !.pc = pc].revoked = r.revoked
           /\ \A pc, s : [r EXCEPT !.pc = pc, !.on = s].pc = pc /\ [r EXCEPT !.pc = pc, !.on = s].on = s
           /\ \A pc, res : /\ [r EXCEPT !.pc = pc, !.res = res].pc = pc
                           /\ [r EXCEPT !.pc = pc, !.res = res].on = r.on
                           /\ [r EXCEPT !.pc = pc, !.res = res].res = res
                           /\ [r EXCEPT !.pc = pc, !.res = res].buttons = r.buttons
                           /\ [r EXCEPT !.pc = pc, !.res = res].revoked = r.revoked
           /\ \A pc, x : /\ [r EXCEPT !.pc = pc, !.revoked = x].pc = pc
                         /\ [r EXCEPT !.pc = pc, !.revoked = x].on = r.on
                         /\ [r EXCEPT !.pc = pc, !.revoked = x].buttons = r.buttons
                         /\ [r EXCEPT !.pc = pc, !.revoked = x].revoked = x
BY DEF Actor

LEMMA Turns ==
    ASSUME TypeInv, NEW a \in Actors
    PROVE  /\ \A pc : Turned(a, [actor[a] EXCEPT !.pc = pc]) =>
                actor'[a].pc = pc /\ actor'[a].on = actor[a].on /\ actor'[a].revoked = actor[a].revoked
           /\ \A pc, s : Turned(a, [actor[a] EXCEPT !.pc = pc, !.on = s]) =>
                actor'[a].pc = pc /\ actor'[a].on = s
           /\ \A pc, res : ToEnd(a, pc, res) =>
                /\ actor'[a].pc = pc /\ actor'[a].on = actor[a].on /\ actor'[a].res = res
                /\ actor'[a].buttons = actor[a].buttons /\ actor'[a].revoked = actor[a].revoked
           /\ \A pc, x : Turned(a, [actor[a] EXCEPT !.pc = pc, !.revoked = x]) =>
                /\ actor'[a].pc = pc /\ actor'[a].on = actor[a].on /\ actor'[a].revoked = x
                /\ actor'[a].buttons = actor[a].buttons
<1>1. actor[a] \in Actor /\ TypeOK
  BY Shapes DEF TypeInv
<1>2. \A r : Turned(a, r) => actor'[a] = r
  BY <1>1, TurnedOnly
<1>3. ASSUME NEW pc, Turned(a, [actor[a] EXCEPT !.pc = pc])
      PROVE  actor'[a].pc = pc /\ actor'[a].on = actor[a].on /\ actor'[a].revoked = actor[a].revoked
  <2>1. actor'[a] = [actor[a] EXCEPT !.pc = pc]
    BY <1>2, <1>3
  <2> QED
    BY <1>1, <2>1, Fields
<1>4. ASSUME NEW pc, NEW s, Turned(a, [actor[a] EXCEPT !.pc = pc, !.on = s])
      PROVE  actor'[a].pc = pc /\ actor'[a].on = s
  <2>1. actor'[a] = [actor[a] EXCEPT !.pc = pc, !.on = s]
    BY <1>2, <1>4
  <2> QED
    BY <1>1, <2>1, Fields
<1>5. ASSUME NEW pc, NEW res, ToEnd(a, pc, res)
      PROVE  /\ actor'[a].pc = pc /\ actor'[a].on = actor[a].on /\ actor'[a].res = res
             /\ actor'[a].buttons = actor[a].buttons /\ actor'[a].revoked = actor[a].revoked
  <2>1. actor'[a] = [actor[a] EXCEPT !.pc = pc, !.res = res]
    BY <1>2, <1>5 DEF ToEnd
  <2> QED
    BY <1>1, <2>1, Fields
<1>6. ASSUME NEW pc, NEW x, Turned(a, [actor[a] EXCEPT !.pc = pc, !.revoked = x])
      PROVE  /\ actor'[a].pc = pc /\ actor'[a].on = actor[a].on /\ actor'[a].revoked = x
             /\ actor'[a].buttons = actor[a].buttons
  <2>1. actor'[a] = [actor[a] EXCEPT !.pc = pc, !.revoked = x]
    BY <1>2, <1>6
  <2> QED
    BY <1>1, <2>1, Fields
<1> QED
  BY <1>3, <1>4, <1>5, <1>6

LEMMA LookTurns ==
    ASSUME TypeInv, NEW a \in Actors, NEW pc,
           Turned(a, [actor[a] EXCEPT !.pc = pc, !.attempts = copies[actor[a].on].attempts,
                                      !.buttons = copies[actor[a].on].buttons_live])
    PROVE  /\ actor'[a].pc = pc /\ actor'[a].on = actor[a].on
           /\ actor'[a].buttons = copies[actor[a].on].buttons_live
<1>1. actor[a] \in Actor /\ TypeOK
  BY Shapes DEF TypeInv
<1>2. actor'[a] = [actor[a] EXCEPT !.pc = pc, !.attempts = copies[actor[a].on].attempts,
                                   !.buttons = copies[actor[a].on].buttons_live]
  BY <1>1, TurnedOnly
<1> QED
  BY <1>1, <1>2 DEF Actor

LEMMA ReadTurns ==
    ASSUME TypeInv, NEW a \in Actors, NEW pc,
           Turned(a, [actor[a] EXCEPT !.pc = pc, !.revoked = ld.revoked])
    PROVE  /\ actor'[a].pc = pc /\ actor'[a].on = actor[a].on
           /\ actor'[a].revoked = ld.revoked /\ actor'[a].buttons = actor[a].buttons
<1>1. actor[a] \in Actor /\ TypeOK /\ ld.revoked \in BOOLEAN
  BY Shapes DEF TypeInv, TypeOK
<1>2. actor'[a] = [actor[a] EXCEPT !.pc = pc, !.revoked = ld.revoked]
  BY <1>1, TurnedOnly
<1> QED
  BY <1>1, <1>2 DEF Actor

LEMMA GoesOn ==
    ASSUME TypeInv, NEW a \in Actors
    PROVE  /\ PostGoes(a) => actor'[a].on = actor[a].on /\ actor'[a].pc \in PostPcs \cup {"supersede"}
           /\ SyncGoes(a) => actor'[a].on = actor[a].on /\ actor'[a].pc \in SyncPcs
           /\ CloseGoes(a) => actor'[a].on = actor[a].on /\ actor'[a].pc \in ClosePcs
<1>1. ASSUME NEW pc, NEW res, ToEnd(a, pc, res)
      PROVE  actor'[a].on = actor[a].on /\ actor'[a].pc = pc
  BY <1>1, Turns
<1>2. ASSUME NEW pc, Turned(a, [actor[a] EXCEPT !.pc = pc, !.revoked = ld.revoked])
      PROVE  actor'[a].on = actor[a].on /\ actor'[a].pc = pc
  BY <1>2, Turns
<1>3. ASSUME NEW pc, Turned(a, [actor[a] EXCEPT !.pc = pc,
                                  !.attempts = copies[actor[a].on].attempts,
                                  !.buttons = copies[actor[a].on].buttons_live])
      PROVE  actor'[a].on = actor[a].on /\ actor'[a].pc = pc
  BY <1>3, LookTurns
<1>4. ASSUME NEW pc, Turned(a, [actor[a] EXCEPT !.pc = pc])
      PROVE  actor'[a].on = actor[a].on /\ actor'[a].pc = pc
  BY <1>4, Turns
<1>5. PostGoes(a) => actor'[a].on = actor[a].on /\ actor'[a].pc \in PostPcs \cup {"supersede"}
  BY <1>1, <1>2, <1>4 DEF PostGoes, PostPcs
<1>6. SyncGoes(a) => actor'[a].on = actor[a].on /\ actor'[a].pc \in SyncPcs
  BY <1>1, <1>2, <1>3 DEF SyncGoes, SyncPcs
<1>7. CloseGoes(a) => actor'[a].on = actor[a].on /\ actor'[a].pc \in ClosePcs
  BY <1>1, <1>3 DEF CloseGoes, ClosePcs
<1> QED
  BY <1>5, <1>6, <1>7

\* Who has a row in hand after a step had it before, or just claimed it.
LEMMA HandMoves ==
    ASSUME TypeInv, [Next]_vars, NEW a \in Actors, NEW s \in Slots, Works(a, s)'
    PROVE  \/ /\ Works(a, s)
              /\ actor'[a].pc \in PostPcs <=> actor[a].pc \in PostPcs
              /\ actor'[a].pc \in SyncPcs <=> actor[a].pc \in SyncPcs
           \/ TakesRow(a, s) /\ \A b \in Actors \ {a} : actor'[b] = actor[b]
<1>0. actor \in [Actors -> Actor] /\ TypeOK
  BY Shapes DEF TypeInv
<1>1. CASE actor'[a] = actor[a]
  BY <1>1 DEF Works
<1>2. CASE actor'[a] # actor[a]
  <2>1. Acts(a) /\ \A b \in Actors \ {a} : actor'[b] = actor[b]
    <3>1. PICK b \in Actors : Acts(b)
      BY <1>2, StepActs
    <3>2. \E r : Turned(b, r)
      BY <3>1 DEF Acts, GoesElsewhere, TakesRow, PostGoes, SyncGoes, CloseGoes, ToEnd
    <3> QED
      BY <1>0, <1>2, <3>1, <3>2, TurnedOnly
  <2>2. ~GoesElsewhere(a)
    BY <1>0, TurnedOnly DEF GoesElsewhere, Works
  <2>3. ASSUME NEW t \in Slots, TakesRow(a, t) PROVE TakesRow(a, s)
    <3>1. actor'[a].on = t
      <4>1. ASSUME NEW pc, Turned(a, [actor[a] EXCEPT !.pc = pc, !.on = t])
            PROVE  actor'[a].on = t
        BY <4>1, Turns
      <4> QED
        BY <2>3, <4>1 DEF TakesRow
    <3> QED
      BY <2>3, <3>1 DEF Works
  <2>4. CASE PostGoes(a)
    <3>1. actor[a].pc \in PostPcs
      BY <2>4 DEF PostGoes, At, PostPcs
    <3>2. actor'[a].on = actor[a].on /\ actor'[a].pc \in PostPcs \cup {"supersede"}
      BY <2>4, GoesOn
    <3>4. actor'[a].pc \in PostPcs /\ actor'[a].pc \notin SyncPcs
      BY <3>2 DEF Works, HoldPcs, PostPcs, SyncPcs, ClosePcs
    <3> QED
      BY <3>1, <3>2, <3>4 DEF Works, HoldPcs, PostPcs, SyncPcs
  <2>5. CASE SyncGoes(a)
    <3>1. actor[a].pc \in SyncPcs
      BY <2>5 DEF SyncGoes, At, SyncPcs
    <3>2. actor'[a].on = actor[a].on /\ actor'[a].pc \in SyncPcs
      BY <2>5, GoesOn
    <3> QED
      BY <3>1, <3>2 DEF Works, HoldPcs, PostPcs, SyncPcs
  <2>6. CASE CloseGoes(a)
    <3>1. actor[a].pc \in ClosePcs
      BY <2>6 DEF CloseGoes, At, ClosePcs
    <3>2. actor'[a].on = actor[a].on /\ actor'[a].pc \in ClosePcs
      BY <2>6, GoesOn
    <3> QED
      BY <3>1, <3>2 DEF Works, HoldPcs, PostPcs, SyncPcs, ClosePcs
  <2> QED
    BY <2>1, <2>2, <2>3, <2>4, <2>5, <2>6 DEF Acts
<1> QED
  BY <1>1, <1>2

\* A row in hand is not given back, claimed or left to grow old by anybody else.
LEMMA HeldRowStays ==
    ASSUME TypeInv, HandsInv, [Next]_vars, NEW a \in Actors, NEW s \in Slots,
           Works(a, s), Works(a, s)'
    PROVE  /\ copies'[s] = copies[s] \/ MarkedBy(s)
           /\ copies'[s].claim = copies[s].claim /\ copies'[s].state = copies[s].state
           /\ copies'[s].closed = copies[s].closed
<1>0. copies[s] \in CopyRow /\ RowMoves(s)
  BY StepMoves DEF TypeInv, TypeOK, RowsMove
<1>1. copies[s].claim = "held" /\ copies[s].state \in {"posting", "posted"}
  BY DEF HandsInv, Posting, Open
<1>2. Holds(a, s)
  BY DEF Works, Holds, HoldPcs, PostPcs, SyncPcs, ClosePcs
<1>3. ~Claimed(s) /\ ~Aged(s) /\ copies[s] # NoCopy
  BY <1>1, <1>2 DEF Claimed, Aged, MayClaimSlot, MayClaimSync, MayClaimClose, NoCopy
<1>4. ~Ended(s)
  <2>1. ASSUME Ended(s) PROVE FALSE
    <3>1. PICK b \in Actors : /\ actor[b].on = s /\ actor'[b].pc \in {"idle", "supersede"}
                              /\ actor[b].pc \in {"post_records", "sync_records", "close_records"}
      BY <2>1 DEF Ended
    <3>2. Works(b, s) /\ ~Works(b, s)'
      BY <3>1 DEF Works, HoldPcs, PostPcs, SyncPcs, ClosePcs
    <3> QED
      BY <3>2 DEF HandsInv
  <2> QED
    BY <2>1
<1>5. copies'[s] = copies[s] \/ MarkedBy(s)
  BY <1>0, <1>3, <1>4 DEF RowMoves
<1>6. MarkedBy(s) => /\ copies'[s].claim = copies[s].claim /\ copies'[s].state = copies[s].state
                     /\ copies'[s].closed = copies[s].closed
  BY <1>0 DEF MarkedBy, CopyRow
<1> QED
  BY <1>5, <1>6

LEMMA TakenRow ==
    ASSUME TypeInv, NEW a \in Actors, NEW s \in Slots, TakesRow(a, s)
    PROVE  /\ copies'[s].claim = "held"
           /\ actor'[a].on = s
           /\ \/ actor'[a].pc = "post_reads" /\ copies'[s].state = "posting"
                    /\ copies[s].state = "pending"
              \/ /\ actor'[a].pc \in {"sync_looks", "close_looks"} /\ Open(s) /\ copies[s].claim = "none"
                 /\ copies'[s].state = "posted" /\ copies'[s].closed = "no"
<1>0. actor \in [Actors -> Actor] /\ TypeOK /\ copies[s] \in CopyRow
  BY Shapes DEF TypeInv, TypeOK
<1>1. \A pc : Turned(a, [actor[a] EXCEPT !.pc = pc, !.on = s]) =>
                actor'[a].pc = pc /\ actor'[a].on = s
  BY Turns
<1>2. CASE Turned(a, [actor[a] EXCEPT !.pc = "post_reads", !.on = s])
                /\ MayClaimSlot(s) /\ copies'[s] = ClaimAlertSlot(s)
  BY <1>0, <1>1, <1>2 DEF MayClaimSlot, ClaimAlertSlot, CopyRow
<1>3. CASE Turned(a, [actor[a] EXCEPT !.pc = "sync_looks", !.on = s])
                /\ MayClaimSync(s) /\ copies'[s] = ClaimAlertSync(s)
  <2>1. /\ copies'[s].claim = "held" /\ copies'[s].state = copies[s].state
        /\ copies'[s].closed = copies[s].closed
    BY <1>0, <1>3 DEF ClaimAlertSync, CopyRow
  <2> QED
    BY <1>1, <1>3, <2>1 DEF MayClaimSync, Open
<1>4. CASE Turned(a, [actor[a] EXCEPT !.pc = "close_looks", !.on = s])
                /\ MayClaimClose(s) /\ copies'[s] = ClaimAlertClose(s)
  <2>1. /\ copies'[s].claim = "held" /\ copies'[s].state = copies[s].state
        /\ copies'[s].closed = copies[s].closed
    BY <1>0, <1>4 DEF ClaimAlertClose, CopyRow
  <2> QED
    BY <1>1, <1>4, <2>1 DEF MayClaimClose, Open
<1> QED
  BY <1>2, <1>3, <1>4 DEF TakesRow

LEMMA HandsStep == TypeInv /\ HandsInv /\ [Next]_vars => HandsInv'
<1> SUFFICES ASSUME TypeInv, HandsInv, [Next]_vars PROVE HandsInv'
  OBVIOUS
<1>1. ASSUME NEW a \in Actors, NEW s \in Slots, Works(a, s)'
      PROVE  /\ copies'[s].claim = "held"
             /\ IF actor'[a].pc \in PostPcs THEN Posting(s)' ELSE Open(s)'
  <2>1. CASE Works(a, s) /\ (actor'[a].pc \in PostPcs <=> actor[a].pc \in PostPcs)
    BY <1>1, <2>1, HeldRowStays DEF HandsInv, Posting, Open
  <2>2. CASE TakesRow(a, s)
    BY <2>2, TakenRow DEF PostPcs, Posting, Open
  <2> QED
    BY <1>1, <2>1, <2>2, HandMoves
<1>2. ASSUME NEW a \in Actors, NEW b \in Actors, NEW s \in Slots, Works(a, s)', Works(b, s)', a # b
      PROVE  FALSE
  <2>1. ASSUME NEW x \in Actors, NEW y \in Actors, x # y, TakesRow(x, s), Works(y, s)',
               \A z \in Actors \ {x} : actor'[z] = actor[z]
        PROVE  FALSE
    <3>1. Works(y, s)
      BY <2>1 DEF Works
    <3> QED
      BY <2>1, <3>1, TakenRow DEF HandsInv, Posting, Open
  <2> QED
    BY <1>2, <2>1, HandMoves DEF HandsInv
<1> QED
  BY <1>1, <1>2 DEF HandsInv

LEMMA HandsInit == Init => HandsInv
BY DEF Init, HandsInv, Works, Idle, HoldPcs, PostPcs, SyncPcs, ClosePcs

-----------------------------------------------------------------------------
\* A message too many was paid for by a fault.

\* The one message of s that costs none: it is recorded, or its worker is about to.
Sent(s) ==
    \/ copies[s].state = "posted"
    \/ \E w \in Workers : actor[w].pc = "post_records" /\ actor[w].res = "done" /\ actor[w].on = s

SentInv == \A s \in Slots : posts[s] <= faults + (IF Sent(s) THEN 1 ELSE 0)

\* What was posted stays posted.
LEMMA PostedStays ==
    ASSUME TypeInv, [Next]_vars, NEW s \in Slots, copies[s].state = "posted"
    PROVE  /\ copies'[s].state = "posted"
           /\ copies[s].closed # "no" => copies'[s].closed # "no"
<1>0. copies[s] \in CopyRow /\ RowMoves(s)
  BY StepMoves DEF TypeInv, TypeOK, RowsMove
<1>1. copies[s] # NoCopy
  BY DEF NoCopy
<1>2. ASSUME Claimed(s)
      PROVE  copies'[s].state = "posted" /\ copies'[s].closed = copies[s].closed
  BY <1>0, <1>2 DEF Claimed, MayClaimSlot, ClaimAlertSync, ClaimAlertClose, CopyRow
<1>3. ASSUME Ended(s)
      PROVE  copies'[s].state = "posted" /\ (copies[s].closed # "no" => copies'[s].closed # "no")
  <2>1. Closes(s, {"edited"}) \/ Closes(s, {"gone", "failed"}) \/ Closes(s, {"gone"})
            => copies'[s].state = "posted" /\ copies'[s].closed # "no"
    BY <1>0 DEF Closes, CopyRow
  <2>2. GivesBack(s) => copies'[s].state = "posted" /\ copies'[s].closed = copies[s].closed
    BY <1>0 DEF GivesBack, CopyRow
  <2>3. \A buttons : Refreshed(s, buttons) =>
            copies'[s].state = "posted" /\ copies'[s].closed = copies[s].closed
    BY <1>0 DEF Refreshed, CopyRow
  <2> QED
    BY <1>3, <2>1, <2>2, <2>3 DEF Ended, PostWrites, Posting, SyncWrites, CloseWrites
<1>4. ASSUME MarkedBy(s) \/ Aged(s)
      PROVE  copies'[s].state = "posted" /\ copies'[s].closed = copies[s].closed
  <2>1. MarkedBy(s) => copies'[s].state = "posted" /\ copies'[s].closed = copies[s].closed
    BY <1>0 DEF MarkedBy, CopyRow
  <2>2. Aged(s) => copies'[s].state = "posted" /\ copies'[s].closed = copies[s].closed
    BY <1>0 DEF Aged, Released, CopyRow
  <2> QED
    BY <1>4, <2>1, <2>2
<1> QED
  BY <1>0, <1>1, <1>2, <1>3, <1>4 DEF RowMoves

\* Only the write of its outcome, or a fault, takes a worker from where a post ends.
LEMMA PostEndsBy ==
    ASSUME TypeInv, [Next]_vars, NEW w \in Workers, actor[w].pc = "post_records", actor' # actor
    PROVE  \/ actor'[w] = actor[w]
           \/ PostRecords(w)
           \/ faults' = faults + 1
<1>0. w \in Actors /\ TypeOK
  BY Staff DEF TypeInv
<1>1. SUFFICES ASSUME actor'[w] # actor[w] PROVE PostRecords(w) \/ faults' = faults + 1
  OBVIOUS
<1>2. ASSUME NEW a \in Actors, a # w, Acts(a) PROVE FALSE
  <2>1. \E r : Turned(a, r)
    BY <1>2 DEF Acts, GoesElsewhere, TakesRow, PostGoes, SyncGoes, CloseGoes, ToEnd
  <2> QED
    BY <1>0, <1>1, <1>2, <2>1, TurnedOnly
<1>3. ASSUME NEW a \in Actors, ClosesCopy(a) PROVE FALSE
  <2>1. a = w
    BY <1>2, <1>3, CloseActs DEF Acts
  <2> QED
    BY <1>3, <2>1 DEF ClosesCopy, CloseLooks, CloseEdits, CloseRecords, At
<1>4. ASSUME NEW a \in Actors, NEW s \in Slots, SyncClaims(a, s) \/ CloseClaims(a, s) \/ PressStale(a, s)
      PROVE  FALSE
  <2>1. a = w
    BY <1>2, <1>4, ClaimsAct DEF Acts
  <2> QED
    BY <1>4, <2>1 DEF SyncClaims, CloseClaims, PressStale, At
<1>5. ASSUME NEW v \in Workers, WorkerStep(v) PROVE PostRecords(w)
  <2>0. v \in Actors
    BY Staff
  <2>1. CASE ReleaseStaleAlertClaims(v)
    BY <1>1, <2>1 DEF ReleaseStaleAlertClaims
  <2>2. CASE Plans(v)
    <3>1. v = w
      BY <1>2, <2>0, <2>2, PlansAct DEF Acts
    <3> QED
      BY <2>2, <3>1 DEF Plans, PlanAlerts, BeginAlert, PlanReminders, PlanReminderSlots, At
  <2>3. CASE PostsCopy(v)
    <3>1. v = w
      BY <1>2, <2>0, <2>3, PostActs
    <3> QED
      BY <2>3, <3>1 DEF PostsCopy, ListPending, PostClaims, PostClaimLost, PostReads, PostRoutes,
                        Send, Supersede, At
  <2>4. CASE SyncsCopy(v)
    <3>1. v = w
      BY <1>2, <2>0, <2>4, SyncActs
    <3> QED
      BY <2>4, <3>1 DEF SyncsCopy, SyncClaims, SyncLooks, SyncReads, SyncEdits, SyncRecords, At
  <2> QED
    BY <1>3, <1>4, <1>5, <2>0, <2>1, <2>2, <2>3, <2>4 DEF WorkerStep
<1>6. ASSUME NEW a \in Admins, AdminStep(a) \/ Presses(a) PROVE FALSE
  <2>1. a \in Actors
    BY Staff
  <2>2. Revoke(a) \/ RecordLinkRevoked(a) \/ RevokeConfirm(a)
    BY <1>3, <1>4, <1>6, <2>1 DEF AdminStep, Presses
  <2>3. Acts(a)
    <3>1. {"revoke", "record_revoke"} \subseteq Pcs \ (HoldPcs \cup {"supersede"})
      BY DEF Pcs, HoldPcs, PostPcs, SyncPcs, ClosePcs
    <3> QED
      BY <2>1, <2>2, <3>1, RestsElsewhere DEF Revoke, RecordLinkRevoked, RevokeConfirm, Acts
  <2>4. a = w
    BY <1>2, <2>1, <2>3
  <2> QED
    BY <2>2, <2>4 DEF Revoke, RecordLinkRevoked, RevokeConfirm, At
<1>7. ASSUME NEW a \in Actors, Stops(a) PROVE faults' = faults + 1
  BY <1>7 DEF Stops, Fault
<1> QED
  BY <1>1, <1>5, <1>6, <1>7
     DEF Next, vars, ChangesLink, DeletesMessage, ClaimExpires, HourPasses, LiftBegins

LEMMA SentKept ==
    ASSUME TypeInv, HandsInv, [Next]_vars, NEW s \in Slots, Sent(s)
    PROVE  Sent(s)' \/ faults' = faults + 1
<1>1. CASE copies[s].state = "posted"
  BY <1>1, PostedStays DEF Sent
<1>2. ASSUME NEW w \in Workers, actor[w].pc = "post_records", actor[w].res = "done", actor[w].on = s,
             faults' # faults + 1
      PROVE  Sent(s)'
  <2>1. Posting(s) /\ w \in Actors
    BY <1>2, Staff DEF HandsInv, Works, HoldPcs, PostPcs
  <2>2. CASE actor'[w] = actor[w]
    BY <1>2, <2>2 DEF Sent
  <2>3. CASE PostRecords(w)
    <3>1. RecordAlertPosted(s)
      BY <1>2, <2>3 DEF PostRecords, WriteFails, Fault
    <3>2. copies' = [copies EXCEPT ![s] =
                [copies[s] EXCEPT !.state = "posted", !.claim = "none", !.attempts = 0]]
      BY <2>1, <3>1 DEF RecordAlertPosted, Update
    <3>3. copies'[s].state = "posted"
      BY <3>2 DEF TypeInv, TypeOK, CopyRow
    <3> QED
      BY <3>3 DEF Sent
  <2> QED
    BY <1>2, <2>2, <2>3, PostEndsBy
<1> QED
  BY <1>1, <1>2 DEF Sent

LEMMA SentStep == TypeInv /\ HandsInv /\ SentInv /\ [Next]_vars => SentInv'
<1> SUFFICES ASSUME TypeInv, HandsInv, SentInv, [Next]_vars, NEW s \in Slots
             PROVE  posts'[s] <= faults' + (IF Sent(s)' THEN 1 ELSE 0)
  BY DEF SentInv
<1>0. /\ posts[s] \in Nat /\ faults \in Nat /\ faults' \in Nat /\ faults <= faults'
      /\ posts[s] <= faults + (IF Sent(s) THEN 1 ELSE 0)
  <2>1. faults' \in 0..MaxFaults /\ faults <= faults'
    BY StepLockdown
  <2>2. posts[s] \in Nat /\ faults \in 0..MaxFaults
    BY DEF TypeInv, TypeOK
  <2> QED
    BY <2>1, <2>2, BoundsAssumption DEF SentInv
<1>1. CASE posts'[s] = posts[s]
  <2>1. Sent(s) => Sent(s)' \/ faults' = faults + 1
    BY SentKept
  <2> QED
    BY <1>0, <1>1, <2>1
<1>2. ASSUME NEW w \in Workers, actor[w].pc = "send", actor[w].on = s, posts'[s] = posts[s] + 1,
             \/ faults' = faults + 1
             \/ actor'[w] = [actor[w] EXCEPT !.pc = "post_records", !.res = "done"]
      PROVE  posts'[s] <= faults' + (IF Sent(s)' THEN 1 ELSE 0)
  <2>0. w \in Actors /\ actor[w] \in Actor
    BY Staff, Shapes DEF TypeInv
  <2>1. Works(w, s) /\ Posting(s)
    BY <1>2, <2>0 DEF HandsInv, Works, HoldPcs, PostPcs
  <2>2. ASSUME NEW v \in Workers, actor[v].pc = "post_records", actor[v].on = s PROVE FALSE
    <3>1. Works(v, s) /\ v \in Actors
      BY <2>2, Staff DEF Works, HoldPcs, PostPcs
    <3>2. v = w
      BY <2>0, <2>1, <3>1 DEF HandsInv
    <3> QED
      BY <1>2, <2>2, <3>2
  <2>3. ~Sent(s)
    BY <2>1, <2>2 DEF Sent, Posting
  <2>4. CASE faults' = faults + 1
    BY <1>0, <1>2, <2>3, <2>4
  <2>5. CASE actor'[w] = [actor[w] EXCEPT !.pc = "post_records", !.res = "done"]
    <3>1. actor'[w].pc = "post_records" /\ actor'[w].res = "done" /\ actor'[w].on = s
      BY <1>2, <2>0, <2>5, Fields
    <3>2. Sent(s)'
      BY <3>1 DEF Sent
    <3> QED
      BY <1>0, <1>2, <2>3, <3>2
  <2> QED
    BY <1>2, <2>4, <2>5
<1> QED
  BY <1>1, <1>2, StepPosts DEF PostsMove, Sends

LEMMA SentInit == Init => SentInv
BY DEF Init, SentInv, Sent, NoCopy, Idle

LEMMA HandsHold == Spec => [](TypeInv /\ HandsInv)
<1>1. Init => TypeInv /\ HandsInv
  BY TypeInit, HandsInit
<1>2. TypeInv /\ HandsInv /\ [Next]_vars => (TypeInv /\ HandsInv)'
  BY TypeStep, HandsStep
<1> QED
  BY <1>1, <1>2, PTL DEF Spec

\* In every instance a copy is there twice only for something that went wrong: beside
\* one message of each slot, every further one was paid for by a lost answer, a write
\* that failed or a worker that stopped, however many replicas post
\* (ClaimAlertSlot, ReleaseStaleAlertClaims).
THEOREM CopiesArePaidFor == Spec => []DuplicateOnlyByFault
<1>1. Init => TypeInv /\ HandsInv /\ SentInv
  BY TypeInit, HandsInit, SentInit
<1>2. TypeInv /\ HandsInv /\ SentInv /\ [Next]_vars => (TypeInv /\ HandsInv /\ SentInv)'
  BY TypeStep, HandsStep, SentStep
<1>3. TypeInv /\ HandsInv /\ SentInv => DuplicateOnlyByFault
  BY BoundsAssumption DEF TypeInv, TypeOK, SentInv, DuplicateOnlyByFault
<1> QED
  BY <1>1, <1>2, <1>3, PTL DEF Spec

-----------------------------------------------------------------------------
\* A closed copy reads as closed, and the newest reminder has its buttons.

\* A row that was not posted has its buttons, no mark, and is not closed.
FreshInv ==
    \A s \in Slots : copies[s].state # "posted" =>
        copies[s].closed = "no" /\ copies[s].buttons_live /\ ~copies[s].edit_pending

LEMMA FreshStep == TypeInv /\ HandsInv /\ FreshInv /\ [Next]_vars => FreshInv'
<1> SUFFICES ASSUME TypeInv, HandsInv, FreshInv, [Next]_vars, NEW s \in Slots,
                    copies'[s].state # "posted"
             PROVE  copies'[s].closed = "no" /\ copies'[s].buttons_live /\ ~copies'[s].edit_pending
  BY DEF FreshInv
<1>0. copies[s] \in CopyRow /\ RowMoves(s)
  BY StepMoves DEF TypeInv, TypeOK, RowsMove
<1>1. /\ copies[s].state # "posted"
      /\ copies[s].closed = "no" /\ copies[s].buttons_live /\ ~copies[s].edit_pending
  BY PostedStays DEF FreshInv
<1>2. CASE copies'[s] = copies[s]
  BY <1>1, <1>2
<1>3. CASE copies[s] = NoCopy /\ copies'[s] = [NoCopy EXCEPT !.state = "pending"]
  BY <1>3 DEF NoCopy
<1>4. CASE Claimed(s)
  BY <1>0, <1>1, <1>4 DEF Claimed, MayClaimSync, MayClaimClose, Open, ClaimAlertSlot, CopyRow
<1>5. CASE Ended(s)
  <2>1. PICK a \in Actors :
            /\ actor[a].on = s
            /\ \/ actor[a].pc = "post_records" /\ PostWrites(a, s)
               \/ actor[a].pc \in {"sync_records", "close_records"}
    BY <1>5 DEF Ended
  <2>2. CASE actor[a].pc \in {"sync_records", "close_records"}
    BY <1>1, <2>1, <2>2 DEF HandsInv, Works, Open, HoldPcs, PostPcs, SyncPcs, ClosePcs
  <2>3. CASE PostWrites(a, s)
    BY <1>0, <1>1, <2>3 DEF PostWrites, CopyRow
  <2> QED
    BY <2>1, <2>2, <2>3
<1>6. CASE MarkedBy(s)
  BY <1>1, <1>6 DEF MarkedBy, Superseded, Open
<1>7. CASE Aged(s)
  BY <1>0, <1>1, <1>7 DEF Aged, Released, CopyRow
<1> QED
  BY <1>0, <1>2, <1>3, <1>4, <1>5, <1>6, <1>7 DEF RowMoves

LEMMA FreshInit == Init => FreshInv
BY DEF Init, FreshInv, NoCopy

\* The message of s says that the lockdown was lifted, or is not there.
ReadsLifted(s) == shown[s].there => shown[s].lifted /\ ~shown[s].buttons

\* So it does from the edit to the write that records it, and from then on.
ClosedInv ==
    /\ \A s \in Slots : copies[s].closed = "edited" => ReadsLifted(s)
    /\ \A a \in Actors, s \in Slots :
            actor[a].pc = "close_records" /\ actor[a].on = s /\ actor[a].res = "done" => ReadsLifted(s)

\* A message that reads lifted is changed only where its copy is worked on.
LEMMA LiftedStays ==
    ASSUME TypeInv, HandsInv, FreshInv, [Next]_vars, NEW s \in Slots, ReadsLifted(s),
           \/ copies[s].closed # "no"
           \/ \E a \in Actors : actor[a].pc = "close_records" /\ actor[a].on = s
    PROVE  ReadsLifted(s)'
<1>0. shown[s] \in Message /\ (shown'[s] = shown[s] \/ ShownBy(s))
  BY StepShows DEF TypeInv, TypeOK, ShownMove
<1>1. ASSUME NEW a \in Actors, actor[a].on = s,
             actor[a].pc \in {"sync_edits", "post_records", "close_edits"}
      PROVE  FALSE
  <2>1. Works(a, s) /\ (Posting(s) \/ Open(s))
    BY <1>1 DEF HandsInv, Works, HoldPcs, PostPcs, SyncPcs, ClosePcs
  <2>2. copies[s].closed = "no"
    BY <2>1 DEF FreshInv, Posting, Open
  <2>3. PICK b \in Actors : actor[b].pc = "close_records" /\ actor[b].on = s
    BY <2>2
  <2>4. Works(b, s)
    BY <2>3 DEF Works, HoldPcs, ClosePcs
  <2> QED
    BY <1>1, <2>1, <2>3, <2>4 DEF HandsInv
<1>2. CASE shown'[s] = [shown[s] EXCEPT !.kept = TRUE]
  BY <1>0, <1>2 DEF ReadsLifted, Message
<1>3. CASE shown'[s] = NoMessage
  BY <1>3 DEF ReadsLifted, NoMessage
<1>4. CASE shown'[s] = shown[s]
  BY <1>4 DEF ReadsLifted
<1> QED
  BY <1>0, <1>1, <1>2, <1>3, <1>4, Staff DEF ShownBy

\* The copy is recorded as edited by the one who edited it.
LEMMA ClosedEdited ==
    ASSUME TypeInv, HandsInv, [Next]_vars, NEW s \in Slots,
           copies'[s].closed = "edited", copies[s].closed # "edited"
    PROVE  \E a \in Actors :
                actor[a].pc = "close_records" /\ actor[a].on = s /\ actor[a].res = "done"
<1>0. copies[s] \in CopyRow /\ RowMoves(s)
  BY StepMoves DEF TypeInv, TypeOK, RowsMove
<1>1. ~(copies[s] = NoCopy /\ copies'[s] = [NoCopy EXCEPT !.state = "pending"])
  BY DEF NoCopy
<1>2. ~Claimed(s)
  BY <1>0 DEF Claimed, ClaimAlertSlot, ClaimAlertSync, ClaimAlertClose, CopyRow
<1>3. ~MarkedBy(s) /\ ~Aged(s)
  <2>1. ~MarkedBy(s)
    BY <1>0 DEF MarkedBy, CopyRow
  <2>2. ~Aged(s)
    BY <1>0 DEF Aged, Released, CopyRow
  <2> QED
    BY <2>1, <2>2
<1>4. Ended(s)
  BY <1>0, <1>1, <1>2, <1>3 DEF RowMoves
<1>5. /\ ~Closes(s, {"gone"}) /\ ~Closes(s, {"gone", "failed"}) /\ ~GivesBack(s)
      /\ \A a \in Actors : ~PostWrites(a, s) /\ ~Refreshed(s, actor[a].buttons)
  <2>1. ~Closes(s, {"gone"}) /\ ~Closes(s, {"gone", "failed"})
    BY <1>0 DEF Closes, CopyRow
  <2>2. ~GivesBack(s) /\ \A buttons : ~Refreshed(s, buttons)
    BY <1>0 DEF GivesBack, Refreshed, CopyRow
  <2>3. \A a \in Actors : ~PostWrites(a, s)
    BY <1>0 DEF PostWrites, CopyRow
  <2> QED
    BY <2>1, <2>2, <2>3
<1> QED
  BY <1>4, <1>5 DEF Ended, SyncWrites, CloseWrites

\* Where a close is about to be recorded it was before, or its edit is this step's.
LEMMA CloseEdited ==
    ASSUME TypeInv, [Next]_vars, NEW a \in Actors, NEW s \in Slots,
           actor'[a].pc = "close_records", actor'[a].on = s, actor'[a].res = "done"
    PROVE  \/ actor[a].pc = "close_records" /\ actor[a].on = s /\ actor[a].res = "done"
           \/ shown'[s] = LiftedText
<1>1. CASE actor'[a] = actor[a]
  BY <1>1
<1>2. CASE actor'[a] # actor[a]
  <2>1. PICK b \in Actors : Acts(b)
    BY <1>2, StepActs
  <2>2. \E r : Turned(b, r)
    BY <2>1 DEF Acts, GoesElsewhere, TakesRow, PostGoes, SyncGoes, CloseGoes, ToEnd
  <2>3. a = b /\ TypeOK
    BY <1>2, <2>2, TurnedOnly DEF TypeInv
  <2>4. ~GoesElsewhere(a) /\ ~PostGoes(a) /\ ~SyncGoes(a) /\ ~\E t \in Slots : TakesRow(a, t)
    <3>1. ~GoesElsewhere(a)
      BY <2>3, TurnedOnly DEF GoesElsewhere, HoldPcs, ClosePcs
    <3>2. ASSUME NEW t \in Slots, TakesRow(a, t) PROVE FALSE
      BY <3>2, TakenRow
    <3>3. ~PostGoes(a)
      BY GoesOn DEF PostPcs
    <3>4. ~SyncGoes(a)
      BY GoesOn DEF SyncPcs
    <3> QED
      BY <3>1, <3>2, <3>3, <3>4
  <2>5. CloseGoes(a)
    BY <2>1, <2>3, <2>4 DEF Acts
  <2>6. ASSUME NEW res, ToEnd(a, "close_records", res) PROVE res = "done"
    BY <2>6, Turns
  <2>7. ASSUME Turned(a, [actor[a] EXCEPT !.pc = "close_edits",
                                          !.attempts = copies[actor[a].on].attempts,
                                          !.buttons = copies[actor[a].on].buttons_live])
        PROVE  FALSE
    <3>1. actor'[a].pc = "close_edits"
      BY <2>7, LookTurns
    <3> QED
      BY <3>1
  <2>8. shown' = [shown EXCEPT ![actor[a].on] = LiftedText] /\ actor[a].on = s
    BY <2>5, <2>6, <2>7, GoesOn DEF CloseGoes
  <2> QED
    BY <2>8 DEF TypeInv, TypeOK
<1> QED
  BY <1>1, <1>2

LEMMA ClosedStep == TypeInv /\ HandsInv /\ FreshInv /\ ClosedInv /\ [Next]_vars => ClosedInv'
<1> SUFFICES ASSUME TypeInv, HandsInv, FreshInv, ClosedInv, [Next]_vars PROVE ClosedInv'
  OBVIOUS
<1>1. ASSUME NEW s \in Slots, copies'[s].closed = "edited" PROVE ReadsLifted(s)'
  <2>1. CASE copies[s].closed = "edited"
    BY <2>1, LiftedStays DEF ClosedInv
  <2>2. CASE copies[s].closed # "edited"
    BY <1>1, <2>2, ClosedEdited, LiftedStays DEF ClosedInv
  <2> QED
    BY <2>1, <2>2
<1>2. ASSUME NEW a \in Actors, NEW s \in Slots,
             actor'[a].pc = "close_records", actor'[a].on = s, actor'[a].res = "done"
      PROVE  ReadsLifted(s)'
  <2>1. CASE shown'[s] = LiftedText
    BY <2>1 DEF LiftedText, ReadsLifted
  <2>2. CASE actor[a].pc = "close_records" /\ actor[a].on = s /\ actor[a].res = "done"
    BY <2>2, LiftedStays DEF ClosedInv
  <2> QED
    BY <1>2, <2>1, <2>2, CloseEdited
<1> QED
  BY <1>1, <1>2 DEF ClosedInv

LEMMA ClosedInit == Init => ClosedInv
BY DEF Init, ClosedInv, NoCopy, Idle


\* In every instance a copy closed by an edit says that the lockdown was lifted and has
\* no button: no refresh and no post that was on its way writes over it, since
\* ClaimAlertClose and ClaimAlertSync take only a row that nobody holds.
THEOREM ClosedStaysLifted == Spec => []ClosedReadsLifted
<1>1. Init => TypeInv /\ HandsInv /\ FreshInv /\ ClosedInv
  BY TypeInit, HandsInit, FreshInit, ClosedInit
<1>2. TypeInv /\ HandsInv /\ FreshInv /\ ClosedInv /\ [Next]_vars
        => (TypeInv /\ HandsInv /\ FreshInv /\ ClosedInv)'
  BY TypeStep, HandsStep, FreshStep, ClosedStep
<1>3. ClosedInv => ClosedReadsLifted
  BY DEF ClosedInv, ReadsLifted, ClosedReadsLifted
<1> QED
  BY <1>1, <1>2, <1>3, PTL DEF Spec

-----------------------------------------------------------------------------
\* The newest reminder has its buttons.

\* A later reminder stands in the destination of s.
LaterStands(s) ==
    \E t \in Slots : dest(t) = dest(s) /\ seq(s) < seq(t) /\ copies[t].state = "posted"

\* Whoever takes the buttons of the older reminders has posted a newer one, and a row
\* without its buttons is closed or an older one.
ButtonsInv ==
    /\ \A w \in Actors, s \in Slots :
            actor[w].pc = "supersede" /\ actor[w].on = s => copies[s].state = "posted"
    /\ \A s \in Slots : copies[s].buttons_live \/ copies[s].closed # "no" \/ LaterStands(s)

\* A worker that goes to take them has just posted its own.
LEMMA SupersedesPosted ==
    ASSUME TypeInv, HandsInv, [Next]_vars, NEW w \in Actors, NEW s \in Slots,
           actor'[w].pc = "supersede", actor'[w].on = s
    PROVE  \/ actor[w].pc = "supersede" /\ actor[w].on = s
           \/ copies'[s].state = "posted"
<1>1. CASE actor'[w] = actor[w]
  BY <1>1
<1>2. CASE actor'[w] # actor[w]
  <2>1. PICK b \in Actors : Acts(b)
    BY <1>2, StepActs
  <2>2. \E r : Turned(b, r)
    BY <2>1 DEF Acts, GoesElsewhere, TakesRow, PostGoes, SyncGoes, CloseGoes, ToEnd
  <2>3. w = b /\ TypeOK
    BY <1>2, <2>2, TurnedOnly DEF TypeInv
  <2>4. ~GoesElsewhere(w) /\ ~SyncGoes(w) /\ ~CloseGoes(w) /\ ~\E t \in Slots : TakesRow(w, t)
    <3>1. ~GoesElsewhere(w)
      BY <2>3, TurnedOnly DEF GoesElsewhere
    <3>2. ASSUME NEW t \in Slots, TakesRow(w, t) PROVE FALSE
      BY <3>2, TakenRow
    <3>3. ~SyncGoes(w) /\ ~CloseGoes(w)
      BY GoesOn DEF SyncPcs, ClosePcs
    <3> QED
      BY <3>1, <3>2, <3>3
  <2>5. PostGoes(w)
    BY <2>1, <2>3, <2>4 DEF Acts
  <2>6. ASSUME NEW res, ToEnd(w, "post_records", res) PROVE FALSE
    <3>1. actor'[w].pc = "post_records"
      BY <2>6, Turns
    <3> QED
      BY <3>1
  <2>7. ASSUME Turned(w, [actor[w] EXCEPT !.pc = "post_routes", !.revoked = ld.revoked])
        PROVE  FALSE
    <3>1. actor'[w].pc = "post_routes"
      BY <2>7, Turns
    <3> QED
      BY <3>1
  <2>8. ASSUME Turned(w, [actor[w] EXCEPT !.pc = "send"]) PROVE FALSE
    <3>1. actor'[w].pc = "send"
      BY <2>8, Turns
    <3> QED
      BY <3>1
  <2>9. actor[w].pc = "post_records" /\ RecordAlertPosted(actor[w].on)
    BY <2>5, <2>6, <2>7, <2>8 DEF PostGoes, At
  <2>10. actor[w].on = s /\ Posting(s)
    <3>1. actor[w].on = s
      BY <2>5, GoesOn
    <3> QED
      BY <2>9, <3>1 DEF HandsInv, Works, HoldPcs, PostPcs
  <2>11. copies' = [copies EXCEPT ![s] =
                [copies[s] EXCEPT !.state = "posted", !.claim = "none", !.attempts = 0]]
    BY <2>9, <2>10 DEF RecordAlertPosted, Update
  <2>12. copies'[s].state = "posted"
    BY <2>11 DEF TypeInv, TypeOK, CopyRow
  <2> QED
    BY <2>12
<1> QED
  BY <1>1, <1>2

\* The buttons of an open row go only with a later reminder.
LEMMA ButtonsGo ==
    ASSUME TypeInv, [Next]_vars, NEW s \in Slots, copies[s].buttons_live,
           ~copies'[s].buttons_live, copies'[s].closed = "no"
    PROVE  /\ \E w \in Workers : actor[w].pc = "supersede" /\ Superseded(actor[w].on, s)
           /\ copies'[s].edit_pending
<1>0. copies[s] \in CopyRow /\ RowMoves(s)
  BY StepMoves DEF TypeInv, TypeOK, RowsMove
<1>1. ~(copies[s] = NoCopy /\ copies'[s] = [NoCopy EXCEPT !.state = "pending"])
  BY DEF NoCopy
<1>2. ~Claimed(s)
  BY <1>0 DEF Claimed, ClaimAlertSlot, ClaimAlertSync, ClaimAlertClose, CopyRow
<1>3. ~Aged(s)
  BY <1>0 DEF Aged, Released, CopyRow
<1>4. ~Ended(s)
  <2>1. ~Closes(s, {"gone"}) /\ ~Closes(s, {"gone", "failed"}) /\ ~Closes(s, {"edited"})
    BY <1>0 DEF Closes, CopyRow
  <2>2. ~GivesBack(s) /\ \A buttons : ~Refreshed(s, buttons)
    BY <1>0 DEF GivesBack, Refreshed, CopyRow
  <2>3. \A a \in Actors : ~PostWrites(a, s)
    BY <1>0 DEF PostWrites, CopyRow
  <2> QED
    BY <2>1, <2>2, <2>3 DEF Ended, SyncWrites, CloseWrites
<1>5. MarkedBy(s)
  BY <1>0, <1>1, <1>2, <1>3, <1>4 DEF RowMoves
<1>6. copies'[s] # [copies[s] EXCEPT !.edit_pending = TRUE]
  BY <1>0 DEF CopyRow
<1>7. \E w \in Workers :
        /\ actor[w].pc = "supersede" /\ Superseded(actor[w].on, s)
        /\ copies'[s] = [copies[s] EXCEPT !.buttons_live = FALSE, !.edit_pending = TRUE]
  BY <1>5, <1>6 DEF MarkedBy
<1> QED
  BY <1>0, <1>7 DEF CopyRow

LEMMA ButtonsStayGone ==
    ASSUME TypeInv, [Next]_vars, NEW s \in Slots, ~copies[s].buttons_live
    PROVE  ~copies'[s].buttons_live
<1>0. copies[s] \in CopyRow /\ RowMoves(s)
  BY StepMoves DEF TypeInv, TypeOK, RowsMove
<1>1. copies[s] # NoCopy
  BY DEF NoCopy
<1>2. Claimed(s) => ~copies'[s].buttons_live
  BY <1>0 DEF Claimed, ClaimAlertSlot, ClaimAlertSync, ClaimAlertClose, CopyRow
<1>3. Aged(s) => ~copies'[s].buttons_live
  BY <1>0 DEF Aged, Released, CopyRow
<1>4. Ended(s) => ~copies'[s].buttons_live
  <2>1. Closes(s, {"gone"}) \/ Closes(s, {"gone", "failed"}) \/ Closes(s, {"edited"})
            => ~copies'[s].buttons_live
    BY <1>0 DEF Closes, CopyRow
  <2>2. GivesBack(s) => ~copies'[s].buttons_live
    BY <1>0 DEF GivesBack, CopyRow
  <2>3. \A buttons : Refreshed(s, buttons) => ~copies'[s].buttons_live
    BY <1>0 DEF Refreshed, CopyRow
  <2>4. \A a \in Actors : PostWrites(a, s) => ~copies'[s].buttons_live
    BY <1>0 DEF PostWrites, CopyRow
  <2> QED
    BY <2>1, <2>2, <2>3, <2>4 DEF Ended, SyncWrites, CloseWrites
<1>5. MarkedBy(s) => ~copies'[s].buttons_live
  BY <1>0 DEF MarkedBy, CopyRow
<1> QED
  BY <1>0, <1>1, <1>2, <1>3, <1>4, <1>5 DEF RowMoves

LEMMA ButtonsStep == TypeInv /\ HandsInv /\ FreshInv /\ ButtonsInv /\ [Next]_vars => ButtonsInv'
<1> SUFFICES ASSUME TypeInv, HandsInv, FreshInv, ButtonsInv, [Next]_vars PROVE ButtonsInv'
  OBVIOUS
<1>1. ASSUME NEW w \in Actors, NEW s \in Slots, actor'[w].pc = "supersede", actor'[w].on = s
      PROVE  copies'[s].state = "posted"
  BY <1>1, SupersedesPosted, PostedStays DEF ButtonsInv
<1>2. ASSUME NEW s \in Slots, LaterStands(s) PROVE LaterStands(s)'
  BY <1>2, PostedStays DEF LaterStands
<1>3. ASSUME NEW s \in Slots, ~copies'[s].buttons_live, copies'[s].closed = "no"
      PROVE  LaterStands(s)'
  <2>1. CASE copies[s].buttons_live
    <3>1. PICK w \in Workers : actor[w].pc = "supersede" /\ Superseded(actor[w].on, s)
      BY <1>3, <2>1, ButtonsGo
    <3>2. w \in Actors /\ actor[w].on \in Slots
      BY <3>1, Staff DEF TypeInv, OnSlot, SlotPcs
    <3>3. copies[actor[w].on].state = "posted"
      BY <3>1, <3>2 DEF ButtonsInv
    <3>4. LaterStands(s)
      BY <3>1, <3>2, <3>3 DEF Superseded, LaterStands
    <3> QED
      BY <1>2, <3>4
  <2>2. CASE ~copies[s].buttons_live
    <3>1. copies[s].closed = "no"
      BY <1>3, PostedStays DEF FreshInv
    <3> QED
      BY <1>2, <2>2, <3>1 DEF ButtonsInv
  <2> QED
    BY <2>1, <2>2
<1> QED
  BY <1>1, <1>3 DEF ButtonsInv

LEMMA ButtonsInit == Init => ButtonsInv
BY DEF Init, ButtonsInv, NoCopy, Idle

\* In every instance the newest reminder that stands in a destination has its buttons,
\* in whatever order the replicas post the reminders and take the older ones' buttons
\* (SupersedeReminders).
THEOREM NewestIsLive == Spec => []NewestKeepsButtons
<1>1. Init => TypeInv /\ HandsInv /\ FreshInv /\ ButtonsInv
  BY TypeInit, HandsInit, FreshInit, ButtonsInit
<1>2. TypeInv /\ HandsInv /\ FreshInv /\ ButtonsInv /\ [Next]_vars
        => (TypeInv /\ HandsInv /\ FreshInv /\ ButtonsInv)'
  BY TypeStep, HandsStep, FreshStep, ButtonsStep
<1>3. ButtonsInv => NewestKeepsButtons
  BY SlotIs DEF ButtonsInv, LaterStands, Open, NewestKeepsButtons
<1> QED
  BY <1>1, <1>2, <1>3, PTL DEF Spec


-----------------------------------------------------------------------------
\* No edit is lost.

\* A worker that has read the lockdown for the copy it is about to post, one that has
\* read the row it is to refresh, and one that has read the lockdown for that too.
InPost(w) ==
    \/ actor[w].pc \in {"post_routes", "send"}
    \/ actor[w].pc = "post_records" /\ actor[w].res = "done"

Edited(a) == actor[a].pc = "sync_records" /\ actor[a].res = "done"

HasRead(a) == actor[a].pc = "sync_edits" \/ Edited(a)

HasLooked(a) == actor[a].pc = "sync_reads" \/ HasRead(a)

\* The message of s reads as its row says, and offers no link that was revoked.
Right(s) ==
    /\ shown[s].buttons = copies[s].buttons_live
    /\ ld.revoked => ~shown[s].revoke

\* What is marked, and what is read of it, until the edit is recorded.
MarksInv ==
    /\ \A s \in Slots : shown[s].there => copies[s].state = "posted"
    /\ \A s \in Slots : shown[s].revoke => shown[s].buttons
    /\ \A s \in Slots : Open(s) /\ copies[s].edit_pending /\ copies[s].buttons_live => ld.revoked
    /\ \A a \in Actors : actor[a].pc \in ClosePcs => ~ld.active

ReadsInv ==
    /\ \A w \in Workers : InPost(w) /\ ld.revoked => actor[w].revoked
    /\ \A a \in Actors, s \in Slots :
            actor[a].pc \in SyncPcs /\ actor[a].on = s => copies[s].edit_pending
    /\ \A a \in Actors, s \in Slots : HasLooked(a) /\ actor[a].on = s =>
            IF actor[a].buttons THEN ld.revoked ELSE ~copies[s].buttons_live
    /\ \A a \in Actors : HasRead(a) /\ actor[a].buttons => actor[a].revoked
    /\ \A a \in Actors, s \in Slots : Edited(a) /\ actor[a].on = s /\ shown[s].there =>
            shown[s].buttons = actor[a].buttons /\ ~shown[s].revoke

RightInv ==
    \A s \in Slots :
        ld.active /\ Open(s) /\ shown[s].there /\ ~shown[s].kept /\ ~copies[s].edit_pending => Right(s)

LEMMA WhoMoved ==
    ASSUME TypeInv, [Next]_vars, NEW a \in Actors, actor'[a] # actor[a]
    PROVE  Acts(a)
<1>1. PICK b \in Actors : Acts(b)
  BY StepActs
<1>2. \E r : Turned(b, r)
  BY <1>1 DEF Acts, GoesElsewhere, TakesRow, PostGoes, SyncGoes, CloseGoes, ToEnd
<1> QED
  BY <1>1, <1>2, TurnedOnly DEF TypeInv

\* Who holds a row and did not before just claimed it; otherwise it goes on.
LEMMA GoesOnHolding ==
    ASSUME TypeInv, [Next]_vars, NEW a \in Actors, actor'[a] # actor[a], actor'[a].pc \in HoldPcs
    PROVE  /\ actor'[a].pc \in PostPcs /\ actor'[a].pc # "post_reads" => PostGoes(a)
           /\ actor'[a].pc \in SyncPcs /\ actor'[a].pc # "sync_looks" => SyncGoes(a)
           /\ actor'[a].pc \in ClosePcs => CloseGoes(a) \/ ~ld.active
<1>1. Acts(a) /\ TypeOK
  BY WhoMoved DEF TypeInv
<1>2. ~GoesElsewhere(a)
  BY <1>1, TurnedOnly DEF GoesElsewhere
<1>3. ASSUME NEW s \in Slots, TakesRow(a, s)
      PROVE  /\ actor'[a].pc \in {"post_reads", "sync_looks", "close_looks"}
             /\ actor'[a].pc = "close_looks" => ~ld.active
  <2>1. \A pc : Turned(a, [actor[a] EXCEPT !.pc = pc, !.on = s]) => actor'[a].pc = pc
    BY Turns
  <2> QED
    BY <1>3, <2>1 DEF TakesRow
<1>4. PostGoes(a) => actor'[a].pc \notin SyncPcs \cup ClosePcs
  BY GoesOn DEF PostPcs, SyncPcs, ClosePcs
<1>5. SyncGoes(a) => actor'[a].pc \notin PostPcs \cup ClosePcs
  BY GoesOn DEF PostPcs, SyncPcs, ClosePcs
<1>6. CloseGoes(a) => actor'[a].pc \notin PostPcs \cup SyncPcs
  BY GoesOn DEF PostPcs, SyncPcs, ClosePcs
<1> QED
  BY <1>1, <1>2, <1>3, <1>4, <1>5, <1>6 DEF Acts, PostPcs, SyncPcs, ClosePcs

LEMMA PostArrives ==
    ASSUME TypeInv, [Next]_vars, NEW w \in Actors, actor'[w] # actor[w], InPost(w)'
    PROVE  /\ ld' = ld
           /\ \/ actor'[w].revoked = ld.revoked
              \/ InPost(w) /\ actor'[w].revoked = actor[w].revoked
<1>1. PostGoes(w)
  <2>1. actor'[w].pc \in PostPcs /\ actor'[w].pc # "post_reads" /\ actor'[w].pc \in HoldPcs
    BY DEF InPost, PostPcs, HoldPcs
  <2> QED
    BY <2>1, GoesOnHolding
<1>2. ASSUME Turned(w, [actor[w] EXCEPT !.pc = "post_routes", !.revoked = ld.revoked])
      PROVE  actor'[w].revoked = ld.revoked
  BY <1>2, ReadTurns
<1>3. ASSUME Turned(w, [actor[w] EXCEPT !.pc = "send"])
      PROVE  actor'[w].revoked = actor[w].revoked
  BY <1>3, Turns
<1>4. ASSUME NEW res, ToEnd(w, "post_records", res)
      PROVE  actor'[w].revoked = actor[w].revoked /\ res = "done"
  <2>1. actor'[w].pc = "post_records" /\ actor'[w].res = res
    BY <1>4, Turns
  <2> QED
    BY <1>4, <2>1, Turns DEF InPost
<1>5. ASSUME Turned(w, [actor[w] EXCEPT !.pc = "supersede"]) PROVE FALSE
  <2>1. actor'[w].pc = "supersede"
    BY <1>5, Turns
  <2> QED
    BY <2>1 DEF InPost
<1> QED
  BY <1>1, <1>2, <1>3, <1>4, <1>5 DEF PostGoes, At, InPost

LEMMA SyncArrives ==
    ASSUME TypeInv, [Next]_vars, NEW a \in Actors, actor'[a] # actor[a], HasLooked(a)'
    PROVE  /\ ld' = ld /\ copies' = copies /\ actor'[a].on = actor[a].on
           /\ \/ /\ actor[a].pc = "sync_looks" /\ ~HasRead(a)'
                 /\ actor'[a].buttons = copies[actor[a].on].buttons_live
              \/ /\ actor[a].pc = "sync_reads" /\ actor'[a].buttons = actor[a].buttons
                 /\ ~Edited(a)' /\ actor'[a].revoked = ld.revoked
              \/ /\ actor[a].pc = "sync_edits" /\ actor'[a].buttons = actor[a].buttons
                 /\ actor'[a].revoked = actor[a].revoked
                 /\ shown' = [shown EXCEPT ![actor[a].on] =
                                ActiveText(actor[a].buttons, actor[a].revoked)]
<1>1. SyncGoes(a)
  <2>1. actor'[a].pc \in SyncPcs /\ actor'[a].pc # "sync_looks" /\ actor'[a].pc \in HoldPcs
    BY DEF HasLooked, HasRead, Edited, SyncPcs, HoldPcs
  <2> QED
    BY <2>1, GoesOnHolding
<1>2. ASSUME Turned(a, [actor[a] EXCEPT !.pc = "sync_reads",
                                        !.attempts = copies[actor[a].on].attempts,
                                        !.buttons = copies[actor[a].on].buttons_live])
      PROVE  ~HasRead(a)' /\ actor'[a].buttons = copies[actor[a].on].buttons_live
  <2>1. actor'[a].pc = "sync_reads" /\ actor'[a].buttons = copies[actor[a].on].buttons_live
    BY <1>2, LookTurns
  <2> QED
    BY <2>1 DEF HasRead, Edited
<1>3. ASSUME Turned(a, [actor[a] EXCEPT !.pc = "sync_edits", !.revoked = ld.revoked])
      PROVE  /\ actor'[a].buttons = actor[a].buttons /\ ~Edited(a)' /\ actor'[a].revoked = ld.revoked
  <2>1. /\ actor'[a].pc = "sync_edits" /\ actor'[a].revoked = ld.revoked
        /\ actor'[a].buttons = actor[a].buttons
    BY <1>3, ReadTurns
  <2> QED
    BY <2>1 DEF Edited
<1>4. ASSUME NEW res, ToEnd(a, "sync_records", res)
      PROVE  /\ res = "done" /\ actor'[a].buttons = actor[a].buttons
             /\ actor'[a].revoked = actor[a].revoked
  <2>1. actor'[a].pc = "sync_records" /\ actor'[a].res = res
    BY <1>4, Turns
  <2> QED
    BY <1>4, <2>1, Turns DEF HasLooked, HasRead, Edited
<1>5. ld' = ld /\ copies' = copies /\ actor'[a].on = actor[a].on
  BY <1>1, GoesOn DEF SyncGoes
<1> QED
  BY <1>1, <1>2, <1>3, <1>4, <1>5 DEF SyncGoes, At


\* What becomes of a mark: it stands for as long as the row is in hand, and is made
\* only of a row without its buttons, or when the link was revoked.
LEMMA MarkComes ==
    ASSUME TypeInv, HandsInv, FreshInv, [Next]_vars, NEW s \in Slots,
           Open(s)', copies'[s].edit_pending, copies'[s].buttons_live
    PROVE  ld'.revoked \/ (Open(s) /\ copies[s].edit_pending /\ copies[s].buttons_live)
<1>0. copies[s] \in CopyRow /\ RowMoves(s)
  BY StepMoves DEF TypeInv, TypeOK, RowsMove
<1>1. CASE copies'[s] = copies[s]
  BY <1>1 DEF Open
<1>2. ~(copies[s] = NoCopy /\ copies'[s] = [NoCopy EXCEPT !.state = "pending"])
  BY DEF NoCopy
<1>3. CASE Claimed(s)
  <2>1. ~(copies'[s] = ClaimAlertSlot(s)) /\ ~(copies'[s] = ClaimAlertClose(s))
    BY <1>0 DEF Open, ClaimAlertSlot, ClaimAlertClose, CopyRow
  <2> QED
    BY <1>0, <1>3, <2>1 DEF Claimed, MayClaimSync, ClaimAlertSync, CopyRow
<1>4. CASE Ended(s)
  <2>1. ~Closes(s, {"gone"}) /\ ~Closes(s, {"gone", "failed"}) /\ ~Closes(s, {"edited"})
    BY <1>0 DEF Closes, CopyRow
  <2>2. GivesBack(s) => copies[s].edit_pending /\ copies[s].buttons_live
    BY <1>0 DEF GivesBack, CopyRow
  <2>3. \A buttons : Refreshed(s, buttons) => copies[s].edit_pending /\ copies[s].buttons_live
    BY <1>0 DEF Refreshed, CopyRow
  <2>4. \A a \in Actors : ~PostWrites(a, s)
    BY <1>0 DEF PostWrites, Posting, FreshInv, CopyRow
  <2> QED
    BY <1>4, <2>1, <2>2, <2>3, <2>4 DEF Ended, SyncWrites, CloseWrites
<1>5. CASE MarkedBy(s)
  BY <1>0, <1>5 DEF MarkedBy, CopyRow
<1>6. CASE Aged(s)
  BY <1>0, <1>6 DEF Aged, Released, Open, CopyRow
<1> QED
  BY <1>0, <1>1, <1>2, <1>3, <1>4, <1>5, <1>6 DEF RowMoves

LEMMA MarkGoes ==
    ASSUME TypeInv, HandsInv, FreshInv, [Next]_vars, NEW s \in Slots,
           copies[s].edit_pending, ~copies'[s].edit_pending, copies'[s].closed = "no"
    PROVE  \/ ~ld.active
           \/ \E a \in Actors :
                /\ actor[a].pc = "sync_records" /\ actor[a].on = s
                /\ copies'[s].buttons_live = actor[a].buttons
                /\ actor[a].res # "done" => shown'[s] = [shown[s] EXCEPT !.kept = TRUE]
<1>0. copies[s] \in CopyRow /\ RowMoves(s)
  BY StepMoves DEF TypeInv, TypeOK, RowsMove
<1>1. copies'[s] # copies[s] /\ copies[s] # NoCopy
  BY DEF NoCopy
<1>2. CASE Claimed(s)
  <2>1. ~(copies'[s] = ClaimAlertSlot(s)) /\ ~(copies'[s] = ClaimAlertSync(s))
    BY <1>0 DEF ClaimAlertSlot, ClaimAlertSync, CopyRow
  <2> QED
    BY <1>2, <2>1 DEF Claimed
<1>3. CASE Ended(s)
  <2>1. ~Closes(s, {"gone"}) /\ ~Closes(s, {"gone", "failed"}) /\ ~Closes(s, {"edited"})
    BY <1>0 DEF Closes, CopyRow
  <2>2. ~GivesBack(s)
    BY <1>0 DEF GivesBack, CopyRow
  <2>3. \A a \in Actors : ~PostWrites(a, s)
    BY <1>0 DEF PostWrites, CopyRow
  <2>4. ASSUME NEW a \in Actors, Refreshed(s, actor[a].buttons)
        PROVE  copies'[s].buttons_live = actor[a].buttons
    <3>1. actor[a].buttons \in BOOLEAN /\ copies[s].buttons_live \in BOOLEAN
      BY <1>0, Shapes DEF TypeInv, Actor, CopyRow
    <3> QED
      BY <1>0, <2>4, <3>1 DEF Refreshed, CopyRow
  <2>5. PICK a \in Actors : /\ actor[a].pc = "sync_records" /\ actor[a].on = s
                            /\ actor[a].res \in {"done", "failed"} /\ Refreshed(s, actor[a].buttons)
                            /\ actor[a].res = "failed" => shown'[s] = [shown[s] EXCEPT !.kept = TRUE]
    BY <1>3, <2>1, <2>2, <2>3 DEF Ended, SyncWrites, CloseWrites
  <2> QED
    BY <2>4, <2>5
<1>4. ~MarkedBy(s)
  BY <1>0 DEF MarkedBy, CopyRow
<1>5. ~Aged(s)
  BY <1>0 DEF Aged, Released, CopyRow
<1> QED
  BY <1>0, <1>1, <1>2, <1>3, <1>4, <1>5 DEF RowMoves

\* The link is revoked in a step that marks every open copy with its buttons, and with
\* no copy on its way that has the keyboard of before.
LEMMA RevokeMarks ==
    ASSUME TypeInv, [Next]_vars, ld'.revoked, ~ld.revoked
    PROVE  /\ \A s \in Slots : Open(s) /\ copies[s].buttons_live => copies'[s].edit_pending
           /\ "revoke in post" \notin Hazards => \A w \in Workers : InPost(w) => actor[w].revoked
<1>1. Revoked /\ (~BeingPosted \/ "revoke in post" \in Hazards)
  BY StepLockdown
<1>2. ASSUME NEW s \in Slots, Open(s), copies[s].buttons_live PROVE copies'[s].edit_pending
  <2>1. copies[s] \in CopyRow
    BY DEF TypeInv, TypeOK
  <2>2. copies'[s] = [copies[s] EXCEPT !.edit_pending = TRUE]
    BY <1>1, <1>2 DEF Revoked
  <2> QED
    BY <2>1, <2>2 DEF CopyRow
<1>3. \A w \in Workers : InPost(w) /\ ~BeingPosted => actor[w].revoked
  BY DEF InPost, BeingPosted
<1> QED
  BY <1>1, <1>2, <1>3

LEMMA TextIs ==
    /\ \A b, r \in BOOLEAN :
                 /\ ActiveText(b, r).there /\ ActiveText(b, r).buttons = b
                 /\ ActiveText(b, r).revoke = (b /\ ~r) /\ ~ActiveText(b, r).kept
    /\ LiftedText.there /\ ~LiftedText.revoke /\ ~NoMessage.there /\ ~NoMessage.revoke
    /\ \A m \in Message : LET kept == [m EXCEPT !.kept = TRUE] IN
            /\ kept.there = m.there /\ kept.buttons = m.buttons /\ kept.revoke = m.revoke
            /\ kept.kept
BY DEF ActiveText, LiftedText, NoMessage, Message

LEMMA MarksStep ==
    TypeInv /\ HandsInv /\ FreshInv /\ MarksInv /\ [Next]_vars => MarksInv'
<1> SUFFICES ASSUME TypeInv, HandsInv, FreshInv, MarksInv, [Next]_vars PROVE MarksInv'
  OBVIOUS
<1>0. ASSUME NEW s \in Slots
      PROVE  shown[s] \in Message /\ (shown'[s] = shown[s] \/ ShownBy(s))
  BY StepShows DEF TypeInv, TypeOK, ShownMove
<1>1. ASSUME NEW s \in Slots, shown'[s].there PROVE copies'[s].state = "posted"
  <2>1. CASE shown[s].there
    BY <2>1, PostedStays DEF MarksInv
  <2>2. CASE ~shown[s].there
    <3>1. ShownBy(s) /\ shown'[s] # [shown[s] EXCEPT !.kept = TRUE] /\ shown'[s] # NoMessage
      BY <1>0, <1>1, <2>2, TextIs
    <3>2. ASSUME NEW a \in Actors, actor[a].pc \in {"sync_edits", "close_edits"}, actor[a].on = s
          PROVE  copies[s].state = "posted"
      BY <3>2 DEF HandsInv, Works, Open, HoldPcs, PostPcs, SyncPcs, ClosePcs
    <3> QED
      BY <3>1, <3>2, PostedStays, Staff DEF ShownBy
  <2> QED
    BY <2>1, <2>2
<1>2. ASSUME NEW s \in Slots, shown'[s].revoke PROVE shown'[s].buttons
  <2>1. ASSUME NEW b \in BOOLEAN, NEW r \in BOOLEAN, shown'[s] = ActiveText(b, r)
        PROVE  shown'[s].buttons
    BY <1>2, <2>1, TextIs
  <2>5. \A w \in Workers : actor[w].buttons \in BOOLEAN /\ actor[w].revoked \in BOOLEAN
    BY Shapes, Staff DEF TypeInv, Actor
  <2>2. CASE shown'[s] = [shown[s] EXCEPT !.kept = TRUE]
    BY <1>0, <1>2, <2>2, TextIs DEF MarksInv
  <2>3. CASE shown'[s] = shown[s]
    BY <1>2, <2>3 DEF MarksInv
  <2>4. shown'[s] # LiftedText /\ shown'[s] # NoMessage
    BY <1>2, TextIs
  <2> QED
    BY <1>0, <2>1, <2>2, <2>3, <2>4, <2>5 DEF ShownBy
<1>3. ASSUME NEW s \in Slots, Open(s)', copies'[s].edit_pending, copies'[s].buttons_live
      PROVE  ld'.revoked
  BY <1>3, MarkComes, StepLockdown DEF MarksInv
<1>4. ASSUME NEW a \in Actors, actor'[a].pc \in ClosePcs PROVE ~ld'.active
  <2>1. CASE actor'[a] = actor[a]
    BY <1>4, <2>1, StepLockdown DEF MarksInv
  <2>2. CASE actor'[a] # actor[a]
    <3>1. CloseGoes(a) \/ ~ld.active
      BY <1>4, <2>2, GoesOnHolding DEF HoldPcs
    <3>2. CloseGoes(a) => actor[a].pc \in ClosePcs
      BY DEF CloseGoes, At, ClosePcs
    <3> QED
      BY <3>1, <3>2, StepLockdown DEF MarksInv
  <2> QED
    BY <2>1, <2>2
<1> QED
  BY <1>1, <1>2, <1>3, <1>4 DEF MarksInv

LEMMA MarksInit == Init => MarksInv
BY DEF Init, MarksInv, NoMessage, NoCopy, Open, Idle, ClosePcs


\* The message of a row in hand is written by nobody else.
LEMMA HeldMessageStays ==
    ASSUME TypeInv, HandsInv, [Next]_vars, NEW a \in Actors, NEW s \in Slots,
           Edited(a), actor[a].on = s
    PROVE  shown'[s] = shown[s] \/ ~shown'[s].there
<1>1. Works(a, s) /\ Open(s)
  BY DEF HandsInv, Works, Edited, HoldPcs, PostPcs, SyncPcs, ClosePcs
<1>2. shown'[s] = shown[s] \/ ShownBy(s)
  BY StepShows DEF ShownMove
<1>3. ASSUME NEW b \in Actors, actor[b].on = s,
             \/ actor[b].pc \in {"post_records", "sync_edits", "close_edits"}
             \/ actor[b].pc = "sync_records" /\ actor[b].res = "failed"
      PROVE  FALSE
  <2>1. Works(b, s)
    BY <1>3 DEF Works, HoldPcs, PostPcs, SyncPcs, ClosePcs
  <2>2. b = a
    BY <1>1, <2>1 DEF HandsInv
  <2> QED
    BY <1>3, <2>2 DEF Edited
<1> QED
  BY <1>2, <1>3, Staff, TextIs DEF ShownBy

LEMMA ReadsStep ==
    ASSUME "revoke in post" \notin Hazards
    PROVE  TypeInv /\ HandsInv /\ FreshInv /\ MarksInv /\ ReadsInv /\ [Next]_vars => ReadsInv'
<1> SUFFICES ASSUME TypeInv, HandsInv, FreshInv, MarksInv, ReadsInv, [Next]_vars PROVE ReadsInv'
  OBVIOUS
<1>0. /\ ld.revoked \in BOOLEAN /\ (ld.revoked => ld'.revoked)
      /\ \A a \in Actors : actor[a] \in Actor /\ actor'[a] \in Actor
  <2>1. TypeInv'
    BY TypeStep
  <2>2. actor \in [Actors -> Actor] /\ actor' \in [Actors -> Actor]
    BY <2>1, Shapes DEF TypeInv, TypeOK, Actor
  <2> QED
    BY <2>2, StepLockdown DEF TypeInv, TypeOK
<1>1. ASSUME NEW w \in Workers, InPost(w)', ld'.revoked PROVE actor'[w].revoked
  <2>0. w \in Actors
    BY Staff
  <2>1. CASE actor'[w] = actor[w]
    <3>1. InPost(w)
      BY <1>1, <2>1 DEF InPost
    <3> QED
      BY <1>1, <2>1, <3>1, RevokeMarks DEF ReadsInv
  <2>2. CASE actor'[w] # actor[w]
    <3>1. /\ ld' = ld
          /\ actor'[w].revoked = ld.revoked \/ (InPost(w) /\ actor'[w].revoked = actor[w].revoked)
      BY <1>1, <2>0, <2>2, PostArrives
    <3> QED
      BY <1>0, <1>1, <3>1 DEF ReadsInv
  <2> QED
    BY <2>1, <2>2
<1>2. ASSUME NEW a \in Actors, NEW s \in Slots, actor'[a].pc \in SyncPcs, actor'[a].on = s
      PROVE  copies'[s].edit_pending
  <2>0. copies[s] \in CopyRow /\ Works(a, s)'
    BY <1>2 DEF TypeInv, TypeOK, Works, HoldPcs
  <2>1. CASE Works(a, s) /\ actor[a].pc \in SyncPcs
    <3>1. copies[s].edit_pending
      BY <2>1 DEF ReadsInv, Works
    <3>2. copies'[s] = copies[s] \/ MarkedBy(s)
      BY <2>0, <2>1, HeldRowStays
    <3> QED
      BY <2>0, <3>1, <3>2 DEF MarkedBy, CopyRow
  <2>2. CASE TakesRow(a, s)
    <3>1. ASSUME NEW pc, Turned(a, [actor[a] EXCEPT !.pc = pc, !.on = s])
          PROVE  actor'[a].pc = pc
      BY <3>1, Turns
    <3>2. MayClaimSync(s) /\ copies'[s] = ClaimAlertSync(s)
      BY <1>2, <2>2, <3>1 DEF TakesRow, SyncPcs
    <3> QED
      BY <2>0, <3>2 DEF MayClaimSync, ClaimAlertSync, CopyRow
  <2> QED
    BY <1>2, <2>0, <2>1, <2>2, HandMoves
<1>3. ASSUME NEW a \in Actors, NEW s \in Slots, HasLooked(a)', actor'[a].on = s
      PROVE  IF actor'[a].buttons THEN ld'.revoked ELSE ~copies'[s].buttons_live
  <2>0. copies[s] \in CopyRow
    BY DEF TypeInv, TypeOK
  <2>1. CASE actor'[a] = actor[a]
    <3>1. HasLooked(a) /\ actor[a].on = s
      BY <1>3, <2>1 DEF HasLooked, HasRead, Edited
    <3>2. Works(a, s) /\ Works(a, s)'
      BY <1>3, <3>1 DEF Works, HasLooked, HasRead, Edited, HoldPcs, SyncPcs
    <3>3. copies'[s] = copies[s] \/ MarkedBy(s)
      BY <3>2, HeldRowStays
    <3>4. ~copies[s].buttons_live => ~copies'[s].buttons_live
      BY <2>0, <3>3 DEF MarkedBy, CopyRow
    <3>5. IF actor[a].buttons THEN ld.revoked ELSE ~copies[s].buttons_live
      BY <3>1 DEF ReadsInv
    <3> QED
      BY <1>0, <2>1, <3>4, <3>5
  <2>2. CASE actor'[a] # actor[a]
    <3>1. /\ ld' = ld /\ copies' = copies /\ actor[a].on = s
          /\ \/ actor[a].pc = "sync_looks" /\ actor'[a].buttons = copies[s].buttons_live
             \/ actor[a].pc \in {"sync_reads", "sync_edits"} /\ actor'[a].buttons = actor[a].buttons
      BY <1>3, <2>2, SyncArrives
    <3>2. CASE actor[a].pc = "sync_looks" /\ actor'[a].buttons = copies[s].buttons_live
      <4>1. Open(s) /\ copies[s].edit_pending
        BY <3>1, <3>2 DEF ReadsInv, HandsInv, Works, HoldPcs, PostPcs, SyncPcs
      <4>2. copies[s].buttons_live => ld.revoked
        BY <4>1 DEF MarksInv
      <4> QED
        BY <3>1, <3>2, <4>2
    <3>3. CASE actor[a].pc \in {"sync_reads", "sync_edits"} /\ actor'[a].buttons = actor[a].buttons
      <4>1. HasLooked(a)
        BY <3>3 DEF HasLooked, HasRead
      <4> QED
        BY <3>1, <3>3, <4>1 DEF ReadsInv
    <3> QED
      BY <3>1, <3>2, <3>3
  <2> QED
    BY <2>1, <2>2
<1>4. ASSUME NEW a \in Actors, HasRead(a)', actor'[a].buttons PROVE actor'[a].revoked
  <2>1. CASE actor'[a] = actor[a]
    BY <1>4, <2>1 DEF ReadsInv, HasRead, Edited
  <2>2. CASE actor'[a] # actor[a]
    <3>0. HasLooked(a)'
      BY <1>4 DEF HasLooked
    <3>1. CASE actor[a].pc = "sync_reads" /\ actor'[a].buttons = actor[a].buttons
                    /\ actor'[a].revoked = ld.revoked
      <4>1. HasLooked(a) /\ actor[a].on \in Slots
        BY <3>1 DEF HasLooked, TypeInv, OnSlot, SlotPcs, HoldPcs, SyncPcs
      <4>2. ld.revoked
        BY <1>4, <3>1, <4>1 DEF ReadsInv
      <4> QED
        BY <1>0, <3>1, <4>2
    <3>2. CASE actor[a].pc = "sync_edits" /\ actor'[a].buttons = actor[a].buttons
                    /\ actor'[a].revoked = actor[a].revoked
      <4>1. HasRead(a)
        BY <3>2 DEF HasRead
      <4> QED
        BY <1>4, <3>2, <4>1 DEF ReadsInv
    <3> QED
      BY <1>4, <2>2, <3>0, <3>1, <3>2, SyncArrives
  <2> QED
    BY <2>1, <2>2
<1>5. ASSUME NEW a \in Actors, NEW s \in Slots, Edited(a)', actor'[a].on = s, shown'[s].there
      PROVE  shown'[s].buttons = actor'[a].buttons /\ ~shown'[s].revoke
  <2>1. CASE actor'[a] = actor[a]
    <3>1. Edited(a) /\ actor[a].on = s
      BY <1>5, <2>1 DEF Edited
    <3>2. shown'[s] = shown[s]
      BY <1>5, <3>1, HeldMessageStays
    <3> QED
      BY <1>5, <2>1, <3>1, <3>2 DEF ReadsInv
  <2>2. CASE actor'[a] # actor[a]
    <3>0. HasLooked(a)' /\ HasRead(a)'
      BY <1>5 DEF HasLooked, HasRead
    <3>1. /\ actor[a].pc = "sync_edits" /\ actor'[a].buttons = actor[a].buttons /\ actor[a].on = s
          /\ shown' = [shown EXCEPT ![s] = ActiveText(actor[a].buttons, actor[a].revoked)]
      BY <1>5, <2>2, <3>0, SyncArrives
    <3>2. actor[a].buttons => actor[a].revoked
      BY <3>1 DEF ReadsInv, HasRead
    <3>3. shown'[s] = ActiveText(actor[a].buttons, actor[a].revoked)
      BY <3>1 DEF TypeInv, TypeOK
    <3>4. actor[a].buttons \in BOOLEAN /\ actor[a].revoked \in BOOLEAN
      BY <1>0 DEF Actor
    <3>5. shown'[s].buttons = actor[a].buttons /\ ~shown'[s].revoke
      <4>1. CASE actor[a].buttons
        <5>1. shown'[s] = ActiveText(TRUE, TRUE)
          <6>1. actor[a].buttons = TRUE /\ actor[a].revoked = TRUE
            BY <3>2, <3>4, <4>1
          <6> QED
            BY <3>3, <6>1
        <5>2. ActiveText(TRUE, TRUE).buttons /\ ~ActiveText(TRUE, TRUE).revoke
          BY DEF ActiveText
        <5> QED
          BY <4>1, <5>1, <5>2
      <4>2. CASE ~actor[a].buttons
        <5>1. PICK r \in BOOLEAN : shown'[s] = ActiveText(FALSE, r)
          <6>1. actor[a].buttons = FALSE
            BY <3>4, <4>2
          <6> QED
            BY <3>3, <3>4, <6>1
        <5>2. ~ActiveText(FALSE, r).buttons /\ ~ActiveText(FALSE, r).revoke
          BY DEF ActiveText
        <5> QED
          <6>1. shown'[s].buttons \in BOOLEAN
            BY StepShows DEF ShownMove, Message
          <6> QED
            BY <3>4, <4>2, <5>1, <5>2, <6>1
      <4> QED
        BY <4>1, <4>2
    <3> QED
      BY <3>1, <3>5
  <2> QED
    BY <2>1, <2>2
<1> QED
  BY <1>1, <1>2, <1>3, <1>4, <1>5 DEF ReadsInv

LEMMA ReadsInit == Init => ReadsInv
BY DEF Init, ReadsInv, InPost, HasLooked, HasRead, Edited, Idle, SyncPcs

\* A copy that becomes posted shows the keyboard it was sent with.
LEMMA PostedShows ==
    ASSUME TypeInv, HandsInv, FreshInv, MarksInv, [Next]_vars, NEW s \in Slots, ~Open(s), Open(s)',
           shown'[s].there
    PROVE  \E w \in Workers : InPost(w) /\ actor[w].on = s /\ Posting(s)
                                /\ shown'[s] = ActiveText(TRUE, actor[w].revoked)
<1>1. copies[s].state # "posted"
  BY PostedStays DEF Open
<1>2. shown'[s] # shown[s]
  BY <1>1 DEF MarksInv
<1>3. ShownBy(s) /\ shown[s] \in Message /\ ~shown[s].there
  BY <1>1, <1>2, StepShows DEF ShownMove, TypeInv, TypeOK, MarksInv
<1>4. shown'[s] # [shown[s] EXCEPT !.kept = TRUE] /\ shown'[s] # NoMessage
  BY <1>3, TextIs
<1>5. ASSUME NEW a \in Actors, actor[a].pc \in {"sync_edits", "close_edits"}, actor[a].on = s
      PROVE  FALSE
  BY <1>1, <1>5 DEF HandsInv, Works, Open, HoldPcs, PostPcs, SyncPcs, ClosePcs
<1> QED
  BY <1>3, <1>4, <1>5, Staff DEF ShownBy, InPost

LEMMA RightStep ==
    ASSUME "revoke in post" \notin Hazards
    PROVE  TypeInv /\ HandsInv /\ FreshInv /\ MarksInv /\ ReadsInv /\ RightInv /\ [Next]_vars
                => RightInv'
<1> SUFFICES ASSUME TypeInv, HandsInv, FreshInv, MarksInv, ReadsInv, RightInv, [Next]_vars,
                    NEW s \in Slots, ld'.active, Open(s)', shown'[s].there, ~shown'[s].kept,
                    ~copies'[s].edit_pending
             PROVE  Right(s)'
  BY DEF RightInv
<1>0. /\ ld.active /\ ld.revoked \in BOOLEAN /\ (ld.revoked => ld'.revoked)
      /\ copies[s] \in CopyRow /\ copies'[s] \in CopyRow /\ shown[s] \in Message
      /\ \A a \in Actors : actor[a] \in Actor
  BY StepLockdown, StepMoves, Shapes DEF RowsMove, TypeInv, TypeOK
<1>1. CASE ~Open(s)
  <2>1. PICK w \in Workers : InPost(w) /\ actor[w].on = s /\ Posting(s)
                                /\ shown'[s] = ActiveText(TRUE, actor[w].revoked)
    BY <1>1, PostedShows
  <2>2. copies'[s].buttons_live
    <3>1. copies[s].buttons_live
      BY <2>1 DEF Posting, FreshInv
    <3> QED
      BY <2>1, <3>1, ButtonsGo DEF Open, Superseded, Posting
  <2>3. ld'.revoked => actor[w].revoked
    BY <2>1, RevokeMarks DEF ReadsInv
  <2>4. actor[w].revoked \in BOOLEAN /\ copies'[s].buttons_live = TRUE
    BY <1>0, <2>2, Staff DEF Actor, CopyRow
  <2> QED
    BY <2>1, <2>3, <2>4, TextIs DEF Right
<1>2. CASE Open(s) /\ ~copies[s].edit_pending
  <2>1. copies'[s].buttons_live = copies[s].buttons_live
    BY <1>0, ButtonsGo, ButtonsStayGone DEF Open, CopyRow
  <2>2. shown'[s] = shown[s]
    <3>1. ASSUME NEW w \in Workers, actor[w].pc = "sync_edits", actor[w].on = s PROVE FALSE
      BY <1>2, <3>1, Staff DEF ReadsInv, SyncPcs
    <3>2. ASSUME NEW a \in Actors, actor[a].pc = "close_edits" PROVE FALSE
      BY <1>0, <3>2 DEF MarksInv, ClosePcs
    <3>3. shown'[s] # [shown[s] EXCEPT !.kept = TRUE] /\ shown'[s] # NoMessage /\ ~Posting(s)
      BY <1>0, <1>2, TextIs DEF Open, Posting
    <3> QED
      BY <3>1, <3>2, <3>3, StepShows DEF ShownMove, ShownBy
  <2>3. Right(s)
    BY <1>0, <1>2, <2>2 DEF RightInv
  <2>4. ASSUME ld'.revoked, ~ld.revoked PROVE ~shown[s].revoke
    <3>1. ~copies[s].buttons_live
      BY <1>2, <2>4, RevokeMarks
    <3>2. ~shown[s].buttons
      BY <2>3, <3>1 DEF Right
    <3> QED
      BY <3>2 DEF MarksInv
  <2> QED
    BY <2>1, <2>2, <2>3, <2>4 DEF Right
<1>3. CASE Open(s) /\ copies[s].edit_pending
  <2>1. PICK a \in Actors : /\ actor[a].pc = "sync_records" /\ actor[a].on = s
                            /\ copies'[s].buttons_live = actor[a].buttons
                            /\ actor[a].res # "done" => shown'[s] = [shown[s] EXCEPT !.kept = TRUE]
    BY <1>0, <1>3, MarkGoes DEF Open
  <2>2. Edited(a)
    BY <1>0, <2>1, TextIs DEF Edited
  <2>3. shown'[s] = shown[s]
    BY <2>1, <2>2, HeldMessageStays
  <2>4. shown[s].buttons = actor[a].buttons /\ ~shown[s].revoke
    BY <2>1, <2>2, <2>3 DEF ReadsInv
  <2> QED
    BY <2>1, <2>3, <2>4 DEF Right
<1> QED
  BY <1>1, <1>2, <1>3


LEMMA RightInit == Init => RightInv
BY DEF Init, RightInv, NoCopy, Open

\* In every instance in which no revoke is recorded while a copy with the keyboard of
\* before is on its way, no edit is lost: an open copy that is not marked reads as its
\* row says and offers no revoked link, whatever replicas refresh it and whatever took
\* its buttons or the link while it was edited (RecordAlertSynced, RecordLinkRevoked).
THEOREM EditsArrive ==
    ASSUME "revoke in post" \notin Hazards
    PROVE  Spec => []NoEditIsLost
<1> DEFINE IInv == TypeInv /\ HandsInv /\ FreshInv /\ MarksInv /\ ReadsInv /\ RightInv
<1>1. Init => IInv
  BY TypeInit, HandsInit, FreshInit, MarksInit, ReadsInit, RightInit
<1>2. IInv /\ [Next]_vars => IInv'
  BY TypeStep, HandsStep, FreshStep, MarksStep, ReadsStep, RightStep
<1>3. IInv => NoEditIsLost
  BY DEF RightInv, Right, NoEditIsLost
<1> HIDE DEF IInv
<1> QED
  BY <1>1, <1>2, <1>3, PTL DEF Spec

==============================================================================

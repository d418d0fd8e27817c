------------------------- MODULE RaidTrigger_proofs -------------------------
(***************************************************************************)
(* What holds of RaidTrigger for any handlers, destinations, lockdowns and *)
(* faults: its types, one notice a lockdown, one warning a day, and no     *)
(* automatic start in the quiet time.                                      *)
(***************************************************************************)
EXTENDS RaidTrigger, TLAPS

\* In the middle of a start of its own, from the insert to the notice.
Started == {"lock", "remove", "confirm", "notice"}

\* An attempt's row is its own: the bot's, not announced yet, nobody else's.
RowsOwned ==
    \A h \in Handlers : attempt[h].pc \in Started =>
        /\ attempt[h].rid \in Rows
        /\ rows[attempt[h].rid].by = "bot"
        /\ rows[attempt[h].rid].state # "none"
        /\ rows[attempt[h].rid].notices = 0
        /\ attempt[h].pc \in {"confirm", "notice"} => rows[attempt[h].rid].locked
        /\ \A k \in Handlers : attempt[k].pc \in Started /\ attempt[k].rid = attempt[h].rid => k = h

NoticeInv == RowsOwned /\ NoticeOncePerLockdown

\* Who sends a warning holds the gate alone, and the gate outlives what was heard.
GateInv ==
    /\ \A h \in Handlers : attempt[h].pc = "send" =>
         /\ gate
         /\ heard = IF attempt[h].got THEN 1 ELSE 0
         /\ \A k \in Handlers : attempt[k].pc = "send" => k = h
    /\ heard > 0 => gate
    /\ heard <= 1

\* Until its first copy is sent nobody has heard a warning.
Unheard == \A h \in Handlers : attempt[h].pc = "gate" => attempt[h].got = FALSE

\* Nobody is past the reads when a lift begins, nor gets past them while quiet.
QuietInv ==
    "quick lift" \notin Hazards =>
        (quiet => \A h \in Handlers : attempt[h].pc \notin {"check", "insert"})

IInv == TypeOK /\ NoticeInv /\ GateInv /\ Unheard /\ QuietInv

-----------------------------------------------------------------------------
LEMMA Moves ==
    ASSUME TypeOK, NEW h \in Handlers, NEW pc \in AttemptPcs, GoTo(h, pc)
    PROVE  /\ attempt' \in [Handlers -> Attempt]
           /\ attempt'[h] = [attempt[h] EXCEPT !.pc = pc]
           /\ \A k \in Handlers \ {h} : attempt'[k] = attempt[k]
BY DEF TypeOK, GoTo, Attempt

LEMMA IdleTyped == Idle \in Attempt
BY RaidTriggerAssumption DEF Idle, Attempt, AttemptPcs

LEMMA NoRowTyped == NoRow \in RaidRow
BY DEF NoRow, RaidRow

LEMMA StopsAt ==
    ASSUME TypeOK, NEW h \in Handlers, Ends(h)
    PROVE  /\ attempt' \in [Handlers -> Attempt]
           /\ attempt'[h] = Idle
           /\ \A k \in Handlers \ {h} : attempt'[k] = attempt[k]
BY IdleTyped DEF TypeOK, Ends

LEMMA PcMoves ==
    ASSUME TypeOK, NEW h \in Handlers, NEW pc \in AttemptPcs, GoTo(h, pc)
    PROVE  attempt'[h].pc = pc /\ attempt'[h].rid = attempt[h].rid
<1>1. attempt'[h] = [attempt[h] EXCEPT !.pc = pc]
  BY Moves
<1>2. attempt[h] \in Attempt
  BY DEF TypeOK
<1> QED
  BY <1>1, <1>2 DEF Attempt

LEMMA ReadsInOrder ==
    /\ Reads[1] = "active" /\ AfterRead("active") = "lifted" /\ AfterRead("lifted") = "check"
BY DEF Reads, AfterRead

LEMMA FaultsTyped == TypeOK /\ (Fault \/ NoFault) => faults' \in 0..MaxFaults
BY RaidTriggerAssumption DEF TypeOK, Fault, NoFault

-----------------------------------------------------------------------------
LEMMA InitIInv == Init => IInv
<1> SUFFICES ASSUME Init
             PROVE  IInv
  OBVIOUS
<1>1. TypeOK
  <2>1. rows \in [Rows -> RaidRow]
    BY NoRowTyped DEF Init
  <2>2. attempt \in [Handlers -> Attempt]
    BY IdleTyped DEF Init
  <2>3. quiet \in BOOLEAN /\ latch \in BOOLEAN /\ gate \in BOOLEAN /\ raid \in BOOLEAN
    BY DEF Init
  <2>4. changes \in 0..MaxChanges /\ faults \in 0..MaxFaults /\ heard \in Nat
    BY RaidTriggerAssumption DEF Init
  <2>5. dests \subseteq Dests /\ group \in Groups
    BY DEF Init
  <2> QED
    BY <2>1, <2>2, <2>3, <2>4, <2>5 DEF TypeOK
<1>2. \A h \in Handlers : attempt[h].pc = "idle"
  BY DEF Init, Idle
<1>3. \A r \in Rows : rows[r].by = "admin" /\ rows[r].notices = 0
  BY DEF Init, NoRow
<1>4. NoticeInv
  BY <1>2, <1>3 DEF NoticeInv, RowsOwned, Started, NoticeOncePerLockdown
<1>5. heard = 0 /\ ~(heard > 0) /\ heard <= 1
  BY DEF Init
<1>6. GateInv
  BY <1>2, <1>5 DEF GateInv
<1>7. Unheard /\ QuietInv
  BY <1>2 DEF Init, Unheard, QuietInv
<1> QED
  BY <1>1, <1>4, <1>6, <1>7 DEF IInv

\* What a step of the start may do to a handler: move on, or end.
MayMove(h) == Ends(h) \/ \E pc \in AttemptPcs : GoTo(h, pc)

LEMMA MovesTyped ==
    ASSUME TypeOK, NEW h \in Handlers, MayMove(h) \/ UNCHANGED attempt
    PROVE  attempt' \in [Handlers -> Attempt]
BY Moves, StopsAt DEF MayMove, TypeOK

LEMMA ReadsTyped ==
    ASSUME TypeOK, NEW h \in Handlers,
           Fire(h) \/ ReadActive(h) \/ ReadLifted(h) \/ CheckBot(h) \/ RereadActive(h) \/ Stops(h)
    PROVE  TypeOK'
<1>1. MayMove(h) \/ UNCHANGED attempt
  BY ReadsInOrder
  DEF Fire, ReadActive, ReadLifted, CheckBot, RereadActive, Stops, MayMove, AttemptPcs
<1>2. Fault \/ NoFault
  BY DEF Fire, ReadActive, ReadLifted, CheckBot, RereadActive, Stops
<1>3. UNCHANGED <<rows, quiet, gate, heard, dests, group, changes, raid>> /\ latch' \in BOOLEAN
  BY DEF Fire, ReadActive, ReadLifted, CheckBot, RereadActive, Stops, TypeOK
<1> QED
  BY <1>1, <1>2, <1>3, MovesTyped, FaultsTyped DEF TypeOK

LEMMA RowWritesTyped ==
    ASSUME TypeOK, NEW r \in Rows,
           \/ StartRow(r) \/ ConfirmLocked(r) \/ DeleteUnconfirmed(r)
           \/ rows' = [rows EXCEPT ![r].locked = TRUE]
           \/ rows' = [rows EXCEPT ![r].notices = @ + 1]
           \/ rows' = [rows EXCEPT ![r].state = "ended"]
    PROVE  rows' \in [Rows -> RaidRow]
<1>1. CASE StartRow(r)
  <2>1. [NoRow EXCEPT !.state = "unconfirmed", !.by = "bot"] \in RaidRow
    BY DEF NoRow, RaidRow
  <2> QED
    BY <1>1, <2>1 DEF TypeOK, StartRow
<1>2. CASE DeleteUnconfirmed(r)
  BY <1>2, NoRowTyped DEF TypeOK, DeleteUnconfirmed
<1>3. CASE ConfirmLocked(r)
  BY <1>3 DEF TypeOK, ConfirmLocked, RaidRow
<1>4. CASE rows' = [rows EXCEPT ![r].locked = TRUE] \/ rows' = [rows EXCEPT ![r].state = "ended"]
  BY ZenonT(30), <1>4 DEF TypeOK, RaidRow
<1>5. CASE rows' = [rows EXCEPT ![r].notices = @ + 1]
  BY <1>5 DEF TypeOK, RaidRow
<1> QED
  BY <1>1, <1>2, <1>3, <1>4, <1>5

LEMMA StartTyped ==
    ASSUME TypeOK, RowsOwned, NEW h \in Handlers,
           \/ InsertRow(h) \/ LockGroup(h) \/ RemoveRefused(h)
           \/ ConfirmStart(h) \/ PostNotice(h)
    PROVE  TypeOK'
<1>1. /\ UNCHANGED <<quiet, latch, gate, heard, dests, group, changes, raid>>
      /\ Fault \/ NoFault
  BY DEF InsertRow, LockGroup, RemoveRefused, ConfirmStart, PostNotice
<1>2. attempt' \in [Handlers -> Attempt]
  <2>1. CASE InsertRow(h)
    <3>1. ASSUME NEW r \in Rows, attempt' = [attempt EXCEPT ![h].pc = "lock", ![h].rid = r]
          PROVE  attempt' \in [Handlers -> Attempt]
      <4>1. r \in 0..MaxRows
        BY RaidTriggerAssumption DEF Rows
      <4>2. [attempt[h] EXCEPT !.pc = "lock", !.rid = r] \in Attempt
        BY <4>1 DEF TypeOK, Attempt, AttemptPcs
      <4> QED
        BY <3>1, <4>2 DEF TypeOK
    <3> QED
      BY <2>1, <3>1, MovesTyped DEF InsertRow, MayMove, AttemptPcs
  <2>2. CASE LockGroup(h) \/ RemoveRefused(h) \/ ConfirmStart(h) \/ PostNotice(h)
    BY <2>2, MovesTyped DEF LockGroup, RemoveRefused, ConfirmStart, PostNotice, MayMove, AttemptPcs
  <2> QED
    BY <2>1, <2>2
<1>3. rows' \in [Rows -> RaidRow]
  <2>1. CASE InsertRow(h)
    BY <2>1, RowWritesTyped DEF InsertRow, TypeOK
  <2>2. CASE LockGroup(h) \/ RemoveRefused(h) \/ ConfirmStart(h) \/ PostNotice(h)
    <3>1. attempt[h].rid \in Rows
      BY <2>2 DEF LockGroup, RemoveRefused, ConfirmStart, PostNotice, At, RowsOwned, Started
    <3> QED
      BY <2>2, <3>1, RowWritesTyped DEF LockGroup, RemoveRefused, ConfirmStart, PostNotice, TypeOK
  <2> QED
    BY <2>1, <2>2
<1> QED
  BY <1>1, <1>2, <1>3, FaultsTyped DEF TypeOK

LEMMA WarningTyped ==
    ASSUME TypeOK, NEW h \in Handlers,
           ResolveDests(h) \/ TakeGate(h) \/ SendWarning(h) \/ WarningEnds(h)
    PROVE  TypeOK'
<1>1. CASE ResolveDests(h)
  <2>1. ASSUME NEW to \in SUBSET dests,
               attempt' = [attempt EXCEPT ![h] = [Idle EXCEPT !.pc = "gate", !.to = to]]
        PROVE  attempt' \in [Handlers -> Attempt]
    <3>1. [Idle EXCEPT !.pc = "gate", !.to = to] \in Attempt
      BY IdleTyped DEF Attempt, AttemptPcs, TypeOK
    <3> QED
      BY <2>1, <3>1 DEF TypeOK
  <2> QED
    BY <1>1, <2>1, MovesTyped, FaultsTyped DEF ResolveDests, MayMove, TypeOK
<1>2. CASE TakeGate(h) \/ WarningEnds(h)
  BY <1>2, MovesTyped, FaultsTyped DEF TakeGate, WarningEnds, MayMove, AttemptPcs, TypeOK
<1>3. CASE SendWarning(h)
  <2>1. attempt' \in [Handlers -> Attempt]
    BY <1>3 DEF SendWarning, TypeOK, Attempt
  <2>2. heard' \in Nat
    BY <1>3 DEF SendWarning, TypeOK
  <2> QED
    BY <1>3, <2>1, <2>2, FaultsTyped DEF SendWarning, TypeOK
<1> QED
  BY <1>1, <1>2, <1>3

LEMMA RestTyped ==
    ASSUME TypeOK,
           \/ \E r \in Rows : AdminLifts(r) \/ Settle(r)
           \/ AdminStarts \/ RaidComesAndGoes \/ GroupChanges \/ DestsAdded
           \/ LatchExpires \/ QuietEnds \/ DayPasses
    PROVE  TypeOK'
<1>1. ASSUME NEW r \in Rows, AdminLifts(r) \/ Settle(r)
      PROVE  TypeOK'
  BY <1>1, RowWritesTyped, FaultsTyped DEF AdminLifts, Settle, TypeOK
<1>2. CASE AdminStarts
  <2>1. rows' \in [Rows -> RaidRow]
    <3>1. [NoRow EXCEPT !.state = "confirmed", !.locked = TRUE] \in RaidRow
      BY DEF NoRow, RaidRow
    <3> QED
      BY <1>2, <3>1 DEF AdminStarts, TypeOK
  <2> QED
    BY <1>2, <2>1, FaultsTyped DEF AdminStarts, TypeOK
<1>3. CASE RaidComesAndGoes \/ GroupChanges \/ DestsAdded
  <2>1. changes' \in 0..MaxChanges
    BY <1>3, RaidTriggerAssumption DEF RaidComesAndGoes, GroupChanges, DestsAdded, TypeOK
  <2>2. dests' \subseteq Dests /\ group' \in Groups /\ raid' \in BOOLEAN
    BY <1>3 DEF RaidComesAndGoes, GroupChanges, DestsAdded, TypeOK
  <2>3. UNCHANGED <<rows, quiet, latch, attempt, gate, heard>> /\ faults' = faults
    BY <1>3 DEF RaidComesAndGoes, GroupChanges, DestsAdded, NoFault
  <2> QED
    BY <2>1, <2>2, <2>3 DEF TypeOK
<1>4. CASE LatchExpires \/ QuietEnds \/ DayPasses
  <2>1. quiet' \in BOOLEAN /\ latch' \in BOOLEAN /\ gate' \in BOOLEAN
    BY <1>4 DEF LatchExpires, QuietEnds, DayPasses, TypeOK
  <2>2. heard' \in Nat
    BY <1>4 DEF LatchExpires, QuietEnds, DayPasses, TypeOK
  <2>3. UNCHANGED <<rows, attempt, dests, group, changes, raid>> /\ faults' = faults
    BY <1>4 DEF LatchExpires, QuietEnds, DayPasses, NoFault
  <2> QED
    BY <2>1, <2>2, <2>3 DEF TypeOK
<1> QED
  BY <1>1, <1>2, <1>3, <1>4

LEMMA NextTyped == TypeOK /\ RowsOwned /\ [Next]_vars => TypeOK'
<1> SUFFICES ASSUME TypeOK, RowsOwned, [Next]_vars
             PROVE  TypeOK'
  OBVIOUS
<1>1. CASE UNCHANGED vars
  BY <1>1 DEF vars, TypeOK
<1>2. ASSUME NEW h \in Handlers, Fire(h) \/ AttemptStep(h) \/ Stops(h)
      PROVE  TypeOK'
  BY <1>2, ReadsTyped, StartTyped, WarningTyped DEF AttemptStep
<1> QED
  BY <1>1, <1>2, RestTyped DEF Next

-----------------------------------------------------------------------------
\* A step that touches no row and leaves h out of a start of its own.
LEMMA LeavesRows ==
    ASSUME NoticeInv, NEW h \in Handlers, UNCHANGED rows,
           \A k \in Handlers \ {h} : attempt'[k] = attempt[k],
           attempt'[h].pc \notin Started
    PROVE  NoticeInv'
BY DEF NoticeInv, RowsOwned, NoticeOncePerLockdown

\* A step that keeps h in its start, and of the rows changes its own at most:
\* not who started it, and not to nothing.
LEMMA StaysOnRow ==
    ASSUME TypeOK, NoticeInv, NEW h \in Handlers,
           attempt[h].pc \in Started, attempt'[h].rid = attempt[h].rid,
           \A k \in Handlers \ {h} : attempt'[k] = attempt[k],
           \A r \in Rows \ {attempt[h].rid} : rows'[r] = rows[r],
           rows'[attempt[h].rid].by = "bot",
           rows'[attempt[h].rid].state # "none",
           rows'[attempt[h].rid].notices = 0,
           attempt'[h].pc \in {"confirm", "notice"} => rows'[attempt[h].rid].locked
    PROVE  NoticeInv'
<1>1. RowsOwned'
  BY DEF NoticeInv, RowsOwned
<1>2. NoticeOncePerLockdown'
  BY DEF NoticeInv, NoticeOncePerLockdown
<1> QED
  BY <1>1, <1>2 DEF NoticeInv

LEMMA InsertKeepsNotices ==
    ASSUME TypeOK, NoticeInv, NEW h \in Handlers, InsertRow(h)
    PROVE  NoticeInv'
<1>1. CASE UNCHANGED rows /\ (GoTo(h, "reread") \/ Ends(h))
  <2>1. attempt'[h].pc \notin Started
    BY <1>1, PcMoves, StopsAt DEF Started, Idle, AttemptPcs
  <2>2. \A k \in Handlers \ {h} : attempt'[k] = attempt[k]
    BY <1>1, Moves, StopsAt DEF AttemptPcs
  <2> QED
    BY <1>1, <2>1, <2>2, LeavesRows
<1>2. ASSUME NEW r \in Rows, StartRow(r),
             \/ attempt' = [attempt EXCEPT ![h].pc = "lock", ![h].rid = r]
             \/ Ends(h)
      PROVE  NoticeInv'
  <2>1. /\ rows[r].state = "none"
        /\ rows' = [rows EXCEPT ![r] = [NoRow EXCEPT !.state = "unconfirmed", !.by = "bot"]]
    BY <1>2 DEF StartRow, FirstFree
  <2>2. /\ rows'[r].by = "bot" /\ rows'[r].notices = 0 /\ rows'[r].state # "none"
        /\ \A q \in Rows \ {r} : rows'[q] = rows[q]
    BY <2>1 DEF NoRow, TypeOK
  <2>3. /\ \A k \in Handlers \ {h} : attempt'[k] = attempt[k]
        /\ attempt'[h].pc \in Started => attempt'[h].pc = "lock" /\ attempt'[h].rid = r
    BY <1>2, StopsAt DEF TypeOK, Attempt, Idle, Started
  <2>4. \A k \in Handlers : attempt[k].pc \in Started => attempt[k].rid \in Rows \ {r}
    BY <2>1 DEF NoticeInv, RowsOwned
  <2>5. RowsOwned'
    BY <2>2, <2>3, <2>4 DEF NoticeInv, RowsOwned
  <2>6. NoticeOncePerLockdown'
    BY <2>2 DEF NoticeInv, NoticeOncePerLockdown
  <2> QED
    BY <2>5, <2>6 DEF NoticeInv
<1> QED
  BY <1>1, <1>2 DEF InsertRow

LEMMA LockKeepsNotices ==
    ASSUME TypeOK, NoticeInv, NEW h \in Handlers, LockGroup(h)
    PROVE  NoticeInv'
<1> DEFINE r == attempt[h].rid
<1>1. attempt[h].pc = "lock" /\ r \in Rows
  BY DEF LockGroup, At, NoticeInv, RowsOwned, Started
<1>2. /\ rows[r].by = "bot" /\ rows[r].state # "none" /\ rows[r].notices = 0
      /\ \A k \in Handlers : attempt[k].pc \in Started /\ attempt[k].rid = r => k = h
  BY <1>1 DEF NoticeInv, RowsOwned, Started
<1>3. /\ \A k \in Handlers \ {h} : attempt'[k] = attempt[k]
      /\ \/ attempt'[h] = [attempt[h] EXCEPT !.pc = "confirm"]
         \/ attempt'[h] = [attempt[h] EXCEPT !.pc = "remove"]
         \/ attempt'[h] = Idle
  BY Moves, StopsAt DEF LockGroup, AttemptPcs
<1>4. CASE rows' = [rows EXCEPT ![r].locked = TRUE]
  <2>1. /\ rows'[r].by = "bot" /\ rows'[r].state # "none" /\ rows'[r].notices = 0
        /\ rows'[r].locked
        /\ \A q \in Rows \ {r} : rows'[q] = rows[q]
    BY <1>1, <1>2, <1>4 DEF TypeOK, RaidRow
  <2>2. attempt'[h].pc \in Started => attempt'[h].rid = r
    BY <1>1, <1>3 DEF Idle, Started, TypeOK, Attempt
  <2>3. CASE attempt'[h].pc \in Started
    <3>1. attempt'[h].rid = r
      BY <2>2, <2>3
    <3> QED
      BY <1>1, <1>3, <2>1, <3>1, StaysOnRow DEF Started
  <2>4. CASE attempt'[h].pc \notin Started
    <3>1. \A k \in Handlers : attempt'[k].pc \in Started => k # h /\ attempt'[k].rid # r
      BY <1>1, <1>2, <1>3, <2>4 DEF Started
    <3>2. RowsOwned'
      BY <1>3, <2>1, <3>1 DEF NoticeInv, RowsOwned
    <3>3. NoticeOncePerLockdown'
      BY <1>1, <2>1 DEF NoticeInv, NoticeOncePerLockdown
    <3> QED
      BY <3>2, <3>3 DEF NoticeInv
  <2> QED
    BY <2>3, <2>4
<1>5. CASE UNCHANGED rows /\ (GoTo(h, "remove") \/ Ends(h))
  <2>2. CASE GoTo(h, "remove")
    <3>1. attempt'[h].rid = r /\ attempt'[h].pc = "remove"
      BY <2>2, PcMoves DEF AttemptPcs
    <3> QED
      BY <1>1, <1>2, <1>3, <1>5, <3>1, StaysOnRow DEF Started
  <2>3. CASE Ends(h)
    BY <1>5, <2>3, LeavesRows, StopsAt DEF Idle, Started
  <2> QED
    BY <1>5, <2>2, <2>3
<1> QED
  BY <1>4, <1>5 DEF LockGroup

LEMMA EndsOfStartKeepNotices ==
    ASSUME TypeOK, NoticeInv, NEW h \in Handlers,
           RemoveRefused(h) \/ ConfirmStart(h) \/ PostNotice(h)
    PROVE  NoticeInv'
<1> DEFINE r == attempt[h].rid
<1>1. attempt[h].pc \in Started /\ r \in Rows
  BY DEF RemoveRefused, ConfirmStart, PostNotice, At, NoticeInv, RowsOwned, Started
<1>2. /\ rows[r].by = "bot" /\ rows[r].state # "none" /\ rows[r].notices = 0
      /\ \A k \in Handlers : attempt[k].pc \in Started /\ attempt[k].rid = r => k = h
  BY <1>1 DEF NoticeInv, RowsOwned
<1>3. CASE RemoveRefused(h)
  <2>1. /\ attempt'[h].pc \notin Started
        /\ \A k \in Handlers \ {h} : attempt'[k] = attempt[k]
    BY ZenonT(30), <1>3, Moves DEF RemoveRefused, AttemptPcs, Started, TypeOK, Attempt
  <2>2. /\ \A q \in Rows \ {r} : rows'[q] = rows[q]
        /\ rows'[r] = rows[r] \/ rows'[r] = NoRow
    BY <1>1, <1>3 DEF RemoveRefused, DeleteUnconfirmed, TypeOK
  <2>3. \A k \in Handlers : attempt'[k].pc \in Started => k # h /\ attempt'[k].rid # r
    BY <1>2, <2>1
  <2>4. RowsOwned'
    BY <2>1, <2>2, <2>3 DEF NoticeInv, RowsOwned
  <2>5. NoticeOncePerLockdown'
    BY <2>2 DEF NoticeInv, NoticeOncePerLockdown, NoRow
  <2> QED
    BY <2>4, <2>5 DEF NoticeInv
<1>4. CASE ConfirmStart(h)
  <2>1. /\ attempt'[h] = [attempt[h] EXCEPT !.pc = "notice"]
        /\ \A k \in Handlers \ {h} : attempt'[k] = attempt[k]
    BY <1>4, Moves DEF ConfirmStart, AttemptPcs
  <2>2. attempt'[h].rid = r
    BY <2>1 DEF TypeOK, Attempt
  <2>3. rows[r].locked
    BY <1>4 DEF ConfirmStart, At, NoticeInv, RowsOwned, Started
  <2>4. /\ \A q \in Rows \ {r} : rows'[q] = rows[q]
        /\ rows'[r].by = "bot" /\ rows'[r].state # "none" /\ rows'[r].notices = 0
        /\ rows'[r].locked
    BY <1>1, <1>2, <1>4, <2>3 DEF ConfirmStart, ConfirmLocked, TypeOK, RaidRow
  <2> QED
    BY <1>1, <2>1, <2>2, <2>4, StaysOnRow
<1>5. CASE PostNotice(h)
  <2>1. /\ attempt'[h].pc \notin Started
        /\ \A k \in Handlers \ {h} : attempt'[k] = attempt[k]
    BY <1>5, StopsAt DEF PostNotice, Idle, Started
  <2>2. /\ \A q \in Rows \ {r} : rows'[q] = rows[q]
        /\ rows'[r].by = "bot" /\ rows'[r].notices <= 1
    BY <1>1, <1>2, <1>5 DEF PostNotice, TypeOK, RaidRow
  <2>3. \A k \in Handlers : attempt'[k].pc \in Started => k # h /\ attempt'[k].rid # r
    BY <1>2, <2>1
  <2>4. RowsOwned'
    BY <2>1, <2>2, <2>3 DEF NoticeInv, RowsOwned
  <2>5. NoticeOncePerLockdown'
    BY <1>1, <2>2 DEF NoticeInv, NoticeOncePerLockdown
  <2> QED
    BY <2>4, <2>5 DEF NoticeInv
<1> QED
  BY <1>3, <1>4, <1>5

LEMMA OthersKeepNotices ==
    ASSUME TypeOK, NoticeInv, NEW r \in Rows, AdminLifts(r) \/ Settle(r)
    PROVE  NoticeInv'
<1>1. UNCHANGED attempt
  BY DEF AdminLifts, Settle
<1>2. CASE DeleteUnconfirmed(r) /\ Settle(r) /\ ~rows[r].locked
  <2>1. \A h \in Handlers : attempt[h].pc \in Started => attempt[h].rid # r
    BY <1>2 DEF Settle, NoticeInv, RowsOwned, Started
  <2>2. /\ \A q \in Rows \ {r} : rows'[q] = rows[q]
        /\ rows'[r] = rows[r] \/ rows'[r] = NoRow
    BY <1>2 DEF DeleteUnconfirmed, TypeOK
  <2>3. RowsOwned'
    BY <1>1, <2>1, <2>2 DEF NoticeInv, RowsOwned
  <2>4. NoticeOncePerLockdown'
    BY <2>2 DEF NoticeInv, NoticeOncePerLockdown, NoRow
  <2> QED
    BY <2>3, <2>4 DEF NoticeInv
<1>3. CASE AdminLifts(r) \/ ConfirmLocked(r)
  <2>1. /\ \A q \in Rows \ {r} : rows'[q] = rows[q]
        /\ rows'[r].by = rows[r].by /\ rows'[r].notices = rows[r].notices
        /\ rows'[r].locked = rows[r].locked
        /\ rows[r].state # "none" => rows'[r].state # "none"
    BY <1>3 DEF AdminLifts, ConfirmLocked, TypeOK, RaidRow
  <2>2. RowsOwned'
    BY <1>1, <2>1 DEF NoticeInv, RowsOwned
  <2>3. NoticeOncePerLockdown'
    BY <2>1 DEF NoticeInv, NoticeOncePerLockdown
  <2> QED
    BY <2>2, <2>3 DEF NoticeInv
<1> QED
  BY <1>2, <1>3 DEF Settle

LEMMA AdminStartKeepsNotices ==
    ASSUME TypeOK, NoticeInv, AdminStarts
    PROVE  NoticeInv'
<1>1. PICK r \in Rows :
         /\ rows[r].state = "none"
         /\ rows' = [rows EXCEPT ![r] = [NoRow EXCEPT !.state = "confirmed", !.locked = TRUE]]
  BY DEF AdminStarts, FirstFree
<1>2. /\ \A q \in Rows \ {r} : rows'[q] = rows[q]
      /\ rows'[r].by = "admin" /\ rows'[r].notices = 0
  BY <1>1 DEF TypeOK, NoRow
<1>3. UNCHANGED attempt
  BY DEF AdminStarts
<1>4. \A h \in Handlers : attempt[h].pc \in Started => attempt[h].rid # r
  BY <1>1 DEF NoticeInv, RowsOwned
<1>5. RowsOwned'
  BY <1>2, <1>3, <1>4 DEF NoticeInv, RowsOwned
<1>6. NoticeOncePerLockdown'
  BY <1>2 DEF NoticeInv, NoticeOncePerLockdown
<1> QED
  BY <1>5, <1>6 DEF NoticeInv

\* The steps of a handler outside a start of its own.
Apart(h) ==
    \/ Fire(h) \/ ReadActive(h) \/ ReadLifted(h) \/ CheckBot(h) \/ RereadActive(h)
    \/ ResolveDests(h) \/ TakeGate(h) \/ SendWarning(h) \/ WarningEnds(h) \/ Stops(h)

LEMMA ApartIsApart ==
    ASSUME TypeOK, NEW h \in Handlers, Apart(h)
    PROVE  /\ UNCHANGED rows
           /\ \A k \in Handlers \ {h} : attempt'[k] = attempt[k]
           /\ attempt'[h].pc \notin Started
<1>1. CASE Fire(h) \/ ReadActive(h) \/ ReadLifted(h) \/ CheckBot(h) \/ RereadActive(h) \/ Stops(h)
  <2>1. \/ UNCHANGED attempt /\ attempt[h].pc = "idle"
        \/ Ends(h)
        \/ \E pc \in AttemptPcs \ Started : GoTo(h, pc)
    BY <1>1, ReadsInOrder
    DEF Fire, ReadActive, ReadLifted, CheckBot, RereadActive, Stops, At, AttemptPcs, Started
  <2>2. \A pc \in AttemptPcs : GoTo(h, pc) => attempt'[h].pc = pc
    BY PcMoves
  <2>3. UNCHANGED rows
    BY <1>1 DEF Fire, ReadActive, ReadLifted, CheckBot, RereadActive, Stops
  <2>4. \A k \in Handlers \ {h} : attempt'[k] = attempt[k]
    BY <2>1, Moves, StopsAt
  <2>5. Idle.pc \notin Started
    BY DEF Idle, Started
  <2>6. "idle" \notin Started
    BY DEF Started
  <2>7. attempt'[h].pc \notin Started
    BY <2>1, <2>2, <2>5, <2>6, StopsAt
  <2> QED
    BY <2>3, <2>4, <2>7
<1>2. CASE ResolveDests(h) \/ TakeGate(h) \/ SendWarning(h) \/ WarningEnds(h)
  <2>1. UNCHANGED rows
    BY <1>2 DEF ResolveDests, TakeGate, SendWarning, WarningEnds
  <2>2. CASE ResolveDests(h)
    <3>1. \A to \in SUBSET dests : [Idle EXCEPT !.pc = "gate", !.to = to].pc \notin Started
      BY DEF Idle, Started
    <3>2. Idle.pc \notin Started
      BY DEF Idle, Started
    <3> QED
      BY <2>1, <2>2, <3>1, <3>2 DEF ResolveDests, Ends, TypeOK
  <2>3. CASE TakeGate(h) \/ WarningEnds(h)
    <3>1. GoTo(h, "send") \/ Ends(h)
      BY <2>3 DEF TakeGate, WarningEnds
    <3>2. "send" \in AttemptPcs \ Started /\ Idle.pc \notin Started
      BY DEF Idle, Started, AttemptPcs
    <3>3. \A k \in Handlers \ {h} : attempt'[k] = attempt[k]
      BY <3>1, <3>2, Moves, StopsAt
    <3>4. attempt'[h].pc \notin Started
      BY <3>1, <3>2, PcMoves, StopsAt
    <3> QED
      BY <2>1, <3>3, <3>4
  <2>4. CASE SendWarning(h)
    BY <2>1, <2>4 DEF SendWarning, At, TypeOK, Attempt, Started
  <2> QED
    BY <1>2, <2>2, <2>3, <2>4
<1> QED
  BY <1>1, <1>2 DEF Apart

LEMMA NextKeepsNotices ==
    ASSUME TypeOK, NoticeInv, [Next]_vars
    PROVE  NoticeInv'
<1>1. ASSUME NEW h \in Handlers, Fire(h) \/ AttemptStep(h) \/ Stops(h)
      PROVE  NoticeInv'
  <2>1. CASE Apart(h)
    BY <2>1, ApartIsApart, LeavesRows
  <2> QED
    BY <1>1, <2>1, InsertKeepsNotices, LockKeepsNotices, EndsOfStartKeepNotices
    DEF AttemptStep, Apart
<1>2. CASE UNCHANGED <<rows, attempt>>
  BY <1>2 DEF NoticeInv, RowsOwned, NoticeOncePerLockdown
<1>3. CASE RaidComesAndGoes \/ GroupChanges \/ DestsAdded \/ LatchExpires \/ QuietEnds \/ DayPasses
  BY <1>2, <1>3 DEF RaidComesAndGoes, GroupChanges, DestsAdded, LatchExpires, QuietEnds, DayPasses
<1> QED
  BY <1>1, <1>2, <1>3, OthersKeepNotices, AdminStartKeepsNotices DEF Next, vars

-----------------------------------------------------------------------------
\* A step that sends nothing and leaves the gate and what was heard.
LEMMA OutsideGate ==
    ASSUME GateInv, NEW h \in Handlers, UNCHANGED <<gate, heard>>,
           \A k \in Handlers \ {h} : attempt'[k] = attempt[k],
           attempt'[h].pc # "send"
    PROVE  GateInv'
BY DEF GateInv

\* The steps of a handler before it has the gate.
NotSending(h) ==
    \/ Fire(h) \/ ReadActive(h) \/ ReadLifted(h) \/ CheckBot(h) \/ RereadActive(h)
    \/ InsertRow(h) \/ LockGroup(h) \/ RemoveRefused(h) \/ ConfirmStart(h)
    \/ PostNotice(h) \/ ResolveDests(h) \/ Stops(h)

LEMMA NotSendingKeepsGate ==
    ASSUME TypeOK, GateInv, NEW h \in Handlers, NotSending(h)
    PROVE  GateInv'
<1>1. UNCHANGED <<gate, heard>>
  BY DEF NotSending, Fire, ReadActive, ReadLifted, CheckBot, RereadActive, InsertRow,
         LockGroup, RemoveRefused, ConfirmStart, PostNotice, ResolveDests, Stops
<1>2. \/ UNCHANGED attempt /\ attempt[h].pc # "send"
      \/ Ends(h)
      \/ \E pc \in AttemptPcs \ {"send"} : GoTo(h, pc)
      \/ \E r \in Rows : attempt' = [attempt EXCEPT ![h].pc = "lock", ![h].rid = r]
      \/ \E to \in SUBSET dests :
           attempt' = [attempt EXCEPT ![h] = [Idle EXCEPT !.pc = "gate", !.to = to]]
  <2>1. CASE Fire(h) \/ ReadActive(h) \/ ReadLifted(h) \/ CheckBot(h) \/ RereadActive(h) \/ Stops(h)
    BY <2>1, ReadsInOrder
    DEF Fire, ReadActive, ReadLifted, CheckBot, RereadActive, Stops, At, AttemptPcs
  <2>2. CASE InsertRow(h) \/ LockGroup(h) \/ RemoveRefused(h) \/ ConfirmStart(h) \/ PostNotice(h)
    BY <2>2 DEF InsertRow, LockGroup, RemoveRefused, ConfirmStart, PostNotice, AttemptPcs
  <2>3. CASE ResolveDests(h)
    BY <2>3 DEF ResolveDests
  <2> QED
    BY <2>1, <2>2, <2>3 DEF NotSending
<1>3. CASE UNCHANGED attempt /\ attempt[h].pc # "send"
  BY <1>1, <1>3, OutsideGate
<1>4. CASE Ends(h)
  BY <1>1, <1>4, StopsAt, OutsideGate DEF Idle
<1>5. ASSUME NEW pc \in AttemptPcs \ {"send"}, GoTo(h, pc)
      PROVE  GateInv'
  BY <1>1, <1>5, Moves, PcMoves, OutsideGate
<1>6. ASSUME NEW r \in Rows, attempt' = [attempt EXCEPT ![h].pc = "lock", ![h].rid = r]
      PROVE  GateInv'
  <2>1. attempt'[h].pc = "lock" /\ \A k \in Handlers \ {h} : attempt'[k] = attempt[k]
    BY <1>6 DEF TypeOK, Attempt
  <2> QED
    BY <1>1, <2>1, OutsideGate
<1>7. ASSUME NEW to \in SUBSET dests,
             attempt' = [attempt EXCEPT ![h] = [Idle EXCEPT !.pc = "gate", !.to = to]]
      PROVE  GateInv'
  <2>1. [Idle EXCEPT !.pc = "gate", !.to = to].pc # "send"
    BY DEF Idle
  <2>2. attempt'[h].pc # "send" /\ \A k \in Handlers \ {h} : attempt'[k] = attempt[k]
    BY <1>7, <2>1 DEF TypeOK
  <2> QED
    BY <1>1, <2>2, OutsideGate
<1> QED
  BY <1>2, <1>3, <1>4, <1>5, <1>6, <1>7

LEMMA TakeGateKeepsGate ==
    ASSUME TypeOK, GateInv, NEW h \in Handlers, TakeGate(h),
           attempt[h].got = FALSE
    PROVE  GateInv'
<1>1. UNCHANGED heard
  BY DEF TakeGate
<1>2. CASE ~gate /\ gate' = TRUE /\ GoTo(h, "send")
  <2>1. \A k \in Handlers : attempt[k].pc # "send"
    BY <1>2 DEF GateInv
  <2>2. heard = 0
    BY <1>2 DEF GateInv, TypeOK
  <2>3. \A k \in Handlers \ {h} : attempt'[k] = attempt[k]
    BY <1>2, Moves DEF AttemptPcs
  <2>4. attempt'[h].got = FALSE
    BY <1>2 DEF GoTo, TypeOK, Attempt
  <2>5. \A k \in Handlers : attempt'[k].pc = "send" => k = h
    BY <2>1, <2>3
  <2>6. heard' = IF attempt'[h].got THEN 1 ELSE 0
    BY <1>1, <2>2, <2>4
  <2>7. ~(heard' > 0) /\ heard' <= 1
    BY <1>1, <2>2
  <2> QED
    BY <1>2, <2>5, <2>6, <2>7 DEF GateInv
<1>3. CASE Ends(h) /\ (gate => gate')
  <2>1. attempt'[h].pc # "send" /\ \A k \in Handlers \ {h} : attempt'[k] = attempt[k]
    BY <1>3, StopsAt DEF Idle
  <2> QED
    BY <1>1, <1>3, <2>1 DEF GateInv
<1>4. \/ ~gate /\ gate' = TRUE /\ GoTo(h, "send")
      \/ Ends(h) /\ gate' \in {gate, TRUE}
  BY DEF TakeGate
<1>5. gate' \in {gate, TRUE} => (gate => gate')
  OBVIOUS
<1> QED
  BY <1>2, <1>3, <1>4, <1>5

LEMMA SendKeepsGate ==
    ASSUME TypeOK, GateInv, NEW h \in Handlers, SendWarning(h)
    PROVE  GateInv'
<1>1. /\ attempt[h].pc = "send" /\ gate /\ gate'
      /\ heard = IF attempt[h].got THEN 1 ELSE 0
      /\ \A k \in Handlers \ {h} : attempt[k].pc # "send"
  BY DEF SendWarning, At, GateInv
<1>2. \A k \in Handlers \ {h} : attempt'[k] = attempt[k]
  BY DEF SendWarning, TypeOK
<1>3. \A k \in Handlers \ {h} : attempt'[k].pc # "send"
  BY <1>1, <1>2
<1>4. heard' = (IF attempt'[h].got THEN 1 ELSE 0)
  <2>1. CASE /\ \E d \in attempt[h].to :
                  attempt' = [attempt EXCEPT ![h].to = @ \ {d}, ![h].got = TRUE]
             /\ heard' = IF attempt[h].got THEN heard ELSE heard + 1
    <3>1. attempt'[h].got = TRUE
      BY <2>1 DEF TypeOK, Attempt
    <3> QED
      BY <1>1, <2>1, <3>1
  <2>2. CASE /\ \E d \in attempt[h].to : attempt' = [attempt EXCEPT ![h].to = @ \ {d}]
             /\ UNCHANGED heard
    <3>1. attempt'[h].got = attempt[h].got
      BY <2>2 DEF TypeOK, Attempt
    <3> QED
      BY <1>1, <2>2, <3>1
  <2> QED
    BY <2>1, <2>2 DEF SendWarning
<1>5. heard' <= 1
  BY <1>4
<1> QED
  BY <1>1, <1>3, <1>4, <1>5 DEF GateInv

LEMMA WarningEndKeepsGate ==
    ASSUME TypeOK, GateInv, NEW h \in Handlers, WarningEnds(h)
    PROVE  GateInv'
<1>1. /\ attempt[h].pc = "send" /\ UNCHANGED heard
      /\ heard = IF attempt[h].got THEN 1 ELSE 0
      /\ \A k \in Handlers \ {h} : attempt[k].pc # "send"
      /\ gate
  BY DEF WarningEnds, At, GateInv
<1>2. attempt'[h].pc # "send" /\ \A k \in Handlers \ {h} : attempt'[k] = attempt[k]
  BY StopsAt DEF WarningEnds, Idle
<1>3. \A k \in Handlers : attempt'[k].pc # "send"
  BY <1>1, <1>2
<1>4. heard' > 0 => gate'
  <2>1. CASE attempt[h].got
    BY <1>1, <2>1 DEF WarningEnds, KeepsGate
  <2>2. CASE ~attempt[h].got
    <3>1. heard' = 0
      BY <1>1, <2>2
    <3> QED
      BY <3>1
  <2> QED
    BY <2>1, <2>2
<1>5. heard' <= 1
  BY <1>1
<1> QED
  BY <1>3, <1>4, <1>5 DEF GateInv

LEMMA DayKeepsGate ==
    ASSUME GateInv, DayPasses
    PROVE  GateInv'
<1>1. \A h \in Handlers : attempt'[h].pc # "send"
  BY DEF DayPasses, At
<1>2. ~(heard' > 0) /\ heard' <= 1
  BY DEF DayPasses
<1> QED
  BY <1>1, <1>2 DEF GateInv

LEMMA NextKeepsGate ==
    ASSUME TypeOK, GateInv, Unheard, [Next]_vars
    PROVE  GateInv'
<1>1. ASSUME NEW h \in Handlers, Fire(h) \/ AttemptStep(h) \/ Stops(h)
      PROVE  GateInv'
  <2>1. CASE NotSending(h)
    BY <2>1, NotSendingKeepsGate
  <2>2. CASE TakeGate(h)
    BY <2>2, TakeGateKeepsGate DEF TakeGate, At, Unheard
  <2> QED
    BY <1>1, <2>1, <2>2, SendKeepsGate, WarningEndKeepsGate DEF AttemptStep, NotSending
<1>2. CASE UNCHANGED <<attempt, gate, heard>>
  BY <1>2 DEF GateInv
<1>3. CASE RaidComesAndGoes \/ GroupChanges \/ DestsAdded \/ LatchExpires \/ QuietEnds \/ AdminStarts
  BY <1>2, <1>3 DEF RaidComesAndGoes, GroupChanges, DestsAdded, LatchExpires, QuietEnds, AdminStarts
<1>4. ASSUME NEW r \in Rows, AdminLifts(r) \/ Settle(r)
      PROVE  GateInv'
  BY <1>2, <1>4 DEF AdminLifts, Settle
<1> QED
  BY <1>1, <1>2, <1>3, <1>4, DayKeepsGate DEF Next, vars

\* Only ResolveDests leads to the gate, with a fresh record.
LEMMA StepKeepsUnheard ==
    ASSUME TypeOK, Unheard, NEW h \in Handlers, Fire(h) \/ AttemptStep(h) \/ Stops(h)
    PROVE  Unheard'
<1>1. \/ UNCHANGED attempt
      \/ Ends(h)
      \/ \E pc \in AttemptPcs \ {"gate"} : GoTo(h, pc)
      \/ \E r \in Rows : attempt' = [attempt EXCEPT ![h].pc = "lock", ![h].rid = r]
      \/ \E to \in SUBSET dests :
           attempt' = [attempt EXCEPT ![h] = [Idle EXCEPT !.pc = "gate", !.to = to]]
      \/ SendWarning(h)
  <2>1. CASE Fire(h) \/ ReadActive(h) \/ ReadLifted(h) \/ CheckBot(h) \/ RereadActive(h) \/ Stops(h)
    BY <2>1, ReadsInOrder
    DEF Fire, ReadActive, ReadLifted, CheckBot, RereadActive, Stops, AttemptPcs
  <2>2. CASE InsertRow(h) \/ LockGroup(h) \/ RemoveRefused(h) \/ ConfirmStart(h) \/ PostNotice(h)
    BY <2>2 DEF InsertRow, LockGroup, RemoveRefused, ConfirmStart, PostNotice, AttemptPcs
  <2>3. CASE ResolveDests(h) \/ TakeGate(h) \/ WarningEnds(h)
    BY <2>3 DEF ResolveDests, TakeGate, WarningEnds, AttemptPcs
  <2> QED
    BY <2>1, <2>2, <2>3 DEF AttemptStep
<1>2. ASSUME \A k \in Handlers \ {h} : attempt'[k] = attempt[k],
             attempt'[h].pc # "gate" \/ attempt'[h].got = FALSE
      PROVE  Unheard'
  BY <1>2 DEF Unheard
<1>3. CASE Ends(h)
  <2>1. attempt'[h].pc # "gate" /\ \A k \in Handlers \ {h} : attempt'[k] = attempt[k]
    BY <1>3, StopsAt DEF Idle
  <2> QED
    BY <1>2, <2>1
<1>4. ASSUME NEW pc \in AttemptPcs \ {"gate"}, GoTo(h, pc)
      PROVE  Unheard'
  BY <1>2, <1>4, Moves, PcMoves
<1>5. ASSUME NEW r \in Rows, attempt' = [attempt EXCEPT ![h].pc = "lock", ![h].rid = r]
      PROVE  Unheard'
  <2>1. attempt'[h].pc = "lock" /\ \A k \in Handlers \ {h} : attempt'[k] = attempt[k]
    BY <1>5 DEF TypeOK, Attempt
  <2> QED
    BY <1>2, <2>1
<1>6. ASSUME NEW to \in SUBSET dests,
             attempt' = [attempt EXCEPT ![h] = [Idle EXCEPT !.pc = "gate", !.to = to]]
      PROVE  Unheard'
  <2>1. [Idle EXCEPT !.pc = "gate", !.to = to].got = FALSE
    BY DEF Idle
  <2>2. attempt'[h].got = FALSE /\ \A k \in Handlers \ {h} : attempt'[k] = attempt[k]
    BY <1>6, <2>1 DEF TypeOK
  <2> QED
    BY <1>2, <2>2
<1>7. CASE SendWarning(h)
  <2>1. attempt'[h].pc = "send" /\ \A k \in Handlers \ {h} : attempt'[k] = attempt[k]
    BY <1>7 DEF SendWarning, At, TypeOK, Attempt
  <2> QED
    BY <1>2, <2>1
<1>8. CASE UNCHANGED attempt
  BY <1>8 DEF Unheard
<1> QED
  BY <1>1, <1>3, <1>4, <1>5, <1>6, <1>7, <1>8

LEMMA NextKeepsUnheard ==
    ASSUME TypeOK, Unheard, [Next]_vars
    PROVE  Unheard'
<1>1. CASE UNCHANGED attempt
  BY <1>1 DEF Unheard
<1> QED
  BY <1>1, StepKeepsUnheard
  DEF Next, vars, AdminLifts, Settle, AdminStarts, RaidComesAndGoes, GroupChanges, DestsAdded,
      LatchExpires, QuietEnds, DayPasses

-----------------------------------------------------------------------------
Past == {"check", "insert"}

\* Nobody gets past the reads while the group is quiet.
LEMMA ReadsMindQuiet ==
    ASSUME TypeOK, NEW h \in Handlers, Fire(h) \/ AttemptStep(h) \/ Stops(h), quiet
    PROVE  /\ UNCHANGED quiet
           /\ \A k \in Handlers : attempt'[k].pc \in Past => attempt[k].pc \in Past
<1>1. UNCHANGED quiet
  BY DEF AttemptStep, Fire, ReadActive, ReadLifted, CheckBot, RereadActive, Stops, InsertRow,
         LockGroup, RemoveRefused, ConfirmStart, PostNotice, ResolveDests, TakeGate, SendWarning,
         WarningEnds
<1>2. \/ UNCHANGED attempt
      \/ Ends(h)
      \/ \E pc \in AttemptPcs \ Past : GoTo(h, pc)
      \/ GoTo(h, "insert") /\ attempt[h].pc \in Past
      \/ \E r \in Rows : attempt' = [attempt EXCEPT ![h].pc = "lock", ![h].rid = r]
      \/ \E to \in SUBSET dests :
           attempt' = [attempt EXCEPT ![h] = [Idle EXCEPT !.pc = "gate", !.to = to]]
      \/ SendWarning(h)
  <2>1. CASE Fire(h) \/ ReadActive(h) \/ ReadLifted(h) \/ CheckBot(h) \/ RereadActive(h) \/ Stops(h)
    BY <2>1, ReadsInOrder
    DEF Fire, ReadActive, ReadLifted, CheckBot, RereadActive, Stops, At, AttemptPcs, Past
  <2>2. CASE InsertRow(h) \/ LockGroup(h) \/ RemoveRefused(h) \/ ConfirmStart(h) \/ PostNotice(h)
    BY <2>2 DEF InsertRow, LockGroup, RemoveRefused, ConfirmStart, PostNotice, AttemptPcs, Past
  <2>3. CASE ResolveDests(h) \/ TakeGate(h) \/ WarningEnds(h)
    BY <2>3 DEF ResolveDests, TakeGate, WarningEnds, AttemptPcs, Past
  <2> QED
    BY <2>1, <2>2, <2>3 DEF AttemptStep
<1>3. ASSUME \A k \in Handlers \ {h} : attempt'[k] = attempt[k],
             attempt'[h].pc \in Past => attempt[h].pc \in Past
      PROVE  \A k \in Handlers : attempt'[k].pc \in Past => attempt[k].pc \in Past
  BY <1>3
<1>4. CASE Ends(h)
  BY <1>1, <1>3, <1>4, StopsAt DEF Idle, Past
<1>5. ASSUME NEW pc \in AttemptPcs, GoTo(h, pc), pc \in Past => attempt[h].pc \in Past
      PROVE  \A k \in Handlers : attempt'[k].pc \in Past => attempt[k].pc \in Past
  BY <1>3, <1>5, Moves, PcMoves
<1>6. ASSUME NEW r \in Rows, attempt' = [attempt EXCEPT ![h].pc = "lock", ![h].rid = r]
      PROVE  \A k \in Handlers : attempt'[k].pc \in Past => attempt[k].pc \in Past
  <2>1. attempt'[h].pc = "lock" /\ \A k \in Handlers \ {h} : attempt'[k] = attempt[k]
    BY <1>6 DEF TypeOK, Attempt
  <2> QED
    BY <1>3, <2>1 DEF Past
<1>7. ASSUME NEW to \in SUBSET dests,
             attempt' = [attempt EXCEPT ![h] = [Idle EXCEPT !.pc = "gate", !.to = to]]
      PROVE  \A k \in Handlers : attempt'[k].pc \in Past => attempt[k].pc \in Past
  <2>1. [Idle EXCEPT !.pc = "gate", !.to = to].pc \notin Past
    BY DEF Idle, Past
  <2>2. attempt'[h].pc \notin Past /\ \A k \in Handlers \ {h} : attempt'[k] = attempt[k]
    BY <1>7, <2>1 DEF TypeOK
  <2> QED
    BY <1>3, <2>2
<1>8. CASE SendWarning(h)
  <2>1. attempt'[h].pc = "send" /\ \A k \in Handlers \ {h} : attempt'[k] = attempt[k]
    BY <1>8 DEF SendWarning, At, TypeOK, Attempt
  <2> QED
    BY <1>1, <1>3, <2>1 DEF Past
<1>9. "insert" \in AttemptPcs
  BY DEF AttemptPcs
<1> QED
  BY <1>1, <1>2, <1>4, <1>5, <1>6, <1>7, <1>8, <1>9

LEMMA NextKeepsQuiet ==
    ASSUME TypeOK, QuietInv, [Next]_vars
    PROVE  QuietInv'
<1> SUFFICES ASSUME "quick lift" \notin Hazards, quiet'
             PROVE  \A h \in Handlers : attempt'[h].pc \notin Past
  BY DEF QuietInv, Past
<1>1. ASSUME NEW h \in Handlers, Fire(h) \/ AttemptStep(h) \/ Stops(h)
      PROVE  \A k \in Handlers : attempt'[k].pc \notin Past
  <2>1. UNCHANGED quiet
    BY <1>1 DEF AttemptStep, Fire, ReadActive, ReadLifted, CheckBot, RereadActive, Stops,
       InsertRow, LockGroup, RemoveRefused, ConfirmStart, PostNotice, ResolveDests, TakeGate,
       SendWarning, WarningEnds
  <2>2. \A k \in Handlers : attempt[k].pc \notin Past
    BY <2>1 DEF QuietInv, Past
  <2> QED
    BY <1>1, <2>1, <2>2, ReadsMindQuiet
<1>2. ASSUME NEW r \in Rows, AdminLifts(r)
      PROVE  \A h \in Handlers : attempt'[h].pc \notin Past
  BY <1>2 DEF AdminLifts, LiftsItsStart, Past
<1>3. CASE UNCHANGED attempt /\ (quiet' => quiet)
  BY <1>3 DEF QuietInv, Past
<1>4. ASSUME NEW r \in Rows, Settle(r)
      PROVE  UNCHANGED attempt /\ (quiet' => quiet)
  BY <1>4 DEF Settle
<1>5. CASE \/ AdminStarts \/ RaidComesAndGoes \/ GroupChanges \/ DestsAdded
           \/ LatchExpires \/ QuietEnds \/ DayPasses
  BY <1>3, <1>5 DEF AdminStarts, RaidComesAndGoes, GroupChanges, DestsAdded, LatchExpires,
                    QuietEnds, DayPasses
<1> QED
  BY <1>1, <1>2, <1>3, <1>4, <1>5 DEF Next, vars

\* Every part of the invariant, kept by every step.
LEMMA Invariance == Spec => []IInv
<1>1. IInv /\ [Next]_vars => IInv'
  BY NextTyped, NextKeepsNotices, NextKeepsGate, NextKeepsUnheard, NextKeepsQuiet
  DEF IInv, NoticeInv
<1> QED
  BY <1>1, InitIInv, PTL DEF Spec

-----------------------------------------------------------------------------
\* raidFire and what it meets keep every variable's type, whoever fires.
THEOREM TypeCorrect == Spec => []TypeOK
<1>1. IInv => TypeOK
  BY DEF IInv
<1> QED
  BY <1>1, Invariance, PTL

\* However many triggers fire, raidPostNotice announces a lockdown once at most,
\* and never one an administrator started: a handler that posts owns its row.
THEOREM OneNotice == Spec => []NoticeOncePerLockdown
<1>1. IInv => NoticeOncePerLockdown
  BY DEF IInv, NoticeInv
<1> QED
  BY <1>1, Invariance, PTL

\* raidWarnCannotLock warns once a day, for any handlers and destinations: the
\* one that sends has the gate alone and gives it back only when nobody heard.
THEOREM OneWarningADay == Spec => []WarnOnceADay
<1>1. IInv => WarnOnceADay
  BY DEF IInv, GateInv, WarnOnceADay
<1> QED
  BY <1>1, Invariance, PTL

\* A row goes from nothing to unconfirmed only in the insert of an attempt.
LEMMA OnlyInsertsStart ==
    ASSUME IInv, Next, NEW r \in Rows,
           rows[r].state = "none", rows'[r].state = "unconfirmed"
    PROVE  \E h \in Handlers : attempt[h].pc = "insert"
<1> USE DEF IInv, TypeOK, RaidRow
<1>1. ~UNCHANGED rows
  OBVIOUS
<1>2. \A q \in Rows : ~ConfirmLocked(q) /\ ~DeleteUnconfirmed(q)
  BY DEF ConfirmLocked, DeleteUnconfirmed
<1>3. \A h \in Handlers : ~LockGroup(h) /\ ~RemoveRefused(h) /\ ~ConfirmStart(h) /\ ~PostNotice(h)
  <2>1. ASSUME NEW h \in Handlers, LockGroup(h) \/ RemoveRefused(h) \/ ConfirmStart(h) \/ PostNotice(h)
        PROVE  FALSE
    <3>1. attempt[h].rid \in Rows
      BY <2>1 DEF LockGroup, RemoveRefused, ConfirmStart, PostNotice, At, NoticeInv, RowsOwned, Started
    <3> QED
      BY <1>1, <1>2, <2>1, <3>1 DEF LockGroup, RemoveRefused, ConfirmStart, PostNotice
  <2> QED
    BY <2>1
<1>4. \A q \in Rows : ~AdminLifts(q) /\ ~Settle(q)
  BY <1>2 DEF AdminLifts, Settle
<1>5. ~AdminStarts
  BY DEF AdminStarts, NoRow
<1>6. PICK h \in Handlers : Fire(h) \/ AttemptStep(h) \/ Stops(h)
  BY <1>1, <1>4, <1>5
  DEF Next, RaidComesAndGoes, GroupChanges, DestsAdded, LatchExpires, QuietEnds, DayPasses
<1>7. InsertRow(h)
  BY <1>1, <1>3, <1>6
  DEF AttemptStep, Fire, ReadActive, ReadLifted, CheckBot, RereadActive, ResolveDests, TakeGate,
      SendWarning, WarningEnds, Stops
<1> QED
  BY <1>7 DEF InsertRow, At

\* Unless an administrator starts and lifts a lockdown inside one start, raidFire
\* starts none in the quiet time after a lift: the active row, then the lifts.
THEOREM NoStartWhileQuiet == "quick lift" \notin Hazards => (Spec => QuietAfterLift)
<1> SUFFICES ASSUME "quick lift" \notin Hazards
             PROVE  Spec => QuietAfterLift
  OBVIOUS
<1> DEFINE Step == \A r \in Rows : rows[r].state = "none" /\ rows'[r].state = "unconfirmed" => ~quiet
<1>1. IInv /\ [Next]_vars => [Step]_vars
  <2> SUFFICES ASSUME IInv, Next, NEW r \in Rows,
                      rows[r].state = "none", rows'[r].state = "unconfirmed"
               PROVE  ~quiet
    BY DEF vars
  <2>1. PICK h \in Handlers : attempt[h].pc = "insert"
    BY OnlyInsertsStart
  <2> QED
    BY <2>1 DEF IInv, QuietInv
<1> QED
  BY <1>1, Invariance, PTL DEF Spec, QuietAfterLift
=============================================================================

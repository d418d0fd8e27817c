----------------------- MODULE LockdownJoiners_proofs -----------------------
(***************************************************************************)
(* The types of LockdownJoiners, for any people, workers, updates and      *)
(* faults, and what each step of it comes to, for the proofs that build on *)
(* this one.                                                               *)
(***************************************************************************)
EXTENDS LockdownJoiners, TLAPS

-----------------------------------------------------------------------------
\* Types: a joiner row, an update and a worker.
Update == [pc : GuardPcs, user : Users, path : Paths, by : {"self", "admin"},
           seen : JoinerRow \cup {NoRow}, looks : 0..(MaxLooks - 1)]

Worker == [pc : WorkerPcs, batch : [Users -> JoinerRow \cup {NoRow}],
           on : SUBSET Users, res : Outcomes]

LEMMA FaultsTyped == TypeOK /\ (Fault \/ NoFault) => faults' \in 0..MaxFaults
BY BoundsAssumption DEF TypeOK, Fault, NoFault

LEMMA InStateTyped ==
    ASSUME NEW row \in JoinerRow, NEW state \in JoinerStates
    PROVE  InState(row, state) \in JoinerRow
BY DEF InState, JoinerRow

\* A row in any state of the table is a row, not the lack of one.
LEMMA StateMakesRow ==
    ASSUME TypeOK, NEW u \in Users, rows[u].state \in JoinerStates
    PROVE  rows[u] \in JoinerRow /\ rows[u] # NoRow
<1>1. "none" \notin JoinerStates
  BY DEF JoinerStates, ReclaimStates, UnfinishedStates
<1>2. rows[u] # NoRow
  BY <1>1 DEF NoRow
<1> QED
  BY <1>2 DEF TypeOK

LEMMA UpdatesAreDates ==
    /\ \A d \in Updates : d \in Nat /\ d # 0 /\ d \in Dates
    /\ 0 \in Dates
BY BoundsAssumption DEF Updates, Dates

LEMMA RowOfTyped ==
    ASSUME TypeOK, NEW d \in Updates
    PROVE  /\ RowOf(d) \in JoinerRow
           /\ \A id \in Updates : [RowOf(d) EXCEPT !.id = id] \in JoinerRow
<1>1. guard[d].path \in Paths
  BY DEF TypeOK
<1>2. (IF Exempt(d) THEN "exempt" ELSE "pending") \in JoinerStates
  BY DEF JoinerStates, ReclaimStates, UnfinishedStates
<1>3. (IF Exempt(d) \/ guard[d].path = "request" THEN 0 ELSE d) \in Dates
  BY UpdatesAreDates
<1> QED
  BY <1>1, <1>2, <1>3 DEF RowOf, JoinerRow

-----------------------------------------------------------------------------
\* What moves a handler of an update, a worker, a row.

LEMMA ShapesOfType ==
    TypeOK => /\ guard \in [Updates -> Update]
              /\ worker \in [Workers -> Worker]
BY DEF TypeOK, Update, Worker

LEMMA GuardGoesTyped ==
    ASSUME TypeOK, NEW d \in Updates,
           GuardEnds(d) \/ \E pc \in GuardPcs : GuardGoes(d, pc)
    PROVE  guard' \in [Updates -> Update]
<1>1. guard \in [Updates -> Update] /\ guard[d] \in Update
  BY ShapesOfType
<1>2. CASE GuardEnds(d)
  <2>1. [guard[d] EXCEPT !.pc = "done", !.seen = NoRow, !.looks = 0] \in Update
    <3>1. "done" \in GuardPcs /\ 0 \in 0..(MaxLooks - 1) /\ NoRow \in JoinerRow \cup {NoRow}
      BY DEF GuardPcs, MaxLooks
    <3> QED
      BY <1>1, <3>1 DEF Update
  <2>2. guard' = [guard EXCEPT ![d] = [guard[d] EXCEPT !.pc = "done", !.seen = NoRow, !.looks = 0]]
    BY <1>1, <1>2 DEF GuardEnds
  <2> QED
    BY <1>1, <2>1, <2>2
<1>3. CASE \E pc \in GuardPcs : GuardGoes(d, pc)
  <2>1. PICK pc \in GuardPcs : GuardGoes(d, pc)
    BY <1>3
  <2>2. [guard[d] EXCEPT !.pc = pc] \in Update
    BY <1>1 DEF Update
  <2> QED
    BY <1>1, <2>1, <2>2 DEF GuardGoes
<1> QED
  BY <1>2, <1>3

LEMMA WorkerGoesTyped ==
    ASSUME TypeOK, NEW w \in Workers,
           \/ \E pc \in WorkerPcs : WorkerGoes(w, pc)
           \/ \E pc \in WorkerPcs : \E res \in Outcomes : Ends(w, pc, res)
           \/ \E u \in Users : \E pc, next \in WorkerPcs : TakeOff(w, u, pc, next)
    PROVE  worker' \in [Workers -> Worker]
<1>1. worker \in [Workers -> Worker] /\ worker[w] \in Worker
  BY ShapesOfType
<1>2. CASE \E pc \in WorkerPcs : WorkerGoes(w, pc)
  <2>1. PICK pc \in WorkerPcs : WorkerGoes(w, pc)
    BY <1>2
  <2>2. [worker[w] EXCEPT !.pc = pc] \in Worker
    BY <1>1 DEF Worker
  <2> QED
    BY <1>1, <2>1, <2>2 DEF WorkerGoes
<1>3. CASE \E pc \in WorkerPcs : \E res \in Outcomes : Ends(w, pc, res)
  <2>1. PICK pc \in WorkerPcs, res \in Outcomes : Ends(w, pc, res)
    BY <1>3
  <2>2. [worker[w] EXCEPT !.pc = pc, !.res = res] \in Worker
    BY <1>1 DEF Worker
  <2>3. worker' = [worker EXCEPT ![w] = [worker[w] EXCEPT !.pc = pc, !.res = res]]
    BY <1>1, <2>1 DEF Ends
  <2> QED
    BY <1>1, <2>2, <2>3
<1>4. CASE \E u \in Users : \E pc, next \in WorkerPcs : TakeOff(w, u, pc, next)
  <2>1. PICK u \in Users, pc \in WorkerPcs, next \in WorkerPcs : TakeOff(w, u, pc, next)
    BY <1>4
  <2> DEFINE goes == IF BatchOf(w) = {u} THEN next ELSE pc
             left == [worker[w].batch EXCEPT ![u] = NoRow]
  <2>2. goes \in WorkerPcs /\ left \in [Users -> JoinerRow \cup {NoRow}]
    BY <1>1 DEF Worker
  <2>3. worker' = [worker EXCEPT ![w] =
                     [worker[w] EXCEPT !.pc = goes, !.batch = left, !.on = {}, !.res = "done"]]
    BY <1>1, <2>1 DEF TakeOff, Worker
  <2> HIDE DEF goes, left
  <2>4. [worker[w] EXCEPT !.pc = goes, !.batch = left, !.on = {}, !.res = "done"] \in Worker
    BY <1>1, <2>2 DEF Worker, Outcomes
  <2> QED
    BY <1>1, <2>3, <2>4
<1> QED
  BY <1>2, <1>3, <1>4

LEMMA ListTyped ==
    ASSUME TypeOK, NEW w \in Workers, NEW state \in JoinerStates,
           NEW pc \in WorkerPcs, NEW next \in WorkerPcs, ListInState(w, state, pc, next)
    PROVE  worker' \in [Workers -> Worker]
<1> DEFINE listed == [u \in Users |-> IF rows[u].state = state
                                      THEN [rows[u] EXCEPT !.fresh = FALSE] ELSE NoRow]
<1>1. ASSUME NEW u \in Users, rows[u].state = state
      PROVE  [rows[u] EXCEPT !.fresh = FALSE] \in JoinerRow
  <2>1. rows[u] \in JoinerRow
    BY <1>1, StateMakesRow
  <2> QED
    BY <2>1 DEF JoinerRow
<1>2. listed \in [Users -> JoinerRow \cup {NoRow}]
  BY <1>1
<1>3. worker' = [worker EXCEPT ![w].pc = IF listed = NoBatch THEN next ELSE pc,
                               ![w].batch = listed]
  BY DEF ListInState
<1> DEFINE goes == IF listed = NoBatch THEN next ELSE pc
<1>4. goes \in WorkerPcs
  OBVIOUS
<1>5. worker \in [Workers -> Worker] /\ worker[w] \in Worker
  BY ShapesOfType
<1>6. worker' = [worker EXCEPT ![w] = [worker[w] EXCEPT !.pc = goes, !.batch = listed]]
  BY <1>3, <1>5
<1> HIDE DEF listed, goes
<1>7. [worker[w] EXCEPT !.pc = goes, !.batch = listed] \in Worker
  BY <1>2, <1>4, <1>5 DEF Worker
<1> QED
  BY <1>5, <1>6, <1>7

LEMMA ClaimTyped ==
    ASSUME TypeOK, NEW w \in Workers, NEW u \in Users,
           NEW from \in JoinerStates, NEW to \in JoinerStates,
           NEW pc \in WorkerPcs, NEW next \in WorkerPcs,
           ClaimJoiner(w, u, from, to, pc, next)
    PROVE  /\ worker' \in [Workers -> Worker]
           /\ rows' \in [Users -> JoinerRow \cup {NoRow}]
           /\ Fault \/ NoFault
<1>1. CASE /\ Matches(u, worker[w].batch[u].id, {from}) /\ NoFault
           /\ rows' = [rows EXCEPT ![u] = InState(@, to)]
           /\ worker' = [worker EXCEPT ![w].pc = pc, ![w].on = {u}]
  <2>1. rows[u] \in JoinerRow
    BY <1>1, StateMakesRow DEF Matches
  <2>2. InState(rows[u], to) \in JoinerRow
    BY <2>1, InStateTyped
  <2>3. worker \in [Workers -> Worker] /\ worker[w] \in Worker
    BY ShapesOfType
  <2>4. [worker[w] EXCEPT !.pc = pc, !.on = {u}] \in Worker
    BY <2>3 DEF Worker
  <2>5. worker' = [worker EXCEPT ![w] = [worker[w] EXCEPT !.pc = pc, !.on = {u}]]
    BY <1>1, <2>3
  <2> QED
    BY <1>1, <2>2, <2>3, <2>4, <2>5 DEF TypeOK
<1>2. CASE /\ Fault \/ NoFault
           /\ TakeOff(w, u, worker[w].pc, next) /\ UNCHANGED rows
  <2>1. worker[w].pc \in WorkerPcs
    BY DEF TypeOK
  <2> QED
    BY <1>2, <2>1, WorkerGoesTyped DEF TypeOK
<1> QED
  BY <1>1, <1>2 DEF ClaimJoiner

LEMMA MoveTyped ==
    ASSUME TypeOK, NEW u \in Users, NEW id, NEW from \in JoinerStates,
           NEW to \in JoinerStates, NEW count \in BOOLEAN,
           MoveJoiner(u, id, from, to, count)
    PROVE  rows' \in [Users -> JoinerRow \cup {NoRow}]
<1>1. CASE ~Matches(u, id, {from})
  BY <1>1 DEF MoveJoiner, TypeOK
<1>2. CASE Matches(u, id, {from})
  <2>1. rows \in [Users -> JoinerRow \cup {NoRow}] /\ rows[u] \in JoinerRow
    BY <1>2, StateMakesRow DEF Matches, TypeOK
  <2>2. InState(rows[u], to) \in JoinerRow
    BY <2>1, InStateTyped
  <2> DEFINE n == IF from = "acting" /\ to = "banned" THEN 0
                  ELSE rows[u].attempts + (IF count THEN 1 ELSE 0)
  <2>3. n \in Nat
    BY <2>1 DEF JoinerRow
  <2>4. rows' = [rows EXCEPT ![u] = [InState(rows[u], to) EXCEPT !.attempts = n]]
    BY <1>2 DEF MoveJoiner
  <2> HIDE DEF n
  <2>5. [InState(rows[u], to) EXCEPT !.attempts = n] \in JoinerRow
    BY <2>2, <2>3 DEF JoinerRow
  <2> QED
    BY <2>1, <2>4, <2>5
<1> QED
  BY <1>1, <1>2

-----------------------------------------------------------------------------
LEMMA InitTyped == Init => TypeOK
<1> SUFFICES ASSUME Init
             PROVE  TypeOK
  OBVIOUS
<1>1. NoRow \in JoinerRow \cup {NoRow} /\ NoBatch \in [Users -> JoinerRow \cup {NoRow}]
  BY DEF NoBatch
<1>2. Idle \in Worker
  BY <1>1 DEF Idle, Worker, WorkerPcs, Outcomes
<1>3. worker \in [Workers -> Worker]
  BY <1>2 DEF Init, InitWith
<1>4. guard \in [Updates -> Update]
  <2>1. PICK u \in Users : guard = [d \in Updates |-> [Sent(u, "member", "self") EXCEPT !.pc = "unsent"]]
    BY DEF Init, InitWith
  <2>2. [Sent(u, "member", "self") EXCEPT !.pc = "unsent"] \in Update
    BY DEF Sent, Update, GuardPcs, Paths, MaxLooks
  <2> QED
    BY <2>1, <2>2
<1>5. tg \in [Users -> {Left, Asking, Member} \cup {Kicked(t) : t \in Dates}]
  BY DEF Init, InitWith
<1>6. ld = "active" /\ rows = [u \in Users |-> NoRow] /\ faults \in 0..MaxFaults
  BY BoundsAssumption DEF Init, InitWith
<1> QED
  BY <1>1, <1>3, <1>4, <1>5, <1>6 DEF TypeOK, Update, Worker

\* The types, put together from what a step did to each variable.
LEMMA TypesTogether ==
    ASSUME TypeOK, Fault \/ NoFault,
           ld' \in {"active", "lifting", "lifted"},
           tg' \in [Users -> {Left, Asking, Member} \cup {Kicked(t) : t \in Dates}],
           rows' \in [Users -> JoinerRow \cup {NoRow}],
           guard' \in [Updates -> Update],
           worker' \in [Workers -> Worker]
    PROVE  TypeOK'
BY FaultsTyped DEF TypeOK, Update, Worker

\* One row is written, with a row or with the lack of one.
LEMMA RowWritten ==
    ASSUME TypeOK, NEW u \in Users, NEW row \in JoinerRow \cup {NoRow},
           rows' = [rows EXCEPT ![u] = row]
    PROVE  rows' \in [Users -> JoinerRow \cup {NoRow}]
BY DEF TypeOK

LEMMA RecordJoinTyped ==
    ASSUME TypeOK, NEW d \in Updates, RecordJoin(d)
    PROVE  TypeOK'
<1> DEFINE u == guard[d].user
<1>1. guard \in [Updates -> Update] /\ guard[d] \in Update /\ u \in Users
  BY ShapesOfType DEF Update
<1>2. CASE GuardEnds(d) /\ UNCHANGED rows /\ Fault
  BY <1>2, GuardGoesTyped, ShapesOfType, TypesTogether DEF RecordJoin, TypeOK
<1>3. CASE /\ NoFault
           /\ rows' = [rows EXCEPT ![u] = RowOf(d)]
           /\ IF Exempt(d) THEN GuardEnds(d)
              ELSE guard' = [guard EXCEPT ![d].pc = "recheck", ![d].seen = NoRow]
  <2>1. rows' \in [Users -> JoinerRow \cup {NoRow}]
    BY <1>1, <1>3, RowOfTyped, RowWritten
  <2>2. [guard[d] EXCEPT !.pc = "recheck", !.seen = NoRow] \in Update
    BY <1>1 DEF Update, GuardPcs
  <2>3. guard' \in [Updates -> Update]
    BY <1>1, <1>3, <2>2, GuardGoesTyped
  <2> QED
    BY <1>3, <2>1, <2>3, ShapesOfType, TypesTogether DEF RecordJoin, TypeOK
<1>4. CASE /\ rows[u] # NoRow /\ NoFault
           /\ guard' = [guard EXCEPT ![d].pc = "existing", ![d].seen = rows[u]]
           /\ UNCHANGED rows
  <2>1. rows[u] \in JoinerRow \cup {NoRow}
    BY <1>1 DEF TypeOK
  <2>2. [guard[d] EXCEPT !.pc = "existing", !.seen = rows[u]] \in Update
    BY <1>1, <2>1 DEF Update, GuardPcs
  <2>3. guard' \in [Updates -> Update]
    BY <1>1, <1>4, <2>2
  <2> QED
    BY <1>4, <2>3, ShapesOfType, TypesTogether DEF RecordJoin, TypeOK
<1> QED
  BY <1>2, <1>3, <1>4 DEF RecordJoin

LEMMA ReclaimTyped ==
    ASSUME TypeOK, NEW d \in Updates, TakesBack(d), ReclaimJoin(d)
    PROVE  /\ rows' \in [Users -> JoinerRow \cup {NoRow}]
           /\ guard' \in [Updates -> Update]
<1> DEFINE u == guard[d].user
<1>1. guard \in [Updates -> Update] /\ guard[d] \in Update /\ u \in Users
  BY ShapesOfType DEF Update
<1>2. guard[d].seen.id \in Updates
  <2>1. guard[d].seen # NoRow
    BY DEF TakesBack, NoRow, ReclaimStates
  <2>2. guard[d].seen \in JoinerRow
    BY <1>1, <2>1 DEF Update
  <2> QED
    BY <2>2 DEF JoinerRow
<1>3. CASE /\ rows' = [rows EXCEPT ![u] = [RowOf(d) EXCEPT !.id = guard[d].seen.id]]
           /\ IF Exempt(d) THEN GuardEnds(d) ELSE GuardGoes(d, "recheck")
  <2>1. "recheck" \in GuardPcs
    BY DEF GuardPcs
  <2> QED
    BY <1>1, <1>2, <1>3, <2>1, RowOfTyped, RowWritten, GuardGoesTyped
<1>4. CASE /\ IF guard[d].looks = MaxLooks - 1 THEN GuardEnds(d)
              ELSE guard' = [guard EXCEPT ![d].pc = "record", ![d].looks = @ + 1]
           /\ UNCHANGED rows
  <2>1. ASSUME guard[d].looks # MaxLooks - 1
        PROVE  [guard[d] EXCEPT !.pc = "record", !.looks = guard[d].looks + 1] \in Update
    <3>1. guard[d].looks \in 0..2 /\ guard[d].looks # 2
      BY <1>1, <2>1 DEF Update, MaxLooks
    <3>2. guard[d].looks + 1 \in 0..(MaxLooks - 1)
      BY <3>1 DEF MaxLooks
    <3> HIDE DEF u
    <3> QED
      BY <1>1, <3>2 DEF Update, GuardPcs
  <2>2. guard' \in [Updates -> Update]
    <3>1. CASE guard[d].looks = MaxLooks - 1
      BY <1>4, <3>1, GuardGoesTyped
    <3>2. CASE guard[d].looks # MaxLooks - 1
      <4>1. guard' = [guard EXCEPT ![d] = [guard[d] EXCEPT !.pc = "record", !.looks = guard[d].looks + 1]]
        BY <1>1, <1>4, <3>2 DEF Update
      <4> QED
        BY <1>1, <2>1, <3>2, <4>1
    <3> QED
      BY <3>1, <3>2
  <2> QED
    BY <1>4, <2>2 DEF TypeOK
<1> QED
  BY <1>3, <1>4 DEF ReclaimJoin

LEMMA ExistingJoinTyped ==
    ASSUME TypeOK, NEW d \in Updates, ExistingJoin(d)
    PROVE  TypeOK'
<1>1. guard[d].user \in Users
  BY DEF TypeOK
<1>2. rows' \in [Users -> JoinerRow \cup {NoRow}] /\ guard' \in [Updates -> Update]
  <2>1. CASE TakesBack(d) /\ ReclaimJoin(d)
    BY <2>1, ReclaimTyped
  <2>2. CASE GuardEnds(d) /\ MoveJoiner(guard[d].user, guard[d].seen.id, "pending", "exempt", FALSE)
    BY <1>1, <2>2, MoveTyped, GuardGoesTyped DEF JoinerStates, ReclaimStates, UnfinishedStates
  <2>3. CASE GuardEnds(d) /\ UNCHANGED rows
    BY <2>3, GuardGoesTyped DEF TypeOK
  <2> QED
    BY <2>1, <2>2, <2>3 DEF ExistingJoin
<1> QED
  BY <1>2, ShapesOfType, TypesTogether DEF ExistingJoin, TypeOK

LEMMA WithdrawTyped ==
    ASSUME TypeOK, NEW d \in Updates, Withdraw(d)
    PROVE  TypeOK'
<1>1. guard[d].user \in Users
  BY DEF TypeOK
<1>2. rows' \in [Users -> JoinerRow \cup {NoRow}]
  <2>1. CASE DeletePendingJoin(guard[d].user, d)
    BY <1>1, <2>1, RowWritten DEF DeletePendingJoin, TypeOK
  <2>2. CASE MoveJoiner(guard[d].user, guard[d].seen.id, "pending", "cancelled", FALSE)
    BY <1>1, <2>2, MoveTyped DEF JoinerStates, ReclaimStates, UnfinishedStates
  <2>3. CASE UNCHANGED rows
    BY <2>3 DEF TypeOK
  <2> QED
    BY <2>1, <2>2, <2>3 DEF Withdraw
<1>3. guard' \in [Updates -> Update] /\ (Fault \/ NoFault) /\ UNCHANGED <<ld, tg, worker>>
  BY GuardGoesTyped DEF Withdraw
<1> QED
  BY <1>2, <1>3, ShapesOfType, TypesTogether DEF TypeOK

LEMMA GuardTyped ==
    ASSUME TypeOK, NEW d \in Updates, GuardStep(d) \/ GuardStops(d) \/ Redelivered(d)
    PROVE  TypeOK'
<1>1. guard \in [Updates -> Update] /\ guard[d] \in Update
  BY ShapesOfType
<1>2. CASE GuardReads(d)
  <2>1. guard' \in [Updates -> Update]
    <3>1. CASE GuardEnds(d) \/ GuardGoes(d, "record")
      BY <3>1, GuardGoesTyped DEF GuardPcs
    <3>2. CASE guard' = [guard EXCEPT ![d].pc = "record", ![d].by = "self"]
      <4>1. [guard[d] EXCEPT !.pc = "record", !.by = "self"] \in Update
        BY <1>1 DEF Update, GuardPcs
      <4> QED
        BY <1>1, <3>2, <4>1
    <3> QED
      BY <1>2, <3>1, <3>2 DEF GuardReads
  <2> QED
    BY <1>2, <2>1, ShapesOfType, TypesTogether DEF GuardReads, TypeOK
<1>3. CASE PendingHeld(d)
  <2>1. guard' \in [Updates -> Update]
    BY <1>3, GuardGoesTyped DEF PendingHeld, GuardPcs
  <2> QED
    BY <1>3, <2>1, ShapesOfType, TypesTogether DEF PendingHeld, TypeOK
<1>4. CASE GuardStops(d)
  BY <1>4, GuardGoesTyped, ShapesOfType, TypesTogether DEF GuardStops, TypeOK
<1>5. CASE Redelivered(d)
  <2>1. PICK c \in Updates :
           /\ guard' = [guard EXCEPT ![d] = Sent(guard[c].user, guard[c].path, guard[c].by)]
           /\ NoFault /\ UNCHANGED <<ld, tg, rows, worker>>
    BY <1>5 DEF Redelivered
  <2>2. guard[c] \in Update
    BY <1>1
  <2>3. Sent(guard[c].user, guard[c].path, guard[c].by) \in Update
    BY <2>2 DEF Update, Sent, GuardPcs, MaxLooks
  <2>4. guard' \in [Updates -> Update]
    BY <1>1, <2>1, <2>3
  <2> QED
    BY <2>1, <2>4, ShapesOfType, TypesTogether DEF TypeOK
<1> QED
  BY <1>2, <1>3, <1>4, <1>5, RecordJoinTyped, ExistingJoinTyped, WithdrawTyped DEF GuardStep

-----------------------------------------------------------------------------
LEMMA ReleasedTyped ==
    ASSUME TypeOK, ReleaseStaleClaims \/ CancelPending
    PROVE  rows' \in [Users -> JoinerRow \cup {NoRow}]
<1>1. \A u \in Users : rows[u] \in JoinerRow \cup {NoRow}
  BY DEF TypeOK
<1>2. ASSUME NEW u \in Users, rows[u].state \in {"acting", "unbanning", "pending"}
      PROVE  \A to \in {"pending", "banned", "cancelled"} : InState(rows[u], to) \in JoinerRow
  BY <1>2, StateMakesRow, InStateTyped DEF JoinerStates, ReclaimStates, UnfinishedStates
<1>3. CASE ReleaseStaleClaims
  <2>1. \A u \in Users : Released(rows[u]) \in JoinerRow \cup {NoRow}
    BY <1>1, <1>2 DEF Released
  <2> QED
    BY <1>3, <2>1 DEF ReleaseStaleClaims
<1>4. CASE CancelPending
  <2>1. \A u \in Users : rows[u].state = "pending" => InState(rows[u], "cancelled") \in JoinerRow
    BY <1>2
  <2> QED
    BY <1>1, <1>4, <2>1 DEF CancelPending
<1> QED
  BY <1>3, <1>4

LEMMA FinishTyped ==
    ASSUME TypeOK, FinishLift
    PROVE  ld' \in {"active", "lifting", "lifted"}
BY DEF TypeOK, FinishLift

\* The parts of a cycle that handle no row.
LEMMA CycleTyped ==
    ASSUME TypeOK, NEW w \in Workers,
           \/ Release(w) \/ ListPending(w) \/ ListLifting(w) \/ Cancel(w)
           \/ ListBanned(w) \/ Finish(w) \/ WorkerStops(w)
    PROVE  TypeOK'
<1>1. CASE Release(w) \/ Cancel(w)
  <2>1. worker' \in [Workers -> Worker]
    BY <1>1, WorkerGoesTyped DEF Release, Cancel, WorkerPcs
  <2>2. rows' \in [Users -> JoinerRow \cup {NoRow}]
    BY <1>1, ReleasedTyped DEF Release, Cancel, TypeOK
  <2> QED
    BY <1>1, <2>1, <2>2, ShapesOfType, TypesTogether DEF Release, Cancel, TypeOK
<1>2. CASE ListPending(w)
  <2>1. worker' \in [Workers -> Worker]
    BY <1>2, WorkerGoesTyped, ListTyped
    DEF ListPending, WorkerPcs, JoinerStates, UnfinishedStates
  <2> QED
    BY <1>2, <2>1, ShapesOfType, TypesTogether DEF ListPending, TypeOK
<1>3. CASE ListBanned(w)
  <2>1. worker' \in [Workers -> Worker]
    BY <1>3, WorkerGoesTyped, ListTyped
    DEF ListBanned, WorkerPcs, JoinerStates, UnfinishedStates
  <2> QED
    BY <1>3, <2>1, ShapesOfType, TypesTogether DEF ListBanned, TypeOK
<1>4. CASE ListLifting(w)
  <2>1. worker' \in [Workers -> Worker]
    BY <1>4, WorkerGoesTyped DEF ListLifting, WorkerPcs
  <2> QED
    BY <1>4, <2>1, ShapesOfType, TypesTogether DEF ListLifting, TypeOK
<1>5. CASE Finish(w)
  <2>1. worker' \in [Workers -> Worker]
    BY <1>5, WorkerGoesTyped DEF Finish, WorkerPcs
  <2> QED
    BY <1>5, <2>1, ShapesOfType, TypesTogether, FinishTyped DEF Finish, TypeOK
<1>6. CASE WorkerStops(w)
  <2>1. Idle \in Worker
    <3>1. NoBatch \in [Users -> JoinerRow \cup {NoRow}]
      BY DEF NoBatch
    <3> QED
      BY <3>1 DEF Idle, Worker, WorkerPcs, Outcomes
  <2>2. worker' \in [Workers -> Worker]
    BY <1>6, <2>1, ShapesOfType DEF WorkerStops
  <2> QED
    BY <1>6, <2>2, ShapesOfType, TypesTogether DEF WorkerStops, TypeOK
<1> QED
  BY <1>1, <1>2, <1>3, <1>4, <1>5, <1>6

LEMMA StatusTyped ==
    ASSUME TypeOK, NEW u \in Users,
           NEW status \in {Left, Asking, Member} \cup {Kicked(t) : t \in Dates},
           tg' = [tg EXCEPT ![u] = status] \/ UNCHANGED tg
    PROVE  tg' \in [Users -> {Left, Asking, Member} \cup {Kicked(t) : t \in Dates}]
BY DEF TypeOK

\* The ends of a call and of a row's handling.
LEMMA EndsTyped ==
    ASSUME TypeOK, NEW w \in Workers, NEW pc \in {"record", "settle"},
           \/ EndsInError(w, pc)
           \/ \E res \in {"done", "kept"} : Ends(w, pc, res)
    PROVE  worker' \in [Workers -> Worker]
<1>1. \E res \in Outcomes : Ends(w, pc, res)
  BY DEF EndsInError, Outcomes
<1>2. pc \in WorkerPcs
  BY DEF WorkerPcs
<1> QED
  BY <1>1, <1>2, WorkerGoesTyped

LEMMA CallsTyped ==
    ASSUME TypeOK, NEW w \in Workers, NEW u \in Users,
           \/ BanOneLooks(w, u) \/ BanOneBans(w, u) \/ DeclineOne(w, u)
           \/ DeclineFails(w, u) \/ UnbanOneLooks(w, u) \/ UnbanOneUnbans(w, u)
    PROVE  TypeOK'
<1>1. "ban" \in WorkerPcs /\ "unban" \in WorkerPcs
  BY DEF WorkerPcs
<1>2. Fault \/ NoFault
  BY DEF BanOneLooks, BanOneBans, DeclineOne, DeclineFails, UnbanOneLooks, UnbanOneUnbans,
         EndsInError
<1>3. UNCHANGED <<ld, rows, guard>>
  BY DEF BanOneLooks, BanOneBans, DeclineOne, DeclineFails, UnbanOneLooks, UnbanOneUnbans
<1>4. worker' \in [Workers -> Worker]
  <2>1. CASE BanOneLooks(w, u) \/ UnbanOneLooks(w, u)
    BY <1>1, <2>1, EndsTyped, WorkerGoesTyped DEF BanOneLooks, UnbanOneLooks
  <2>2. CASE BanOneBans(w, u) \/ DeclineOne(w, u) \/ DeclineFails(w, u) \/ UnbanOneUnbans(w, u)
    BY <2>2, EndsTyped DEF BanOneBans, DeclineOne, DeclineFails, UnbanOneUnbans
  <2> QED
    BY <2>1, <2>2
<1>5. tg' \in [Users -> {Left, Asking, Member} \cup {Kicked(t) : t \in Dates}]
  <2>1. worker[w].batch[u].until \in Dates
    <3>1. worker[w].batch[u] \in JoinerRow \cup {NoRow}
      BY DEF TypeOK
    <3> QED
      BY <3>1, UpdatesAreDates DEF JoinerRow, NoRow
  <2>2. CASE BanOneBans(w, u)
    BY <2>1, <2>2, StatusTyped DEF BanOneBans
  <2>3. CASE UnbanOneUnbans(w, u) \/ DeclineOne(w, u)
    BY <2>3, StatusTyped DEF UnbanOneUnbans, DeclineOne
  <2>4. CASE UNCHANGED tg
    BY <2>4 DEF TypeOK
  <2> QED
    BY <2>2, <2>3, <2>4 DEF BanOneLooks, DeclineFails, UnbanOneLooks
<1> QED
  BY <1>2, <1>3, <1>4, <1>5, TypesTogether, ShapesOfType DEF TypeOK

LEMMA RecordsTyped ==
    ASSUME TypeOK, NEW w \in Workers, NEW u \in Users,
           BanOneRecords(w, u) \/ UnbanOneRecords(w, u)
    PROVE  TypeOK'
<1>1. worker' \in [Workers -> Worker]
  BY WorkerGoesTyped DEF BanOneRecords, UnbanOneRecords, WorkerPcs
<1>2. rows' \in [Users -> JoinerRow \cup {NoRow}]
  <2>1. BanOutcome(w, u) \in JoinerStates /\ UnbanOutcome(w, u) \in JoinerStates
    BY DEF BanOutcome, UnbanOutcome, JoinerStates, ReclaimStates, UnfinishedStates
  <2>2. "acting" \in JoinerStates /\ "unbanning" \in JoinerStates
    BY DEF JoinerStates, UnfinishedStates
  <2>3. (worker[w].res = "failed") \in BOOLEAN
    OBVIOUS
  <2>4. CASE MoveJoiner(u, worker[w].batch[u].id, "acting", BanOutcome(w, u), worker[w].res = "failed")
    BY <2>1, <2>2, <2>3, <2>4, MoveTyped
  <2>5. CASE MoveJoiner(u, worker[w].batch[u].id, "unbanning", UnbanOutcome(w, u), worker[w].res = "failed")
    BY <2>1, <2>2, <2>3, <2>5, MoveTyped
  <2>6. CASE UNCHANGED rows
    BY <2>6 DEF TypeOK
  <2> QED
    BY <2>4, <2>5, <2>6 DEF BanOneRecords, UnbanOneRecords
<1>3. (Fault \/ NoFault) /\ UNCHANGED <<ld, tg, guard>>
  BY DEF BanOneRecords, UnbanOneRecords
<1> QED
  BY <1>1, <1>2, <1>3, TypesTogether, ShapesOfType DEF TypeOK

LEMMA ClaimsTyped ==
    ASSUME TypeOK, NEW w \in Workers, NEW u \in Users,
           BanPending(w, u) \/ UnbanBanned(w, u)
    PROVE  TypeOK'
<1>1. /\ {"decline", "look", "check", "lifts", "finish"} \subseteq WorkerPcs
      /\ {"pending", "acting", "banned", "unbanning"} \subseteq JoinerStates
  BY DEF WorkerPcs, JoinerStates, UnfinishedStates
<1>2. /\ worker' \in [Workers -> Worker]
      /\ rows' \in [Users -> JoinerRow \cup {NoRow}]
      /\ Fault \/ NoFault
  <2>1. CASE BanPending(w, u)
    <3> DEFINE pc == IF worker[w].batch[u].path = "request" THEN "decline" ELSE "look"
    <3>1. pc \in WorkerPcs /\ ClaimJoiner(w, u, "pending", "acting", pc, "lifts")
      BY <1>1, <2>1 DEF BanPending
    <3> HIDE DEF pc
    <3> QED
      BY <1>1, <3>1, ClaimTyped
  <2>2. CASE UnbanBanned(w, u)
    BY <1>1, <2>2, ClaimTyped DEF UnbanBanned
  <2> QED
    BY <2>1, <2>2
<1>3. UNCHANGED <<ld, tg, guard>>
  BY DEF BanPending, UnbanBanned
<1> QED
  BY <1>2, <1>3, TypesTogether, ShapesOfType DEF TypeOK

LEMMA WorkerTyped ==
    ASSUME TypeOK, NEW w \in Workers, WorkerStep(w) \/ WorkerStops(w)
    PROVE  TypeOK'
BY CycleTyped, CallsTyped, RecordsTyped, ClaimsTyped DEF WorkerStep, WorkerHandles

-----------------------------------------------------------------------------
LEMMA PeopleTyped ==
    ASSUME TypeOK, NEW u \in Users,
           \/ Arrives(u) \/ Requests(u) \/ Leaves(u) \/ AdminBans(u) \/ AdminUnbans(u)
           \/ WindowCloses(u) \/ ClaimExpires(u)
    PROVE  TypeOK'
<1>1. {Left, Asking, Member, Kicked(0)} \subseteq {Left, Asking, Member} \cup {Kicked(t) : t \in Dates}
  BY UpdatesAreDates
<1>2. guard \in [Updates -> Update]
  BY ShapesOfType
<1>3. \A path \in Paths : \A by \in {"self", "admin"} : Sent(u, path, by) \in Update
  BY DEF Sent, Update, GuardPcs, MaxLooks
<1>4. CASE Arrives(u)
  <2>1. PICK d \in Updates, how \in {"alone", "added", "approved"} :
           LET by == IF how = "alone" THEN "self" ELSE "admin"
               member == Sent(u, "member", by)
               service == Sent(u, "service", IF how = "added" THEN "admin" ELSE "self")
           IN /\ tg' = [tg EXCEPT ![u] = Member]
              /\ \/ guard' = [guard EXCEPT ![d] = member]
                 \/ guard' = [guard EXCEPT ![d] = service]
                 \/ d < MaxUpdates /\ guard' = [guard EXCEPT ![d] = member, ![d + 1] = service]
              /\ NoFault
              /\ UNCHANGED <<ld, rows, worker>>
    BY <1>4 DEF Arrives
  <2> DEFINE by == IF how = "alone" THEN "self" ELSE "admin"
             member == Sent(u, "member", by)
             service == Sent(u, "service", IF how = "added" THEN "admin" ELSE "self")
  <2>2. member \in Update /\ service \in Update
    BY <1>3 DEF Paths
  <2>3. \/ guard' = [guard EXCEPT ![d] = member]
        \/ guard' = [guard EXCEPT ![d] = service]
        \/ d < MaxUpdates /\ guard' = [guard EXCEPT ![d] = member, ![d + 1] = service]
    BY <2>1
  <2> HIDE DEF member, service
  <2>4. guard' \in [Updates -> Update]
    BY <1>2, <2>2, <2>3
  <2>5. tg' \in [Users -> {Left, Asking, Member} \cup {Kicked(t) : t \in Dates}]
    BY <1>1, <2>1, StatusTyped
  <2>6. NoFault /\ UNCHANGED <<ld, rows, worker>>
    BY <2>1
  <2> QED
    BY <2>4, <2>5, <2>6, ShapesOfType, TypesTogether DEF TypeOK
<1>5. CASE Requests(u)
  <2>1. PICK d \in Updates :
           /\ tg' = [tg EXCEPT ![u] = Asking]
           /\ guard' = [guard EXCEPT ![d] = Sent(u, "request", "self")]
           /\ NoFault /\ UNCHANGED <<ld, rows, worker>>
    BY <1>5 DEF Requests
  <2>2. guard' \in [Updates -> Update]
    BY <1>2, <1>3, <2>1 DEF Paths
  <2>3. tg' \in [Users -> {Left, Asking, Member} \cup {Kicked(t) : t \in Dates}]
    BY <1>1, <2>1, StatusTyped
  <2> QED
    BY <2>1, <2>2, <2>3, ShapesOfType, TypesTogether DEF TypeOK
<1>6. CASE Leaves(u) \/ AdminBans(u) \/ AdminUnbans(u)
  <2>1. tg' \in [Users -> {Left, Asking, Member} \cup {Kicked(t) : t \in Dates}]
    BY <1>1, <1>6, StatusTyped DEF Leaves, AdminBans, AdminUnbans
  <2> QED
    BY <1>6, <2>1, ShapesOfType, TypesTogether DEF Leaves, AdminBans, AdminUnbans, TypeOK
<1>7. CASE WindowCloses(u) \/ ClaimExpires(u)
  <2>1. rows[u] \in JoinerRow
    <3>1. NoRow.state \notin {"acting", "unbanning"} /\ ~NoRow.fresh
      BY DEF NoRow
    <3>2. rows[u].state \in {"acting", "unbanning"} \/ rows[u].fresh
      BY <1>7 DEF WindowCloses, ClaimExpires
    <3>3. rows[u] # NoRow
      BY <3>1, <3>2
    <3> QED
      BY <3>3 DEF TypeOK
  <2>2. /\ [rows[u] EXCEPT !.fresh = FALSE] \in JoinerRow
        /\ [rows[u] EXCEPT !.stale = TRUE] \in JoinerRow
    BY <2>1 DEF JoinerRow
  <2>3. rows' \in [Users -> JoinerRow \cup {NoRow}]
    BY <1>7, <2>2 DEF WindowCloses, ClaimExpires, TypeOK
  <2> QED
    BY <1>7, <2>3, ShapesOfType, TypesTogether DEF WindowCloses, ClaimExpires, TypeOK
<1> QED
  BY <1>4, <1>5, <1>6, <1>7

LEMMA StepTyped == TypeOK /\ [Next]_vars => TypeOK'
<1> SUFFICES ASSUME TypeOK, [Next]_vars
             PROVE  TypeOK'
  OBVIOUS
<1>1. CASE BeginLift \/ LifterFinishes
  BY <1>1, FinishTyped, ShapesOfType, TypesTogether DEF BeginLift, LifterFinishes, TypeOK
<1>2. CASE UNCHANGED vars
  BY <1>2 DEF vars, TypeOK
<1> QED
  BY <1>1, <1>2, GuardTyped, WorkerTyped, PeopleTyped DEF Next

\* Every variable of the joiners' model keeps its shape, for any number of
\* people, workers, updates, attempts and faults, whatever Hazards names.
THEOREM TypeCorrect == Spec => []TypeOK
BY InitTyped, StepTyped, PTL DEF Spec

-----------------------------------------------------------------------------
\* What a step comes to, one row, one update and one worker at a time.

\* At work on a row of the ban pass, or of the lift; and with no batch in hand.
Banning == {"look", "ban", "decline", "record"}
Lifting == {"check", "unban", "settle"}
Inert == {"release", "list", "lifts", "cancel", "unlist", "finish"}

\* The row is the same one, in another state from now on.
Moved(u, state) ==
    /\ rows'[u].id = rows[u].id /\ rows'[u].path = rows[u].path
    /\ rows'[u].until = rows[u].until
    /\ rows'[u].state = state /\ rows'[u].fresh /\ ~rows'[u].stale

OnlyRow(u) == \A x \in Users \ {u} : rows'[x] = rows[x]

\* Until its handler wrote the row, nothing has the number of an update.
Unwritten(d) == guard[d].pc \in {"unsent", "sent", "record", "existing"}

GuardLooks(d) ==
    /\ UNCHANGED rows
    /\ guard'[d].pc \in {"record", "existing"} => guard[d].pc \in {"sent", "record", "existing"}
    /\ guard'[d].pc = "withdraw" => ld # "active"
    /\ guard'[d].seen \in {guard[d].seen, NoRow, rows[guard[d].user]}

GuardInserts(d) ==
    /\ guard[d].pc = "record" /\ guard'[d].pc \in {"done", "recheck"}
    /\ guard'[d].seen = NoRow
    /\ rows[guard[d].user] = NoRow /\ rows'[guard[d].user] = RowOf(d)

GuardReclaims(d) ==
    /\ guard[d].pc = "existing" /\ guard'[d].pc \in {"done", "recheck"}
    /\ guard'[d].seen \in {guard[d].seen, NoRow}
    /\ TakesBack(d) /\ OldEnough(d, rows[guard[d].user])
    /\ Matches(guard[d].user, guard[d].seen.id, ReclaimStates)
    /\ NotListed(guard[d].user) \/ "stale batch" \in Hazards
    /\ rows'[guard[d].user] = [RowOf(d) EXCEPT !.id = guard[d].seen.id]

GuardMoves(d) ==
    /\ guard'[d].pc = "done" /\ guard'[d].seen = NoRow
    /\ rows[guard[d].user].state = "pending"
    /\ Moved(guard[d].user, "exempt") \/ Moved(guard[d].user, "cancelled")

GuardDeletes(d) ==
    /\ guard[d].pc = "withdraw" /\ guard'[d].pc = "done" /\ guard'[d].seen = NoRow
    /\ rows[guard[d].user].state = "pending" /\ rows'[guard[d].user] = NoRow

GuardWorks(d) ==
    /\ UNCHANGED <<ld, tg, worker>>
    /\ guard[d].pc \notin {"unsent", "done"} /\ guard'[d].pc \notin {"unsent", "sent"}
    /\ guard'[d].user = guard[d].user /\ guard'[d].path = guard[d].path
    /\ \A c \in Updates \ {d} : guard'[c] = guard[c]
    /\ OnlyRow(guard[d].user)
    /\ \/ GuardLooks(d) \/ GuardInserts(d) \/ GuardReclaims(d)
       \/ GuardMoves(d) \/ GuardDeletes(d)

\* An update goes out.
GoesOut(d, u, paths) ==
    /\ guard[d].pc = "unsent" /\ guard'[d].pc = "sent"
    /\ guard'[d].user = u /\ guard'[d].path \in paths /\ guard'[d].seen = NoRow

-----------------------------------------------------------------------------
LEMMA GuardReadsWorks ==
    ASSUME TypeOK, NEW d \in Updates, GuardReads(d) \/ PendingHeld(d) \/ GuardStops(d)
    PROVE  GuardWorks(d)
<1>1. guard \in [Updates -> Update] /\ guard[d] \in Update
  BY ShapesOfType
<1>2. UNCHANGED <<ld, tg, rows, worker>>
  BY DEF GuardReads, PendingHeld, GuardStops
<1>3. guard[d].pc \notin {"unsent", "done"}
  BY DEF GuardReads, PendingHeld, GuardStops
<1>4. \/ guard' = [guard EXCEPT ![d].pc = "done", ![d].seen = NoRow, ![d].looks = 0]
      \/ guard[d].pc = "sent" /\ guard' = [guard EXCEPT ![d].pc = "record"]
      \/ guard[d].pc = "sent" /\ guard' = [guard EXCEPT ![d].pc = "record", ![d].by = "self"]
      \/ ld # "active" /\ guard' = [guard EXCEPT ![d].pc = "withdraw"]
  BY DEF GuardReads, PendingHeld, GuardStops, GuardEnds, GuardGoes
<1>5. /\ guard'[d].pc \notin {"unsent", "sent"}
      /\ guard'[d].user = guard[d].user /\ guard'[d].path = guard[d].path
      /\ \A c \in Updates \ {d} : guard'[c] = guard[c]
      /\ guard'[d].seen \in {guard[d].seen, NoRow}
      /\ guard'[d].pc \in {"record", "existing"} => guard[d].pc = "sent"
      /\ guard'[d].pc = "withdraw" => ld # "active"
  BY <1>1, <1>4 DEF Update
<1> QED
  BY <1>2, <1>3, <1>5 DEF GuardWorks, GuardLooks, OnlyRow

LEMMA InStateMoves ==
    ASSUME TypeOK, NEW u \in Users, rows[u] \in JoinerRow, NEW state,
           rows'[u] = InState(rows[u], state)
    PROVE  Moved(u, state)
BY DEF Moved, InState, JoinerRow

LEMMA MoveMoves ==
    ASSUME TypeOK, NEW u \in Users, NEW id, NEW from \in JoinerStates,
           NEW to, NEW count \in BOOLEAN, MoveJoiner(u, id, from, to, count)
    PROVE  /\ OnlyRow(u)
           /\ \/ rows' = rows /\ ~Matches(u, id, {from})
              \/ Matches(u, id, {from}) /\ Moved(u, to)
<1>1. rows \in [Users -> JoinerRow \cup {NoRow}]
  BY DEF TypeOK
<1>2. CASE ~Matches(u, id, {from})
  BY <1>2 DEF MoveJoiner, OnlyRow
<1>3. CASE Matches(u, id, {from})
  <2>1. rows[u] \in JoinerRow
    BY <1>3, StateMakesRow DEF Matches
  <2> DEFINE n == IF from = "acting" /\ to = "banned" THEN 0
                  ELSE rows[u].attempts + (IF count THEN 1 ELSE 0)
  <2>2. rows' = [rows EXCEPT ![u] = [InState(rows[u], to) EXCEPT !.attempts = n]]
    BY <1>3 DEF MoveJoiner
  <2> HIDE DEF n
  <2>3. Moved(u, to)
    BY <1>1, <2>1, <2>2 DEF Moved, InState, JoinerRow
  <2> QED
    BY <1>1, <1>3, <2>2, <2>3 DEF OnlyRow
<1> QED
  BY <1>2, <1>3

LEMMA RecordJoinWorks ==
    ASSUME TypeOK, NEW d \in Updates, RecordJoin(d)
    PROVE  GuardWorks(d)
<1> DEFINE u == guard[d].user
<1>1. /\ guard \in [Updates -> Update] /\ guard[d] \in Update /\ u \in Users
      /\ rows \in [Users -> JoinerRow \cup {NoRow}]
  BY ShapesOfType DEF Update, TypeOK
<1>2. guard[d].pc = "record" /\ UNCHANGED <<ld, tg, worker>>
  BY DEF RecordJoin
<1>3. CASE GuardEnds(d) /\ UNCHANGED rows
  <2>1. /\ guard'[d].pc = "done" /\ guard'[d].seen = NoRow
        /\ guard'[d].user = guard[d].user /\ guard'[d].path = guard[d].path
        /\ \A c \in Updates \ {d} : guard'[c] = guard[c]
    BY <1>1, <1>3 DEF GuardEnds, Update
  <2> QED
    BY <1>2, <1>3, <2>1 DEF GuardWorks, GuardLooks, OnlyRow
<1>4. CASE /\ rows[u] = NoRow
           /\ rows' = [rows EXCEPT ![u] = RowOf(d)]
           /\ IF Exempt(d) THEN GuardEnds(d)
              ELSE guard' = [guard EXCEPT ![d].pc = "recheck", ![d].seen = NoRow]
  <2>1. /\ guard'[d].pc \in {"done", "recheck"} /\ guard'[d].seen = NoRow
        /\ guard'[d].user = guard[d].user /\ guard'[d].path = guard[d].path
        /\ \A c \in Updates \ {d} : guard'[c] = guard[c]
    BY <1>1, <1>4 DEF GuardEnds, Update
  <2>2. rows'[u] = RowOf(d) /\ OnlyRow(u)
    BY <1>1, <1>4 DEF OnlyRow
  <2> QED
    BY <1>2, <1>4, <2>1, <2>2 DEF GuardWorks, GuardInserts
<1>5. CASE /\ guard' = [guard EXCEPT ![d].pc = "existing", ![d].seen = rows[u]]
           /\ UNCHANGED rows
  <2>1. /\ guard'[d].pc = "existing" /\ guard'[d].seen = rows[u]
        /\ guard'[d].user = guard[d].user /\ guard'[d].path = guard[d].path
        /\ \A c \in Updates \ {d} : guard'[c] = guard[c]
    BY <1>1, <1>5 DEF Update
  <2> QED
    BY <1>2, <1>5, <2>1 DEF GuardWorks, GuardLooks, OnlyRow
<1> QED
  BY <1>3, <1>4, <1>5 DEF RecordJoin

LEMMA ExistingJoinWorks ==
    ASSUME TypeOK, NEW d \in Updates, ExistingJoin(d)
    PROVE  GuardWorks(d)
<1> DEFINE u == guard[d].user
<1>1. /\ guard \in [Updates -> Update] /\ guard[d] \in Update /\ u \in Users
      /\ rows \in [Users -> JoinerRow \cup {NoRow}]
  BY ShapesOfType DEF Update, TypeOK
<1>2. guard[d].pc = "existing" /\ UNCHANGED <<ld, tg, worker>>
  BY DEF ExistingJoin
<1>3. ASSUME GuardEnds(d)
      PROVE  /\ guard'[d].pc = "done" /\ guard'[d].seen = NoRow
             /\ guard'[d].user = guard[d].user /\ guard'[d].path = guard[d].path
             /\ \A c \in Updates \ {d} : guard'[c] = guard[c]
  BY <1>1, <1>3 DEF GuardEnds, Update
<1>4. CASE TakesBack(d) /\ ReclaimJoin(d)
  <2>1. CASE /\ Matches(u, guard[d].seen.id, ReclaimStates) /\ OldEnough(d, rows[u])
             /\ rows' = [rows EXCEPT ![u] = [RowOf(d) EXCEPT !.id = guard[d].seen.id]]
             /\ IF Exempt(d) THEN GuardEnds(d) ELSE GuardGoes(d, "recheck")
    <3>1. /\ guard'[d].pc \in {"done", "recheck"} /\ guard'[d].seen \in {guard[d].seen, NoRow}
          /\ guard'[d].user = guard[d].user /\ guard'[d].path = guard[d].path
          /\ \A c \in Updates \ {d} : guard'[c] = guard[c]
      <4>1. CASE GuardEnds(d)
        BY <1>3, <4>1
      <4>2. CASE GuardGoes(d, "recheck")
        BY <1>1, <4>2 DEF GuardGoes, Update
      <4> QED
        BY <2>1, <4>1, <4>2
    <3>2. rows'[u] = [RowOf(d) EXCEPT !.id = guard[d].seen.id] /\ OnlyRow(u)
      BY <1>1, <2>1 DEF OnlyRow
    <3>3. NotListed(u) \/ "stale batch" \in Hazards
      BY <1>4 DEF ReclaimJoin
    <3> QED
      BY <1>2, <1>4, <2>1, <3>1, <3>2, <3>3 DEF GuardWorks, GuardReclaims
  <2>2. CASE /\ IF guard[d].looks = MaxLooks - 1 THEN GuardEnds(d)
                ELSE guard' = [guard EXCEPT ![d].pc = "record", ![d].looks = @ + 1]
             /\ UNCHANGED rows
    <3>1. /\ guard'[d].pc \in {"done", "record"} /\ guard'[d].seen \in {guard[d].seen, NoRow}
          /\ guard'[d].user = guard[d].user /\ guard'[d].path = guard[d].path
          /\ \A c \in Updates \ {d} : guard'[c] = guard[c]
      <4>1. CASE GuardEnds(d)
        BY <1>3, <4>1
      <4>2. CASE guard' = [guard EXCEPT ![d].pc = "record", ![d].looks = @ + 1]
        BY <1>1, <4>2 DEF Update
      <4> QED
        BY <2>2, <4>1, <4>2
    <3> QED
      BY <1>2, <2>2, <3>1 DEF GuardWorks, GuardLooks, OnlyRow
  <2> QED
    BY <1>4, <2>1, <2>2 DEF ReclaimJoin
<1>5. CASE GuardEnds(d) /\ MoveJoiner(u, guard[d].seen.id, "pending", "exempt", FALSE)
  <2>1. "pending" \in JoinerStates
    BY DEF JoinerStates, UnfinishedStates
  <2>2. /\ OnlyRow(u)
        /\ UNCHANGED rows \/ (rows[u].state = "pending" /\ Moved(u, "exempt"))
    <3>1. PICK x \in Users : x = u
      BY <1>1
    <3>2. PICK id : id = guard[d].seen.id
      OBVIOUS
    <3>3. MoveJoiner(x, id, "pending", "exempt", FALSE)
      BY <1>5, <3>1, <3>2
    <3>4. OnlyRow(x) /\ (UNCHANGED rows \/ (Matches(x, id, {"pending"}) /\ Moved(x, "exempt")))
      BY <2>1, <3>3, MoveMoves
    <3> QED
      BY <3>1, <3>4 DEF Matches, OnlyRow, Moved
  <2> QED
    BY <1>2, <1>3, <1>5, <2>2 DEF GuardWorks, GuardLooks, GuardMoves
<1>6. CASE GuardEnds(d) /\ UNCHANGED rows
  BY <1>2, <1>3, <1>6 DEF GuardWorks, GuardLooks, OnlyRow
<1> QED
  BY <1>4, <1>5, <1>6 DEF ExistingJoin

LEMMA WithdrawWorks ==
    ASSUME TypeOK, NEW d \in Updates, Withdraw(d)
    PROVE  GuardWorks(d)
<1> DEFINE u == guard[d].user
<1>1. /\ guard \in [Updates -> Update] /\ guard[d] \in Update /\ u \in Users
      /\ rows \in [Users -> JoinerRow \cup {NoRow}]
  BY ShapesOfType DEF Update, TypeOK
<1>2. /\ guard[d].pc = "withdraw" /\ UNCHANGED <<ld, tg, worker>>
      /\ guard'[d].pc = "done" /\ guard'[d].seen = NoRow
      /\ guard'[d].user = guard[d].user /\ guard'[d].path = guard[d].path
      /\ \A c \in Updates \ {d} : guard'[c] = guard[c]
  BY <1>1 DEF Withdraw, GuardEnds, Update
<1>3. CASE DeletePendingJoin(u, d)
  <2>1. /\ OnlyRow(u)
        /\ UNCHANGED rows \/ (rows[u].state = "pending" /\ rows'[u] = NoRow)
    BY <1>1, <1>3 DEF DeletePendingJoin, Matches, OnlyRow
  <2> QED
    BY <1>2, <2>1 DEF GuardWorks, GuardLooks, GuardDeletes
<1>4. CASE MoveJoiner(u, guard[d].seen.id, "pending", "cancelled", FALSE)
  <2>1. "pending" \in JoinerStates
    BY DEF JoinerStates, UnfinishedStates
  <2>2. /\ OnlyRow(u)
        /\ UNCHANGED rows \/ (rows[u].state = "pending" /\ Moved(u, "cancelled"))
    <3>1. PICK x \in Users : x = u
      BY <1>1
    <3>2. PICK id : id = guard[d].seen.id
      OBVIOUS
    <3>3. MoveJoiner(x, id, "pending", "cancelled", FALSE)
      BY <1>4, <3>1, <3>2
    <3>4. OnlyRow(x) /\ (UNCHANGED rows \/ (Matches(x, id, {"pending"}) /\ Moved(x, "cancelled")))
      BY <2>1, <3>3, MoveMoves
    <3> QED
      BY <3>1, <3>4 DEF Matches, OnlyRow, Moved
  <2> QED
    BY <1>2, <2>2 DEF GuardWorks, GuardLooks, GuardMoves
<1>5. CASE UNCHANGED rows
  BY <1>2, <1>5 DEF GuardWorks, GuardLooks, OnlyRow
<1> QED
  BY <1>3, <1>4, <1>5 DEF Withdraw

LEMMA GuardStepWorks ==
    ASSUME TypeOK, NEW d \in Updates, GuardStep(d) \/ GuardStops(d)
    PROVE  GuardWorks(d)
BY GuardReadsWorks, RecordJoinWorks, ExistingJoinWorks, WithdrawWorks DEF GuardStep

-----------------------------------------------------------------------------
\* A worker's steps: a part of its cycle without a row; a list; a claim won, or
\* lost; a call; the end of a row's handling.

Others(w) == \A v \in Workers \ {w} : worker'[v] = worker[v]

\* What the release of stale claims and the lift's cancellation do to a row.
Swept(u) ==
    \/ rows'[u] = rows[u]
    \/ rows[u].state = "pending" /\ Moved(u, "cancelled")
    \/ rows[u].stale /\ rows[u].state = "unbanning" /\ Moved(u, "banned")
    \/ rows[u].stale /\ rows[u].state = "acting" /\ ld = "active" /\ Moved(u, "pending")
    \/ rows[u].stale /\ rows[u].state = "acting" /\ ld = "lifting" /\ Moved(u, "banned")
    \/ rows[u].stale /\ rows[u].state = "acting" /\ ld = "lifting" /\ Moved(u, "cancelled")

Turns(w) ==
    /\ Others(w) /\ UNCHANGED <<tg, guard>>
    /\ worker'[w].batch = worker[w].batch /\ worker'[w].on = worker[w].on
    /\ worker[w].pc \in Inert /\ worker'[w].pc \in Inert
    /\ \/ UNCHANGED rows /\ (UNCHANGED ld \/ FinishLift)
       \/ UNCHANGED ld /\ \A u \in Users : Swept(u)

Lists(w, state) ==
    /\ Others(w) /\ UNCHANGED <<ld, tg, rows, guard>>
    /\ worker'[w].on = worker[w].on
    /\ worker[w].pc \in {"list", "unlist"}
    /\ \/ state = "pending" /\ ld = "active" /\ worker'[w].pc \in {"bans", "lifts"}
       \/ state = "banned" /\ worker'[w].pc \in {"unbans", "finish"}
    /\ \A u \in Users : worker'[w].batch[u] =
            IF rows[u].state = state THEN [rows[u] EXCEPT !.fresh = FALSE] ELSE NoRow

Claims(w, u) ==
    /\ Others(w) /\ OnlyRow(u) /\ UNCHANGED <<ld, tg, guard>>
    /\ worker'[w].batch = worker[w].batch /\ worker'[w].on = {u}
    /\ u \in BatchOf(w) /\ rows[u].id = worker[w].batch[u].id
    /\ \/ /\ worker[w].pc = "bans" /\ rows[u].state = "pending" /\ Moved(u, "acting")
          /\ worker'[w].pc = IF worker[w].batch[u].path = "request" THEN "decline" ELSE "look"
       \/ /\ worker[w].pc = "unbans" /\ rows[u].state = "banned" /\ Moved(u, "unbanning")
          /\ worker'[w].pc = "check"

\* u is off the batch.
PutDown(w, u) ==
    /\ Others(w)
    /\ worker'[w].on = {} /\ worker'[w].batch[u] = NoRow
    /\ \A x \in Users \ {u} : worker'[w].batch[x] = worker[w].batch[x]

Drops(w, u) ==
    /\ PutDown(w, u) /\ UNCHANGED <<ld, tg, rows, guard>>
    /\ \/ worker[w].pc = "bans" /\ worker'[w].pc \in {"bans", "lifts"}
       \/ worker[w].pc = "unbans" /\ worker'[w].pc \in {"unbans", "finish"}

Calls(w, u) ==
    /\ Others(w) /\ UNCHANGED <<ld, rows, guard>>
    /\ u \in worker[w].on
    /\ worker'[w].batch = worker[w].batch /\ worker'[w].on = worker[w].on
    /\ \/ /\ worker[w].pc \in Banning /\ worker'[w].pc \in {"ban", "record"}
          /\ worker'[w].pc = "ban" => worker[w].pc = "look"
       \/ worker[w].pc \in Lifting /\ worker'[w].pc \in {"unban", "settle"}

Records(w, u) ==
    /\ PutDown(w, u) /\ OnlyRow(u) /\ UNCHANGED <<ld, tg, guard>>
    /\ u \in worker[w].on
    /\ \/ /\ worker[w].pc = "record" /\ worker'[w].pc \in {"bans", "lifts"}
          /\ \/ rows' = rows
             \/ rows[u].state = "acting" /\ Moved(u, BanOutcome(w, u))
       \/ /\ worker[w].pc = "settle" /\ worker'[w].pc \in {"unbans", "finish"}
          /\ \/ rows' = rows
             \/ rows[u].state = "unbanning" /\ Moved(u, UnbanOutcome(w, u))

WorkerWorks(w) ==
    \/ Turns(w) \/ Lists(w, "pending") \/ Lists(w, "banned")
    \/ \E u \in Users : Claims(w, u) \/ Drops(w, u) \/ Calls(w, u) \/ Records(w, u)

-----------------------------------------------------------------------------
LEMMA GoesTurns ==
    ASSUME TypeOK, NEW w \in Workers, NEW pc, WorkerGoes(w, pc)
    PROVE  /\ Others(w) /\ worker'[w].pc = pc
           /\ worker'[w].batch = worker[w].batch /\ worker'[w].on = worker[w].on
BY ShapesOfType DEF WorkerGoes, Others, Worker

LEMMA TakeOffPutsDown ==
    ASSUME TypeOK, NEW w \in Workers, NEW u \in Users, NEW pc, NEW next,
           TakeOff(w, u, pc, next)
    PROVE  PutDown(w, u) /\ worker'[w].pc \in {pc, next} /\ worker'[w].res = "done"
<1>1. worker \in [Workers -> Worker] /\ worker[w] \in Worker
  BY ShapesOfType
<1> DEFINE goes == IF BatchOf(w) = {u} THEN next ELSE pc
           left == [worker[w].batch EXCEPT ![u] = NoRow]
<1>2. worker' = [worker EXCEPT ![w] =
                   [worker[w] EXCEPT !.pc = goes, !.batch = left, !.on = {}, !.res = "done"]]
  BY <1>1 DEF TakeOff, Worker
<1>3. goes \in {pc, next}
  OBVIOUS
<1>4. left[u] = NoRow /\ \A x \in Users \ {u} : left[x] = worker[w].batch[x]
  BY <1>1 DEF Worker
<1> HIDE DEF goes, left
<1>5. /\ worker'[w].pc = goes /\ worker'[w].batch = left
      /\ worker'[w].on = {} /\ worker'[w].res = "done"
      /\ Others(w)
  BY <1>1, <1>2 DEF Others, Worker
<1> QED
  BY <1>3, <1>4, <1>5 DEF PutDown

LEMMA SweepsSwept ==
    ASSUME TypeOK, ReleaseStaleClaims \/ CancelPending, NEW u \in Users
    PROVE  Swept(u)
<1>1. CASE CancelPending /\ rows[u].state = "pending"
  <2>1. rows[u] \in JoinerRow
    BY <1>1, StateMakesRow DEF JoinerStates, UnfinishedStates
  <2>2. rows'[u] = InState(rows[u], "cancelled")
    BY <1>1 DEF CancelPending
  <2> QED
    BY <1>1, <2>1, <2>2, InStateMoves DEF Swept
<1>2. CASE CancelPending /\ rows[u].state # "pending"
  BY <1>2 DEF CancelPending, Swept
<1>3. CASE ReleaseStaleClaims /\ rows[u].state \in {"acting", "unbanning"} /\ rows[u].stale
  <2>1. rows[u] \in JoinerRow
    BY <1>3, StateMakesRow DEF JoinerStates, UnfinishedStates
  <2>2. rows'[u] = Released(rows[u])
    BY <1>3 DEF ReleaseStaleClaims
  <2>3. \A state \in JoinerStates : rows'[u] = InState(rows[u], state) => Moved(u, state)
    BY <2>1, InStateMoves
  <2>4. {"banned", "pending", "cancelled"} \subseteq JoinerStates
    BY DEF JoinerStates, ReclaimStates, UnfinishedStates
  <2>5. CASE rows[u].state = "unbanning"
    BY <1>3, <2>2, <2>3, <2>4, <2>5 DEF Released, Swept
  <2>6. CASE rows[u].state = "acting"
    BY <1>3, <2>2, <2>3, <2>4, <2>6 DEF Released, Swept
  <2> QED
    BY <1>3, <2>5, <2>6
<1>4. CASE ReleaseStaleClaims /\ ~(rows[u].state \in {"acting", "unbanning"} /\ rows[u].stale)
  <2>1. rows'[u] = Released(rows[u])
    BY <1>4 DEF ReleaseStaleClaims
  <2> QED
    BY <1>4, <2>1 DEF Released, Swept
<1> QED
  BY <1>1, <1>2, <1>3, <1>4

LEMMA CycleTurns ==
    ASSUME TypeOK, NEW w \in Workers,
           Release(w) \/ ListLifting(w) \/ Cancel(w) \/ Finish(w)
    PROVE  Turns(w)
<1>1. worker[w].pc \in Inert /\ \E pc \in Inert : WorkerGoes(w, pc)
  BY DEF Release, ListLifting, Cancel, Finish, Inert
<1>2. /\ Others(w) /\ worker'[w].pc \in Inert
      /\ worker'[w].batch = worker[w].batch /\ worker'[w].on = worker[w].on
  BY <1>1, GoesTurns
<1>3. /\ UNCHANGED <<tg, guard>>
      /\ \/ UNCHANGED rows /\ (UNCHANGED ld \/ FinishLift)
         \/ UNCHANGED ld /\ (ReleaseStaleClaims \/ CancelPending)
  BY DEF Release, ListLifting, Cancel, Finish
<1> QED
  BY <1>1, <1>2, <1>3, SweepsSwept DEF Turns

LEMMA ListLists ==
    ASSUME TypeOK, NEW w \in Workers, NEW state, NEW pc, NEW next,
           ListInState(w, state, pc, next)
    PROVE  /\ Others(w) /\ worker'[w].on = worker[w].on /\ worker'[w].pc \in {pc, next}
           /\ \A u \in Users : worker'[w].batch[u] =
                IF rows[u].state = state THEN [rows[u] EXCEPT !.fresh = FALSE] ELSE NoRow
<1> DEFINE listed == [u \in Users |-> IF rows[u].state = state
                                      THEN [rows[u] EXCEPT !.fresh = FALSE] ELSE NoRow]
           goes == IF listed = NoBatch THEN next ELSE pc
<1>1. worker \in [Workers -> Worker] /\ worker[w] \in Worker
  BY ShapesOfType
<1>2. worker' = [worker EXCEPT ![w].pc = goes, ![w].batch = listed]
  BY DEF ListInState
<1>3. goes \in {pc, next}
  OBVIOUS
<1>4. \A u \in Users : listed[u] =
         IF rows[u].state = state THEN [rows[u] EXCEPT !.fresh = FALSE] ELSE NoRow
  OBVIOUS
<1> HIDE DEF goes, listed
<1>5. Others(w) /\ worker'[w].on = worker[w].on /\ worker'[w].pc = goes /\ worker'[w].batch = listed
  BY <1>1, <1>2 DEF Others, Worker
<1> QED
  BY <1>3, <1>4, <1>5

LEMMA ListsWork ==
    ASSUME TypeOK, NEW w \in Workers, ListPending(w) \/ ListBanned(w)
    PROVE  WorkerWorks(w)
<1>1. UNCHANGED <<ld, tg, rows, guard>> /\ worker[w].pc \in {"list", "unlist"}
  BY DEF ListPending, ListBanned
<1>2. CASE WorkerGoes(w, "lifts") \/ WorkerGoes(w, "release")
  BY <1>1, <1>2, GoesTurns DEF WorkerWorks, Turns, Inert
<1>3. CASE ld = "active" /\ ListInState(w, "pending", "bans", "lifts")
  BY <1>1, <1>3, ListLists DEF WorkerWorks, Lists
<1>4. CASE ListInState(w, "banned", "unbans", "finish")
  BY <1>1, <1>4, ListLists DEF WorkerWorks, Lists
<1> QED
  BY <1>2, <1>3, <1>4 DEF ListPending, ListBanned

LEMMA ClaimClaims ==
    ASSUME TypeOK, NEW w \in Workers, NEW u \in Users, NEW from \in JoinerStates,
           NEW to, NEW pc, NEW next, ClaimJoiner(w, u, from, to, pc, next)
    PROVE  \/ /\ Others(w) /\ OnlyRow(u)
              /\ worker'[w].batch = worker[w].batch /\ worker'[w].on = {u}
              /\ worker'[w].pc = pc
              /\ rows[u].id = worker[w].batch[u].id /\ rows[u].state = from /\ Moved(u, to)
           \/ /\ PutDown(w, u) /\ UNCHANGED rows /\ worker'[w].pc \in {worker[w].pc, next}
<1>1. worker \in [Workers -> Worker] /\ worker[w] \in Worker
  BY ShapesOfType
<1>2. CASE /\ Matches(u, worker[w].batch[u].id, {from})
           /\ rows' = [rows EXCEPT ![u] = InState(@, to)]
           /\ worker' = [worker EXCEPT ![w].pc = pc, ![w].on = {u}]
  <2>1. rows[u] \in JoinerRow
    BY <1>2, StateMakesRow DEF Matches
  <2>2. rows'[u] = InState(rows[u], to) /\ OnlyRow(u)
    BY <1>2 DEF TypeOK, OnlyRow
  <2>3. Moved(u, to)
    BY <2>1, <2>2, InStateMoves
  <2> QED
    BY <1>1, <1>2, <2>2, <2>3 DEF Others, Worker, Matches
<1>3. CASE TakeOff(w, u, worker[w].pc, next) /\ UNCHANGED rows
  <2>1. PICK pc0 : pc0 = worker[w].pc
    OBVIOUS
  <2> QED
    BY <1>3, <2>1, TakeOffPutsDown
<1> QED
  BY <1>2, <1>3 DEF ClaimJoiner

LEMMA ClaimsWork ==
    ASSUME TypeOK, NEW w \in Workers, NEW u \in Users, BanPending(w, u) \/ UnbanBanned(w, u)
    PROVE  Claims(w, u) \/ Drops(w, u)
<1>1. UNCHANGED <<ld, tg, guard>> /\ u \in BatchOf(w)
  BY DEF BanPending, UnbanBanned
<1>2. "pending" \in JoinerStates /\ "banned" \in JoinerStates
  BY DEF JoinerStates, UnfinishedStates
<1>3. CASE BanPending(w, u)
  <2>1. PICK pc : pc = IF worker[w].batch[u].path = "request" THEN "decline" ELSE "look"
    OBVIOUS
  <2>2. worker[w].pc = "bans" /\ ClaimJoiner(w, u, "pending", "acting", pc, "lifts")
    BY <1>3, <2>1 DEF BanPending
  <2> QED
    BY <1>1, <1>2, <2>1, <2>2, ClaimClaims DEF Claims, Drops
<1>4. CASE UnbanBanned(w, u)
  BY <1>1, <1>2, <1>4, ClaimClaims DEF UnbanBanned, Claims, Drops
<1> QED
  BY <1>3, <1>4

LEMMA EndsTurns ==
    ASSUME TypeOK, NEW w \in Workers, NEW pc, NEW res, Ends(w, pc, res)
    PROVE  /\ Others(w) /\ worker'[w].pc = pc /\ worker'[w].res = res
           /\ worker'[w].batch = worker[w].batch /\ worker'[w].on = worker[w].on
BY ShapesOfType DEF Ends, Others, Worker

LEMMA CallsWork ==
    ASSUME TypeOK, NEW w \in Workers, NEW u \in Users,
           \/ BanOneLooks(w, u) \/ BanOneBans(w, u) \/ DeclineOne(w, u)
           \/ DeclineFails(w, u) \/ UnbanOneLooks(w, u) \/ UnbanOneUnbans(w, u)
    PROVE  Calls(w, u)
<1>1. u \in worker[w].on /\ UNCHANGED <<ld, rows, guard>>
  BY DEF BanOneLooks, BanOneBans, DeclineOne, DeclineFails, UnbanOneLooks, UnbanOneUnbans,
         WorkingOn
<1>2. CASE BanOneLooks(w, u)
  <2>1. worker[w].pc = "look" /\ (WorkerGoes(w, "ban") \/ \E res \in Outcomes : Ends(w, "record", res))
    BY <1>2 DEF BanOneLooks, EndsInError, Outcomes
  <2> QED
    BY <1>1, <2>1, GoesTurns, EndsTurns DEF Calls, Banning
<1>3. CASE UnbanOneLooks(w, u)
  <2>1. worker[w].pc = "check" /\ (WorkerGoes(w, "unban") \/ \E res \in Outcomes : Ends(w, "settle", res))
    BY <1>3 DEF UnbanOneLooks, EndsInError, Outcomes
  <2> QED
    BY <1>1, <2>1, GoesTurns, EndsTurns DEF Calls, Lifting
<1>4. CASE BanOneBans(w, u) \/ DeclineOne(w, u) \/ DeclineFails(w, u)
  <2>1. worker[w].pc \in Banning /\ \E res \in Outcomes : Ends(w, "record", res)
    BY <1>4 DEF BanOneBans, DeclineOne, DeclineFails, EndsInError, Outcomes, Banning
  <2> QED
    BY <1>1, <2>1, EndsTurns DEF Calls
<1>5. CASE UnbanOneUnbans(w, u)
  <2>1. worker[w].pc \in Lifting /\ \E res \in Outcomes : Ends(w, "settle", res)
    BY <1>5 DEF UnbanOneUnbans, EndsInError, Outcomes, Lifting
  <2> QED
    BY <1>1, <2>1, EndsTurns DEF Calls
<1> QED
  BY <1>2, <1>3, <1>4, <1>5

LEMMA RecordsWork ==
    ASSUME TypeOK, NEW w \in Workers, NEW u \in Users,
           BanOneRecords(w, u) \/ UnbanOneRecords(w, u)
    PROVE  Records(w, u)
<1>1. u \in worker[w].on /\ UNCHANGED <<ld, tg, guard>>
  BY DEF BanOneRecords, UnbanOneRecords, WorkingOn
<1>2. PICK id : id = worker[w].batch[u].id
  OBVIOUS
<1>3. PICK ban : ban = BanOutcome(w, u)
  OBVIOUS
<1>4. PICK unban : unban = UnbanOutcome(w, u)
  OBVIOUS
<1>5. PICK count \in BOOLEAN : count <=> worker[w].res = "failed"
  OBVIOUS
<1>6. "acting" \in JoinerStates /\ "unbanning" \in JoinerStates
  BY DEF JoinerStates, UnfinishedStates
<1>7. CASE BanOneRecords(w, u)
  <2>1. PutDown(w, u) /\ worker[w].pc = "record" /\ worker'[w].pc \in {"bans", "lifts"}
    BY <1>7, TakeOffPutsDown DEF BanOneRecords
  <2>2. UNCHANGED rows \/ MoveJoiner(u, id, "acting", ban, count)
    BY <1>2, <1>3, <1>5, <1>7 DEF BanOneRecords
  <2>3. OnlyRow(u) /\ (rows' = rows \/ (Matches(u, id, {"acting"}) /\ Moved(u, ban)))
    <3>1. CASE UNCHANGED rows
      BY <3>1 DEF OnlyRow
    <3>2. CASE MoveJoiner(u, id, "acting", ban, count)
      BY <1>6, <3>2, MoveMoves
    <3> QED
      BY <2>2, <3>1, <3>2
  <2> QED
    BY <1>1, <1>3, <2>1, <2>3 DEF Records, Matches
<1>8. CASE UnbanOneRecords(w, u)
  <2>1. PutDown(w, u) /\ worker[w].pc = "settle" /\ worker'[w].pc \in {"unbans", "finish"}
    BY <1>8, TakeOffPutsDown DEF UnbanOneRecords
  <2>2. UNCHANGED rows \/ MoveJoiner(u, id, "unbanning", unban, count)
    BY <1>2, <1>4, <1>5, <1>8 DEF UnbanOneRecords
  <2>3. OnlyRow(u) /\ (rows' = rows \/ (Matches(u, id, {"unbanning"}) /\ Moved(u, unban)))
    <3>1. CASE UNCHANGED rows
      BY <3>1 DEF OnlyRow
    <3>2. CASE MoveJoiner(u, id, "unbanning", unban, count)
      BY <1>6, <3>2, MoveMoves
    <3> QED
      BY <2>2, <3>1, <3>2
  <2> QED
    BY <1>1, <1>4, <2>1, <2>3 DEF Records, Matches
<1> QED
  BY <1>7, <1>8

LEMMA WorkerStepWorks ==
    ASSUME TypeOK, NEW w \in Workers, WorkerStep(w)
    PROVE  WorkerWorks(w)
BY CycleTurns, ListsWork, ClaimsWork, CallsWork, RecordsWork
DEF WorkerStep, WorkerHandles, WorkerWorks

-----------------------------------------------------------------------------
\* The row is as it was, or only older.
Ages(u) ==
    /\ OnlyRow(u)
    /\ rows'[u].id = rows[u].id /\ rows'[u].path = rows[u].path
    /\ rows'[u].until = rows[u].until /\ rows'[u].state = rows[u].state

LEMMA RowsAge ==
    ASSUME TypeOK, NEW u \in Users, WindowCloses(u) \/ ClaimExpires(u)
    PROVE  /\ Ages(u)
           /\ WindowCloses(u) => rows'[u].stale = rows[u].stale
           /\ ClaimExpires(u) => rows'[u].fresh = rows[u].fresh
<1>1. rows \in [Users -> JoinerRow \cup {NoRow}]
  BY DEF TypeOK
<1>2. \/ rows' = [rows EXCEPT ![u].fresh = FALSE]
      \/ rows' = [rows EXCEPT ![u].stale = TRUE]
  BY DEF WindowCloses, ClaimExpires
<1>3. OnlyRow(u)
  BY <1>1, <1>2 DEF OnlyRow
<1>4. CASE WindowCloses(u)
  <2>1. rows'[u] = [rows[u] EXCEPT !.fresh = FALSE]
    BY <1>1, <1>4 DEF WindowCloses
  <2>2. rows[u] \in JoinerRow
    <3>1. rows[u].fresh
      BY <1>4 DEF WindowCloses
    <3>2. rows[u] # NoRow
      BY <3>1 DEF NoRow
    <3> QED
      BY <1>1, <3>2
  <2>3. /\ rows'[u].id = rows[u].id /\ rows'[u].path = rows[u].path
        /\ rows'[u].until = rows[u].until /\ rows'[u].state = rows[u].state
        /\ rows'[u].stale = rows[u].stale /\ ~rows'[u].fresh /\ rows[u].fresh
    BY <1>4, <2>1, <2>2 DEF JoinerRow, WindowCloses
  <2>4. ~ClaimExpires(u)
    <3>1. SUFFICES ASSUME ClaimExpires(u)
                   PROVE  FALSE
      OBVIOUS
    <3>2. rows'[u] = [rows[u] EXCEPT !.stale = TRUE]
      BY <1>1, <3>1 DEF ClaimExpires
    <3>3. rows'[u].fresh = rows[u].fresh
      BY <2>2, <3>2 DEF JoinerRow
    <3> QED
      BY <2>3, <3>3
  <2> QED
    BY <1>3, <2>3, <2>4 DEF Ages
<1>5. CASE ClaimExpires(u) /\ ~WindowCloses(u)
  <2>1. rows'[u] = [rows[u] EXCEPT !.stale = TRUE]
    BY <1>1, <1>5 DEF ClaimExpires
  <2>2. /\ rows'[u].id = rows[u].id /\ rows'[u].path = rows[u].path
        /\ rows'[u].until = rows[u].until /\ rows'[u].state = rows[u].state
        /\ rows'[u].fresh = rows[u].fresh
    BY <1>1, <2>1 DEF JoinerRow, NoRow
  <2> QED
    BY <1>3, <1>5, <2>2 DEF Ages
<1> QED
  BY <1>4, <1>5

\* Telegram sends the updates in the order of their numbers.
SentInOrder ==
    \A c, d \in Updates : c < d /\ guard[c].pc = "unsent" => guard[d].pc = "unsent"

Sends(u, paths) ==
    /\ UNCHANGED <<ld, rows, worker>>
    /\ \A d \in Updates : guard'[d] = guard[d] \/ GoesOut(d, u, paths)

LEMMA ArrivesSends ==
    ASSUME TypeOK, SentInOrder, NEW u \in Users, Arrives(u)
    PROVE  /\ Sends(u, {"member", "service"}) /\ SentInOrder'
           /\ tg' = [tg EXCEPT ![u] = Member]
           /\ InOrder(u, {"request"})
<1>1. guard \in [Updates -> Update]
  BY ShapesOfType
<1>2. PICK d \in Updates, by \in {"self", "admin"}, by2 \in {"self", "admin"} :
         /\ Unsent(d) /\ InOrder(u, {"request"})
         /\ tg' = [tg EXCEPT ![u] = Member] /\ UNCHANGED <<ld, rows, worker>>
         /\ \/ guard' = [guard EXCEPT ![d] = Sent(u, "member", by)]
            \/ guard' = [guard EXCEPT ![d] = Sent(u, "service", by2)]
            \/ /\ d < MaxUpdates
               /\ guard' = [guard EXCEPT ![d] = Sent(u, "member", by),
                                         ![d + 1] = Sent(u, "service", by2)]
  BY DEF Arrives
<1>3. d \in 1..MaxUpdates /\ MaxUpdates \in Nat
  BY BoundsAssumption DEF Updates
<1>4. /\ guard[d].pc = "unsent"
      /\ \A c \in Updates : c < d => guard[c].pc # "unsent"
  BY <1>2, <1>3 DEF Unsent, Updates
<1>5. ASSUME d < MaxUpdates
      PROVE  d + 1 \in Updates /\ guard[d + 1].pc = "unsent"
  BY <1>3, <1>4, <1>5 DEF SentInOrder, Updates
<1>6. \A path, x : /\ Sent(u, path, x).pc = "sent" /\ Sent(u, path, x).user = u
                   /\ Sent(u, path, x).path = path /\ Sent(u, path, x).seen = NoRow
  BY DEF Sent
<1>7. \A c \in Updates : guard'[c] = guard[c] \/ GoesOut(c, u, {"member", "service"})
  BY <1>1, <1>2, <1>4, <1>5, <1>6 DEF GoesOut
<1>8. guard'[d].pc = "sent" /\ \A c \in Updates : c > d + 1 => guard'[c] = guard[c]
  BY <1>1, <1>2, <1>3, <1>6 DEF Updates
<1>9. SentInOrder'
  <2> SUFFICES ASSUME NEW b \in Updates, NEW c \in Updates,
                      b < c, guard'[b].pc = "unsent", guard'[c].pc # "unsent"
               PROVE  FALSE
    BY DEF SentInOrder
  <2>1. guard[b].pc = "unsent"
    BY <1>7 DEF GoesOut
  <2>2. guard[c].pc = "unsent"
    BY <2>1 DEF SentInOrder
  <2>3. ~(b < d) /\ b # d /\ ~(c > d + 1)
    BY <1>4, <1>8, <2>1, <2>2
  <2> QED
    BY <1>3, <2>3 DEF Updates
<1> QED
  BY <1>2, <1>7, <1>9 DEF Sends

LEMMA OneGoesOut ==
    ASSUME TypeOK, SentInOrder, NEW d \in Updates, Unsent(d),
           NEW u, NEW path, NEW by, guard' = [guard EXCEPT ![d] = Sent(u, path, by)]
    PROVE  /\ SentInOrder' /\ GoesOut(d, u, {path})
           /\ \A c \in Updates \ {d} : guard'[c] = guard[c]
<1>1. guard \in [Updates -> Update]
  BY ShapesOfType
<1>2. /\ guard[d].pc = "unsent"
      /\ \A c \in Updates : c < d => guard[c].pc # "unsent"
  BY BoundsAssumption DEF Unsent, Updates
<1>3. guard'[d] = Sent(u, path, by) /\ \A c \in Updates \ {d} : guard'[c] = guard[c]
  BY <1>1
<1>4. GoesOut(d, u, {path})
  BY <1>2, <1>3 DEF GoesOut, Sent
<1>5. SentInOrder'
  <2> SUFFICES ASSUME NEW b \in Updates, NEW c \in Updates,
                      b < c, guard'[b].pc = "unsent", guard'[c].pc # "unsent"
               PROVE  FALSE
    BY DEF SentInOrder
  <2>1. b # d /\ guard[b].pc = "unsent"
    BY <1>3, <1>4 DEF GoesOut
  <2>2. c = d
    BY <1>3, <2>1 DEF SentInOrder
  <2> QED
    BY <1>2, <2>1, <2>2
<1> QED
  BY <1>3, <1>4, <1>5

LEMMA RequestsSends ==
    ASSUME TypeOK, SentInOrder, NEW u \in Users, Requests(u)
    PROVE  /\ Sends(u, {"request"}) /\ SentInOrder'
           /\ tg' = [tg EXCEPT ![u] = Asking]
           /\ AtRest(u) \/ "quick return" \in Hazards
           /\ \E d \in Updates : /\ GoesOut(d, u, {"request"})
                                 /\ \A c \in Updates \ {d} : guard'[c] = guard[c]
<1>1. PICK d \in Updates :
         /\ Unsent(d) /\ (AtRest(u) \/ "quick return" \in Hazards)
         /\ tg' = [tg EXCEPT ![u] = Asking] /\ UNCHANGED <<ld, rows, worker>>
         /\ guard' = [guard EXCEPT ![d] = Sent(u, "request", "self")]
  BY DEF Requests
<1>2. /\ SentInOrder' /\ GoesOut(d, u, {"request"})
      /\ \A c \in Updates \ {d} : guard'[c] = guard[c]
  BY <1>1, OneGoesOut
<1> QED
  BY <1>1, <1>2 DEF Sends

LEMMA RedeliveredSends ==
    ASSUME TypeOK, SentInOrder, NEW d \in Updates, Redelivered(d)
    PROVE  /\ SentInOrder' /\ UNCHANGED tg
           /\ \E u \in Users : /\ Sends(u, {"member", "service"})
                               /\ InOrder(u, {"request"})
                               /\ rows[u].fresh \/ "late delivery" \in Hazards
<1>1. PICK c \in Updates :
         /\ guard[c].path # "request" /\ Unsent(d)
         /\ rows[guard[c].user].fresh \/ "late delivery" \in Hazards
         /\ InOrder(guard[c].user, {"request"})
         /\ guard' = [guard EXCEPT ![d] = Sent(guard[c].user, guard[c].path, guard[c].by)]
         /\ UNCHANGED <<ld, tg, rows, worker>>
  BY DEF Redelivered
<1>2. PICK u \in Users : u = guard[c].user
  BY ShapesOfType DEF Update
<1>3. PICK path \in {"member", "service"} : path = guard[c].path
  BY <1>1, ShapesOfType DEF Update, Paths
<1>4. PICK by : by = guard[c].by
  OBVIOUS
<1>5. /\ SentInOrder' /\ GoesOut(d, u, {path})
      /\ \A b \in Updates \ {d} : guard'[b] = guard[b]
  BY <1>1, <1>2, <1>3, <1>4, OneGoesOut
<1>6. Sends(u, {"member", "service"})
  BY <1>1, <1>5 DEF Sends, GoesOut
<1> QED
  BY <1>1, <1>2, <1>5, <1>6

=============================================================================

-------------------------- MODULE Lockdown_proofs --------------------------
(***************************************************************************)
(* What holds of Lockdown for any handlers, any number of lockdowns and    *)
(* any faults: whether or not commands overlap, its types and that it      *)
(* implements LockdownLifecycle; while no start overlaps a lift, why a     *)
(* group is never left locked.                                             *)
(***************************************************************************)
EXTENDS Lockdown, TLAPS

\* A handler that works on a row has one of the group's rows.
OnRow == {"settle", "lock", "locking", "refused", "confirm"}

StartersOnRows == \A s \in Starters : starter[s].pc \in OnRow => starter[s].rid \in Rows

LiftersOnRows == \A l \in Lifters : lifter[l].pc # "idle" => lifter[l].rid \in Rows

SettlersOnRows == \A a \in Settlers : settler[a].pc # "idle" => settler[a].rid \in Rows

\* TypeOK is not inductive alone: a lifter sends the permissions of its row.
IInv == TypeOK /\ StartersOnRows /\ LiftersOnRows /\ SettlersOnRows

-----------------------------------------------------------------------------
\* What the statements and the moves of the handlers keep.

LEMMA StartRowTypes ==
    ASSUME rows \in [Rows -> LockdownRow], NEW r \in Rows, NEW pre \in Perms, StartRow(r, pre)
    PROVE  rows' \in [Rows -> LockdownRow]
BY DEF StartRow, LockdownRow, RowStates

LEMMA StatementTypes ==
    ASSUME rows \in [Rows -> LockdownRow], NEW r \in Rows,
           ConfirmLocked(r) \/ DeleteUnconfirmed(r) \/ TouchLockdown(r)
    PROVE  rows' \in [Rows -> LockdownRow]
BY ZenonT(30) DEF ConfirmLocked, DeleteUnconfirmed, TouchLockdown, LockdownRow, RowStates

LEMMA FaultTypes ==
    ASSUME faults \in 0..MaxFaults, Fault \/ NoFault
    PROVE  faults' \in 0..MaxFaults
BY MaxFaultsAssumption DEF Fault, NoFault

LEMMA CallTypes ==
    ASSUME call \in [Callers -> Call], NEW a \in Callers, NEW set \in Perms,
           Send(a, set) \/ Clear(a)
    PROVE  call' \in [Callers -> Call]
BY DEF Send, Clear, Call, NoCall, Perms

LEMMA StarterMoves ==
    ASSUME starter \in [Starters -> Starter], StartersOnRows,
           NEW s \in Starters, NEW pc \in StarterPcs, StarterGoes(s, pc),
           pc \in OnRow => starter[s].rid \in Rows
    PROVE  starter' \in [Starters -> Starter] /\ StartersOnRows'
BY DEF StarterGoes, Starter, StartersOnRows

LEMMA StarterTakesRow ==
    ASSUME starter \in [Starters -> Starter], StartersOnRows,
           NEW s \in Starters, NEW pc \in StarterPcs, NEW r \in Rows,
           starter' = [starter EXCEPT ![s].pc = pc, ![s].rid = r]
    PROVE  starter' \in [Starters -> Starter] /\ StartersOnRows'
<1>1. r \in 0..MaxRows
  BY MaxRowsAssumption DEF Rows
<1>2. starter' \in [Starters -> Starter]
  BY <1>1 DEF Starter
<1>3. starter'[s].rid = r /\ \A t \in Starters \ {s} : starter'[t] = starter[t]
  BY DEF Starter
<1>4. StartersOnRows'
  BY <1>3 DEF StartersOnRows
<1> QED
  BY <1>2, <1>4

LEMMA StarterStopsAt ==
    ASSUME starter \in [Starters -> Starter], StartersOnRows,
           NEW s \in Starters, StarterEnds(s)
    PROVE  starter' \in [Starters -> Starter] /\ StartersOnRows'
BY MaxRowsAssumption
DEF StarterEnds, Starter, StartersOnRows, IdleStarter, StarterPcs, Perms, OnRow

LEMMA LifterMoves ==
    ASSUME lifter \in [Lifters -> Lifter], LiftersOnRows, NEW l \in Lifters,
           \/ LifterEnds(l)
           \/ lifter[l].pc # "idle" /\ \E pc \in LifterPcs : LifterGoes(l, pc)
    PROVE  lifter' \in [Lifters -> Lifter] /\ LiftersOnRows'
BY MaxRowsAssumption DEF LifterGoes, LifterEnds, Lifter, LiftersOnRows, IdleLifter, LifterPcs

LEMMA SettlerStopsAt ==
    ASSUME settler \in [Settlers -> Settler], SettlersOnRows,
           NEW a \in Settlers, SettlerEnds(a)
    PROVE  settler' \in [Settlers -> Settler] /\ SettlersOnRows'
BY MaxRowsAssumption DEF SettlerEnds, Settler, SettlersOnRows, IdleSettler

-----------------------------------------------------------------------------
LEMMA InitIInv == Init => IInv
<1> SUFFICES ASSUME Init
             PROVE  IInv
  OBVIOUS
<1>1. rows \in [Rows -> LockdownRow] /\ call \in [Callers -> Call]
  BY DEF Init, LockdownRow, RowStates, Perms, Call, NoCall
<1>2. starter \in [Starters -> Starter] /\ StartersOnRows
  BY MaxRowsAssumption DEF Init, Starter, StarterPcs, Perms, IdleStarter, StartersOnRows, OnRow
<1>3. lifter \in [Lifters -> Lifter] /\ LiftersOnRows
  BY MaxRowsAssumption DEF Init, Lifter, LifterPcs, IdleLifter, LiftersOnRows
<1>4. settler \in [Settlers -> Settler] /\ SettlersOnRows
  BY MaxRowsAssumption DEF Init, Settler, IdleSettler, SettlersOnRows
<1>5. perm \in Perms /\ faults \in 0..MaxFaults
  BY MaxFaultsAssumption DEF Init, Perms
<1> QED
  BY <1>1, <1>2, <1>3, <1>4, <1>5 DEF IInv, TypeOK

LEMMA StarterKeepsIInv ==
    ASSUME IInv, NEW s \in Starters,
           LockdownCommand(s) \/ StarterStep(s) \/ StarterStops(s)
    PROVE  IInv'
<1> USE DEF IInv, TypeOK
<1>a. s \in Callers /\ s \in Settlers
  BY DEF Callers, Settlers
<1>1. CASE LockdownCommand(s)
  <2>1. UNCHANGED <<rows, perm, call, lifter, settler, faults>>
    BY <1>1 DEF LockdownCommand, NoFault
  <2>2. starter' \in [Starters -> Starter] /\ StartersOnRows'
    <3>1. CASE StarterGoes(s, "snapshot")
      BY <3>1, StarterMoves DEF StarterPcs, OnRow
    <3>2. ASSUME NEW r \in Rows, starter' = [starter EXCEPT ![s].pc = "settle", ![s].rid = r]
          PROVE  starter' \in [Starters -> Starter] /\ StartersOnRows'
      BY <3>2, StarterTakesRow DEF StarterPcs
    <3> QED
      BY <1>1, <3>1, <3>2 DEF LockdownCommand, ActiveRows
  <2> QED
    BY <2>1, <2>2 DEF LiftersOnRows, SettlersOnRows
<1>2. CASE LockdownReread(s)
  <2>1. starter' \in [Starters -> Starter] /\ StartersOnRows'
    BY <1>2, StarterMoves, StarterStopsAt DEF LockdownReread, StarterPcs, OnRow
  <2> QED
    BY <1>2, <2>1, FaultTypes DEF LockdownReread, LiftersOnRows, SettlersOnRows
<1>3. CASE Snapshot(s)
  <2>1. starter' \in [Starters -> Starter] /\ StartersOnRows'
    <3>1. CASE StarterEnds(s)
      BY <3>1, StarterStopsAt
    <3>2. CASE starter' = [starter EXCEPT ![s].pc = "insert", ![s].snap = perm]
      BY <3>2 DEF Starter, StarterPcs, StartersOnRows, OnRow
    <3> QED
      BY <1>3, <3>1, <3>2 DEF Snapshot
  <2> QED
    BY <1>3, <2>1, FaultTypes DEF Snapshot, LiftersOnRows, SettlersOnRows
<1>4. CASE Insert(s)
  <2>1. starter' \in [Starters -> Starter] /\ StartersOnRows'
    <3>1. CASE StarterEnds(s)
      BY <3>1, StarterStopsAt
    <3>2. ASSUME NEW r \in Rows, starter' = [starter EXCEPT ![s].pc = "lock", ![s].rid = r]
          PROVE  starter' \in [Starters -> Starter] /\ StartersOnRows'
      BY <3>2, StarterTakesRow DEF StarterPcs
    <3> QED
      BY <1>4, <3>1, <3>2 DEF Insert
  <2>2. starter[s].snap \in Perms
    BY DEF Starter
  <2>3. rows' \in [Rows -> LockdownRow]
    BY <1>4, <2>2, StartRowTypes DEF Insert
  <2> QED
    BY <1>4, <2>1, <2>3, FaultTypes DEF Insert, LiftersOnRows, SettlersOnRows
<1>5. CASE SendLock(s)
  <2>1. starter' \in [Starters -> Starter] /\ StartersOnRows'
    BY <1>5, StarterMoves DEF SendLock, StarterPcs, OnRow, StartersOnRows
  <2>2. call' \in [Callers -> Call]
    BY <1>5, <1>a, CallTypes DEF SendLock, Perms
  <2> QED
    BY <1>5, <2>1, <2>2, FaultTypes DEF SendLock, LiftersOnRows, SettlersOnRows
<1>6. CASE LockAnswered(s)
  <2>1. starter' \in [Starters -> Starter] /\ StartersOnRows'
    BY <1>6, StarterMoves DEF LockAnswered, StarterPcs, OnRow, StartersOnRows
  <2>2. call' \in [Callers -> Call]
    BY <1>6, <1>a, CallTypes DEF LockAnswered, Perms
  <2> QED
    BY <1>6, <2>1, <2>2, FaultTypes DEF LockAnswered, LiftersOnRows, SettlersOnRows
<1>7. CASE LockRefused(s)
  <2>1. starter' \in [Starters -> Starter] /\ StartersOnRows'
    BY <1>7, StarterMoves DEF LockRefused, StarterPcs, OnRow, StartersOnRows
  <2>2. call' \in [Callers -> Call]
    BY <1>7, <1>a, CallTypes DEF LockRefused, Perms
  <2> QED
    BY <1>7, <2>1, <2>2, FaultTypes DEF LockRefused, LiftersOnRows, SettlersOnRows
<1>8. CASE LockUnknown(s)
  <2>1. starter' \in [Starters -> Starter] /\ StartersOnRows'
    BY <1>8, StarterStopsAt DEF LockUnknown
  <2>2. call' \in [Callers -> Call]
    BY <1>8, <1>a, CallTypes DEF LockUnknown, Perms
  <2> QED
    BY <1>8, <2>1, <2>2, FaultTypes DEF LockUnknown, LiftersOnRows, SettlersOnRows
<1>9. CASE RemoveRefused(s)
  <2>1. starter' \in [Starters -> Starter] /\ StartersOnRows'
    BY <1>9, StarterStopsAt DEF RemoveRefused
  <2>2. rows' \in [Rows -> LockdownRow]
    BY <1>9, StatementTypes DEF RemoveRefused, StartersOnRows, OnRow
  <2> QED
    BY <1>9, <2>1, <2>2, FaultTypes DEF RemoveRefused, LiftersOnRows, SettlersOnRows
<1>10. CASE ConfirmStart(s)
  <2>1. starter' \in [Starters -> Starter] /\ StartersOnRows'
    BY <1>10, StarterStopsAt DEF ConfirmStart
  <2>2. rows' \in [Rows -> LockdownRow]
    BY <1>10, StatementTypes DEF ConfirmStart, StartersOnRows, OnRow
  <2> QED
    BY <1>10, <2>1, <2>2, FaultTypes DEF ConfirmStart, LiftersOnRows, SettlersOnRows
<1>11. CASE StarterStops(s)
  <2>1. starter' \in [Starters -> Starter] /\ StartersOnRows'
    BY <1>11, StarterStopsAt DEF StarterStops
  <2>2. settler' \in [Settlers -> Settler] /\ SettlersOnRows'
    BY <1>11, <1>a, SettlerStopsAt DEF StarterStops
  <2> QED
    BY <1>11, <2>1, <2>2, FaultTypes DEF StarterStops, LiftersOnRows
<1> QED
  BY <1>1, <1>2, <1>3, <1>4, <1>5, <1>6, <1>7, <1>8, <1>9, <1>10, <1>11
  DEF StarterStep

LEMMA SettleKeepsIInv ==
    ASSUME IInv, NEW a \in Settlers,
           SettleStep(a) \/ (a \in Workers /\ WorkerStops(a))
    PROVE  IInv'
<1> USE DEF IInv, TypeOK
<1>1. ASSUME NEW r \in Rows, SettleRead(a, r)
      PROVE  IInv'
  <2>1. starter' \in [Starters -> Starter] /\ StartersOnRows'
    BY <1>1, StarterStopsAt DEF SettleRead, StartersOnRows
  <2>2. settler' \in [Settlers -> Settler] /\ SettlersOnRows'
    <3>1. r \in 0..MaxRows /\ (perm = "locked") \in BOOLEAN
      BY MaxRowsAssumption DEF Rows
    <3>2. CASE UNCHANGED settler
      BY <3>2 DEF SettlersOnRows
    <3>3. ASSUME NEW b \in BOOLEAN,
                 settler' = [settler EXCEPT ![a] = [pc |-> "decide", rid |-> r, same |-> b]]
          PROVE  settler' \in [Settlers -> Settler] /\ SettlersOnRows'
      BY <3>1, <3>3 DEF Settler, SettlersOnRows
    <3> QED
      BY <1>1, <3>1, <3>2, <3>3 DEF SettleRead
  <2>3. rows' \in [Rows -> LockdownRow]
    BY <1>1, StatementTypes DEF SettleRead
  <2> QED
    BY <1>1, <2>1, <2>2, <2>3, FaultTypes DEF SettleRead, LiftersOnRows
<1>2. CASE SettleDecide(a)
  <2>1. settler[a].rid \in Rows
    BY <1>2 DEF SettleDecide, SettlersOnRows
  <2>2. rows' \in [Rows -> LockdownRow]
    BY <1>2, <2>1, StatementTypes DEF SettleDecide
  <2>3. settler' \in [Settlers -> Settler] /\ SettlersOnRows'
    BY <1>2, SettlerStopsAt DEF SettleDecide
  <2>4. starter' \in [Starters -> Starter] /\ StartersOnRows'
    BY <1>2, StarterMoves, StarterStopsAt DEF SettleDecide, StarterPcs, OnRow, StartersOnRows
  <2> QED
    BY <1>2, <2>2, <2>3, <2>4, FaultTypes DEF SettleDecide, LiftersOnRows
<1>3. CASE WorkerStops(a)
  <2>1. settler' \in [Settlers -> Settler] /\ SettlersOnRows'
    BY <1>3, SettlerStopsAt DEF WorkerStops
  <2> QED
    BY <1>3, <2>1, FaultTypes DEF WorkerStops, LiftersOnRows, StartersOnRows
<1> QED
  BY <1>1, <1>2, <1>3 DEF SettleStep

LEMMA LifterKeepsIInv ==
    ASSUME IInv, NEW l \in Lifters,
           LiftCommand(l) \/ LifterStep(l) \/ LifterStops(l)
    PROVE  IInv'
<1> USE DEF IInv, TypeOK
<1>a. l \in Callers
  BY DEF Callers
<1>1. CASE LiftCommand(l)
  <2>1. lifter' \in [Lifters -> Lifter] /\ LiftersOnRows'
    BY <1>1 DEF LiftCommand, ActiveRows, Lifter, LifterPcs, LiftersOnRows, Rows
  <2> QED
    BY <1>1, <2>1, FaultTypes DEF LiftCommand, StartersOnRows, SettlersOnRows
<1>2. CASE SendRestore(l)
  <2>1. lifter' \in [Lifters -> Lifter] /\ LiftersOnRows'
    BY <1>2, LifterMoves DEF SendRestore, LifterPcs
  <2>2. rows[lifter[l].rid].pre \in Perms
    BY <1>2 DEF SendRestore, LiftersOnRows, LockdownRow
  <2>3. call' \in [Callers -> Call]
    BY <1>2, <1>a, <2>2, CallTypes DEF SendRestore
  <2> QED
    BY <1>2, <2>1, <2>3, FaultTypes DEF SendRestore, StartersOnRows, SettlersOnRows
<1>3. CASE RestoreAnswered(l)
  <2>1. lifter' \in [Lifters -> Lifter] /\ LiftersOnRows'
    BY <1>3, LifterMoves DEF RestoreAnswered, LifterPcs
  <2>2. call' \in [Callers -> Call]
    BY <1>3, <1>a, CallTypes DEF RestoreAnswered, Perms
  <2> QED
    BY <1>3, <2>1, <2>2, FaultTypes DEF RestoreAnswered, StartersOnRows, SettlersOnRows
<1>4. CASE RestoreFailed(l)
  <2>1. lifter' \in [Lifters -> Lifter] /\ LiftersOnRows'
    BY <1>4, LifterMoves DEF RestoreFailed
  <2>2. call' \in [Callers -> Call]
    BY <1>4, <1>a, CallTypes DEF RestoreFailed, Perms
  <2> QED
    BY <1>4, <2>1, <2>2, FaultTypes DEF RestoreFailed, StartersOnRows, SettlersOnRows
<1>5. CASE BeginLift(l)
  <2>1. lifter' \in [Lifters -> Lifter] /\ LiftersOnRows'
    BY <1>5, LifterMoves DEF BeginLift, LifterPcs
  <2>2. rows' \in [Rows -> LockdownRow]
    BY <1>5 DEF BeginLift, LockdownRow, RowStates
  <2> QED
    BY <1>5, <2>1, <2>2, FaultTypes DEF BeginLift, StartersOnRows, SettlersOnRows
<1>6. CASE FinishAtOnce(l)
  <2>1. lifter' \in [Lifters -> Lifter] /\ LiftersOnRows'
    BY <1>6, LifterMoves DEF FinishAtOnce
  <2>2. rows' \in [Rows -> LockdownRow]
    BY <1>6 DEF FinishAtOnce, LockdownRow, RowStates
  <2> QED
    BY <1>6, <2>1, <2>2, FaultTypes DEF FinishAtOnce, StartersOnRows, SettlersOnRows
<1>7. CASE LifterStops(l)
  <2>1. lifter' \in [Lifters -> Lifter] /\ LiftersOnRows'
    BY <1>7, LifterMoves DEF LifterStops
  <2> QED
    BY <1>7, <2>1, FaultTypes DEF LifterStops, StartersOnRows, SettlersOnRows
<1> QED
  BY <1>1, <1>2, <1>3, <1>4, <1>5, <1>6, <1>7 DEF LifterStep

LEMMA EnvironmentKeepsIInv ==
    ASSUME IInv,
           \/ \E a \in Callers : TelegramApplies(a) \/ TelegramDrops(a)
           \/ \E r \in Rows : GraceEnds(r) \/ FinishLift(r)
           \/ AdminChangesPermissions
    PROVE  IInv'
<1> USE DEF IInv, TypeOK
<1>1. ASSUME NEW a \in Callers, TelegramApplies(a)
      PROVE  IInv'
  <2>1. perm' \in Perms
    BY <1>1 DEF TelegramApplies, Call
  <2>2. call' \in [Callers -> Call]
    <3>1. CASE Clear(a)
      BY <3>1, CallTypes DEF Perms
    <3>2. CASE call' = [call EXCEPT ![a].at = "applied"]
      BY <3>2 DEF Call
    <3> QED
      BY <1>1, <3>1, <3>2 DEF TelegramApplies
  <2> QED
    BY <1>1, <2>1, <2>2, FaultTypes
    DEF TelegramApplies, StartersOnRows, LiftersOnRows, SettlersOnRows
<1>2. ASSUME NEW a \in Callers, TelegramDrops(a)
      PROVE  IInv'
  <2>1. call' \in [Callers -> Call]
    BY <1>2, CallTypes DEF TelegramDrops, Perms
  <2> QED
    BY <1>2, <2>1, FaultTypes
    DEF TelegramDrops, StartersOnRows, LiftersOnRows, SettlersOnRows
<1>3. ASSUME NEW r \in Rows, GraceEnds(r) \/ FinishLift(r)
      PROVE  IInv'
  <2>1. rows' \in [Rows -> LockdownRow]
    <3>1. rows[r] \in LockdownRow /\ rows \in [Rows -> LockdownRow]
      BY DEF IInv, TypeOK
    <3>2. [rows[r] EXCEPT !.old = TRUE] \in LockdownRow
      BY <3>1 DEF LockdownRow
    <3>3. [rows[r] EXCEPT !.state = "lifted"] \in LockdownRow
      BY <3>1 DEF LockdownRow, RowStates
    <3> QED
      BY <1>3, <3>1, <3>2, <3>3 DEF GraceEnds, FinishLift
  <2> QED
    BY <1>3, <2>1, FaultTypes
    DEF GraceEnds, FinishLift, StartersOnRows, LiftersOnRows, SettlersOnRows
<1>4. CASE AdminChangesPermissions
  BY <1>4, FaultTypes
  DEF AdminChangesPermissions, Perms, StartersOnRows, LiftersOnRows, SettlersOnRows
<1> QED
  BY <1>1, <1>2, <1>3, <1>4

LEMMA NextIInv == IInv /\ [Next]_vars => IInv'
<1> SUFFICES ASSUME IInv, [Next]_vars
             PROVE  IInv'
  OBVIOUS
<1>1. CASE UNCHANGED vars
  BY <1>1 DEF vars, IInv, TypeOK, StartersOnRows, LiftersOnRows, SettlersOnRows
<1>2. CASE Next
  BY <1>2, StarterKeepsIInv, SettleKeepsIInv, LifterKeepsIInv, EnvironmentKeepsIInv
  DEF Next, Settlers
<1> QED
  BY <1>1, <1>2

LEMMA Invariance == Spec => []IInv
BY InitIInv, NextIInv, PTL DEF Spec

\* Every variable keeps its shape, whatever the handlers, lockdowns and faults.
THEOREM TypeCorrect == Spec => []TypeOK
BY Invariance, PTL DEF IInv

-----------------------------------------------------------------------------
\* Every step keeps the promise of LockdownLifecycle or changes nothing of it.

Phases == [r \in Rows |-> Phase(r)]

LEMMA OneRowMoves ==
    ASSUME NEW r \in Rows, \A q \in Rows \ {r} : rows'[q] = rows[q]
    PROVE  Phases' = [Phases EXCEPT ![r] = Phase(r)']
BY DEF Phases, Phase

LEMMA StartBegins ==
    ASSUME rows \in [Rows -> LockdownRow], NEW r \in Rows, NEW pre, StartRow(r, pre)
    PROVE  Lifecycle!Begin(r)
<1>1. \A q \in Rows : Phases[q] \notin {"unconfirmed", "confirmed"}
  BY DEF StartRow, ActiveRows, Phases, Phase, LockdownRow, RowStates
<1>2. Phases' = [Phases EXCEPT ![r] = Phase(r)']
  BY OneRowMoves DEF StartRow
<1>3. Phases[r] = "none" /\ Phase(r)' = "unconfirmed"
  BY DEF StartRow, Phases, Phase
<1> QED
  BY <1>1, <1>2, <1>3 DEF Lifecycle!Begin, Lifecycle!Move, Lifecycle!Running, Phases

LEMMA ConfirmConfirms ==
    ASSUME rows \in [Rows -> LockdownRow], NEW r \in Rows, ConfirmLocked(r)
    PROVE  Lifecycle!Confirm(r) \/ UNCHANGED Phases
<1>1. CASE Unconfirmed(r)
  <2>1. Phases' = [Phases EXCEPT ![r] = Phase(r)']
    BY <1>1, OneRowMoves DEF ConfirmLocked
  <2>2. Phases[r] = "unconfirmed" /\ Phase(r)' = "confirmed"
    BY <1>1 DEF ConfirmLocked, Unconfirmed, Phases, Phase, LockdownRow
  <2> QED
    BY <2>1, <2>2 DEF Lifecycle!Confirm, Lifecycle!Move, Phases
<1>2. CASE ~Unconfirmed(r)
  BY <1>2 DEF ConfirmLocked, Phases, Phase
<1> QED
  BY <1>1, <1>2

LEMMA DeleteDrops ==
    ASSUME rows \in [Rows -> LockdownRow], NEW r \in Rows, DeleteUnconfirmed(r)
    PROVE  Lifecycle!Drop(r) \/ UNCHANGED Phases
<1>1. CASE Unconfirmed(r)
  <2>1. Phases' = [Phases EXCEPT ![r] = Phase(r)']
    BY <1>1, OneRowMoves DEF DeleteUnconfirmed
  <2>2. Phases[r] = "unconfirmed" /\ Phase(r)' = "dropped"
    BY <1>1 DEF DeleteUnconfirmed, Unconfirmed, Phases, Phase, LockdownRow
  <2> QED
    BY <2>1, <2>2 DEF Lifecycle!Drop, Lifecycle!Move, Phases
<1>2. CASE ~Unconfirmed(r)
  BY <1>2 DEF DeleteUnconfirmed, Phases, Phase
<1> QED
  BY <1>1, <1>2

LEMMA LiftLifts ==
    ASSUME rows \in [Rows -> LockdownRow], NEW r \in Rows, rows[r].state = "active",
           rows' = [rows EXCEPT ![r].state = "lifting"]
    PROVE  Lifecycle!Lift(r)
<1>1. Phases' = [Phases EXCEPT ![r] = Phase(r)']
  BY OneRowMoves
<1>2. Phases[r] \in {"unconfirmed", "confirmed"} /\ Phase(r)' = "lifting"
  BY DEF Phases, Phase, LockdownRow
<1> QED
  BY <1>1, <1>2 DEF Lifecycle!Lift, Lifecycle!Move, Lifecycle!Running, Phases

LEMMA FinishFinishes ==
    ASSUME rows \in [Rows -> LockdownRow], NEW r \in Rows, rows[r].state = "lifting",
           rows' = [rows EXCEPT ![r].state = "lifted"]
    PROVE  Lifecycle!Finish(r)
<1>1. Phases' = [Phases EXCEPT ![r] = Phase(r)']
  BY OneRowMoves
<1>2. Phases[r] = "lifting" /\ Phase(r)' = "lifted"
  BY DEF Phases, Phase, LockdownRow
<1> QED
  BY <1>1, <1>2 DEF Lifecycle!Finish, Lifecycle!Move, Phases

\* The grace and the rows nobody writes are no part of a row's life.
LEMMA AgeIsNoPhase ==
    ASSUME rows \in [Rows -> LockdownRow], NEW r \in Rows,
           \/ UNCHANGED rows
           \/ \E b \in BOOLEAN : rows' = [rows EXCEPT ![r].old = b]
    PROVE  UNCHANGED Phases
BY DEF Phases, Phase, LockdownRow

LEMMA InitRefines == Init => Lifecycle!Init
BY DEF Init, Lifecycle!Init, Phase

LEMMA StepRefines ==
    ASSUME IInv, [Next]_vars
    PROVE  Lifecycle!Next \/ UNCHANGED Phases
<1>a. rows \in [Rows -> LockdownRow]
  BY DEF IInv, TypeOK
<1>b. ASSUME UNCHANGED rows
      PROVE  UNCHANGED Phases
  BY <1>b DEF Phases, Phase
<1>1. CASE UNCHANGED vars
  BY <1>1, <1>b DEF vars
<1>2. ASSUME NEW s \in Starters, LockdownCommand(s) \/ StarterStep(s) \/ StarterStops(s)
      PROVE  Lifecycle!Next \/ UNCHANGED Phases
  <2>1. CASE Insert(s)
    BY <1>a, <1>b, <2>1, StartBegins DEF Insert, Lifecycle!Next
  <2>2. CASE RemoveRefused(s)
    <3>1. starter[s].rid \in Rows
      BY <2>2 DEF RemoveRefused, IInv, StartersOnRows, OnRow
    <3> QED
      BY <1>a, <1>b, <2>2, <3>1, DeleteDrops DEF RemoveRefused, Lifecycle!Next
  <2>3. CASE ConfirmStart(s)
    <3>1. starter[s].rid \in Rows
      BY <2>3 DEF ConfirmStart, IInv, StartersOnRows, OnRow
    <3> QED
      BY <1>a, <1>b, <2>3, <3>1, ConfirmConfirms DEF ConfirmStart, Lifecycle!Next
  <2>4. ASSUME \/ LockdownCommand(s) \/ LockdownReread(s) \/ Snapshot(s) \/ SendLock(s)
               \/ LockAnswered(s) \/ LockRefused(s) \/ LockUnknown(s) \/ StarterStops(s)
        PROVE  UNCHANGED Phases
    BY <1>b, <2>4 DEF LockdownCommand, LockdownReread, Snapshot, SendLock, LockAnswered,
                      LockRefused, LockUnknown, StarterStops
  <2> QED
    BY <1>2, <2>1, <2>2, <2>3, <2>4 DEF StarterStep
<1>3. ASSUME NEW l \in Lifters, LiftCommand(l) \/ LifterStep(l) \/ LifterStops(l)
      PROVE  Lifecycle!Next \/ UNCHANGED Phases
  <2>a. lifter[l].pc # "idle" => lifter[l].rid \in Rows
    BY DEF IInv, LiftersOnRows
  <2>1. CASE BeginLift(l)
    BY <1>a, <1>b, <2>1, <2>a, LiftLifts DEF BeginLift, Lifecycle!Next
  <2>2. CASE FinishAtOnce(l)
    BY <1>a, <1>b, <2>2, <2>a, FinishFinishes DEF FinishAtOnce, Lifecycle!Next
  <2>3. ASSUME LiftCommand(l) \/ SendRestore(l) \/ RestoreAnswered(l) \/ RestoreFailed(l)
               \/ LifterStops(l)
        PROVE  UNCHANGED Phases
    BY <1>b, <2>3 DEF LiftCommand, SendRestore, RestoreAnswered, RestoreFailed, LifterStops
  <2> QED
    BY <1>3, <2>1, <2>2, <2>3 DEF LifterStep
<1>4. ASSUME NEW a \in Settlers, NEW r \in Rows, SettleRead(a, r)
      PROVE  UNCHANGED Phases
  BY <1>a, <1>b, <1>4, AgeIsNoPhase DEF SettleRead, TouchLockdown
<1>5. ASSUME NEW a \in Settlers, SettleDecide(a)
      PROVE  Lifecycle!Next \/ UNCHANGED Phases
  <2>1. settler[a].rid \in Rows
    BY <1>5 DEF SettleDecide, IInv, SettlersOnRows
  <2> QED
    BY <1>a, <1>b, <1>5, <2>1, ConfirmConfirms, DeleteDrops DEF SettleDecide, Lifecycle!Next
<1>6. ASSUME NEW r \in Rows, GraceEnds(r) \/ FinishLift(r)
      PROVE  Lifecycle!Next \/ UNCHANGED Phases
  BY <1>a, <1>6, AgeIsNoPhase, FinishFinishes DEF GraceEnds, FinishLift, Lifecycle!Next
<1>7. ASSUME \/ \E w \in Workers : WorkerStops(w)
             \/ \E a \in Callers : TelegramApplies(a) \/ TelegramDrops(a)
             \/ AdminChangesPermissions
      PROVE  UNCHANGED Phases
  BY <1>b, <1>7 DEF WorkerStops, TelegramApplies, TelegramDrops, AdminChangesPermissions
<1> QED
  BY <1>1, <1>2, <1>3, <1>4, <1>5, <1>6, <1>7 DEF Next, SettleStep

\* The handlers, the worker replicas and the faults keep the promise of
\* LockdownLifecycle: at most one lockdown runs, a confirmed one ends only by a
\* lift, and a lift is recorded once.
THEOREM ImplementsLifecycle == Spec => LifecycleSpec
<1>1. Init => Lifecycle!Init
  BY InitRefines
<1>2. IInv /\ [Next]_vars => [Lifecycle!Next]_[r \in Rows |-> Phase(r)]
  BY StepRefines DEF Phases
<1> QED
  BY <1>1, <1>2, Invariance, PTL DEF Spec, LifecycleSpec, Lifecycle!Spec

-----------------------------------------------------------------------------
\* A start and a lift do not overlap: who owns the active row.

\* s wrote the active row and is not through with it, or its lock is in flight.
Owns(s) == starter[s].pc \in {"lock", "locking", "refused", "confirm"} \/ InFlight(s)

\* The lock of s has not taken effect: it may yet, or never will.
Unapplied(s) == starter[s].pc \in {"lock", "refused"} \/ InFlight(s)

BeingSettled(r) ==
    \/ \E a \in Settlers : settler[a].pc = "decide" /\ settler[a].rid = r
    \/ \E s \in Starters : starter[s].pc = "settle" /\ starter[s].rid = r

\* No settle may end r: its grace is not over.
Young(r) == ~rows[r].old /\ ~BeingSettled(r)

OneActive == \A q, r \in ActiveRows : q = r

LiftersAlone ==
    \A l \in Lifters : Lifting(l) => NoStartRunning /\ \A k \in Lifters \ {l} : ~Lifting(k)

StepsCall == \A s \in Starters : starter[s].pc \notin {"idle", "locking"} => ~InFlight(s)

StartersSettle == \A s \in Starters : settler[s].pc = "decide" => starter[s].pc = "settle"

StartersLock == \A s \in Starters : InFlight(s) => call[s].set = "locked"

LiftersUnlock == \A l \in Lifters : InFlight(l) => call[l].set # "locked"

PreUnlocked == \A r \in Rows : rows[r].pre # "locked"

OwnerHasRow ==
    \A s \in Starters : Owns(s) => ActiveRows # {} /\ \A t \in Starters : Owns(t) => t = s

ActiveIsYoung ==
    \A s \in Starters : Owns(s) \/ starter[s].pc \in {"snapshot", "insert"}
                          => \A r \in ActiveRows : Young(r)

SettledIsWritten == \A r \in Rows : BeingSettled(r) => rows[r].state # "none"

LockedHasRow == perm = "locked" => ActiveRows # {} /\ \A s \in Starters : ~Unapplied(s)

DecisionsHold ==
    \A a \in Settlers : settler[a].pc = "decide" /\ ~settler[a].same /\ Unconfirmed(settler[a].rid)
                          => perm # "locked"

SnapshotsHold ==
    \A s \in Starters : starter[s].pc = "insert" /\ starter[s].snap = "locked"
                          => ActiveRows # {} /\ \A t \in Starters : ~Unapplied(t)

RestoredIsUnlocked ==
    \A l \in Lifters : lifter[l].pc = "record" \/ (lifter[l].pc = "restoring" /\ ~InFlight(l))
                         => perm # "locked"

SInv ==
    /\ OneActive /\ LiftersAlone /\ StepsCall /\ StartersSettle /\ StartersLock
    /\ LiftersUnlock /\ PreUnlocked /\ OwnerHasRow /\ ActiveIsYoung /\ SettledIsWritten
    /\ LockedHasRow /\ DecisionsHold /\ SnapshotsHold /\ RestoredIsUnlocked

-----------------------------------------------------------------------------
\* What every step but an insert does to a row, its settles and a start.
Fades(r) ==
    /\ rows'[r].pre = rows[r].pre
    /\ rows'[r].state = "active" => rows[r].state = "active"
    /\ rows[r].state # "none" => rows'[r].state # "none"
    /\ Unconfirmed(r)' => Unconfirmed(r)
    /\ rows'[r].old => rows[r].old \/ NoStartRunning

SettlesOld(r) == BeingSettled(r)' => BeingSettled(r) \/ (rows[r].state = "active" /\ rows[r].old)

StartsNothing(s) ==
    /\ Owns(s)' => Owns(s)
    /\ Unapplied(s)' => Unapplied(s)
    /\ starter'[s].pc \in {"snapshot", "insert"} =>
          starter[s].pc \in {"snapshot", "insert"} \/ ActiveRows = {}

Calm ==
    /\ \A r \in Rows : Fades(r) /\ SettlesOld(r)
    /\ \A s \in Starters : StartsNothing(s)

\* A row that stops to be active is nobody's, and the group is not locked.
EndsWell == ActiveRows' # ActiveRows => perm' # "locked" /\ \A s \in Starters : ~Owns(s)'

LEMMA CalmRows ==
    ASSUME Calm, OneActive, PreUnlocked, SettledIsWritten
    PROVE  OneActive' /\ PreUnlocked' /\ SettledIsWritten'
<1>1. OneActive' /\ PreUnlocked'
  BY DEF Calm, Fades, SettlesOld, StartsNothing, OneActive, PreUnlocked, ActiveRows, Rows
<1>2. SettledIsWritten'
  BY DEF Calm, Fades, SettlesOld, StartsNothing, SettledIsWritten, Rows
<1> QED
  BY <1>1, <1>2

LEMMA CalmStarts ==
    ASSUME Calm, EndsWell, OwnerHasRow, ActiveIsYoung
    PROVE  OwnerHasRow' /\ ActiveIsYoung'
<1>1. OwnerHasRow'
  BY DEF Calm, Fades, SettlesOld, StartsNothing, EndsWell, OwnerHasRow
<1>2. ASSUME NEW s \in Starters, (Owns(s) \/ starter[s].pc \in {"snapshot", "insert"})',
             NEW r \in ActiveRows'
      PROVE  Young(r)'
  <2>1. r \in Rows /\ r \in ActiveRows
    BY <1>2 DEF Calm, Fades, SettlesOld, StartsNothing, ActiveRows, Rows
  <2>2. Owns(s) \/ starter[s].pc \in {"snapshot", "insert"}
    BY <1>2, <2>1 DEF Calm, Fades, SettlesOld, StartsNothing
  <2>3. Young(r) /\ ~NoStartRunning
    BY <2>1, <2>2 DEF ActiveIsYoung, NoStartRunning, Starting, Owns
  <2> QED
    BY <2>1, <2>3 DEF Calm, Fades, SettlesOld, StartsNothing, Young
<1> QED
  BY <1>1, <1>2 DEF ActiveIsYoung

LEMMA CalmLocks ==
    ASSUME Calm, EndsWell, LockedHasRow, perm' = "locked" => perm = "locked"
    PROVE  LockedHasRow'
BY DEF Calm, Fades, SettlesOld, StartsNothing, EndsWell, LockedHasRow

LEMMA CalmDecides ==
    ASSUME IInv, IInv', Calm, DecisionsHold, UNCHANGED settler,
           perm' = "locked" => perm = "locked"
    PROVE  DecisionsHold'
BY DEF Calm, Fades, SettlesOld, StartsNothing, DecisionsHold, IInv, SettlersOnRows

LEMMA CalmSnapshots ==
    ASSUME Calm, SnapshotsHold, ActiveRows' = ActiveRows,
           \A s \in Starters : starter'[s].pc = "insert" /\ starter'[s].snap = "locked"
                => starter[s].pc = "insert" /\ starter[s].snap = "locked"
    PROVE  SnapshotsHold'
BY DEF Calm, Fades, SettlesOld, StartsNothing, SnapshotsHold

-----------------------------------------------------------------------------
LEMMA SafeInit == Init => SInv
BY DEF Init, SInv, OneActive, LiftersAlone, StepsCall, StartersSettle, StartersLock,
       LiftersUnlock, PreUnlocked, OwnerHasRow, ActiveIsYoung, SettledIsWritten, LockedHasRow,
       DecisionsHold, SnapshotsHold, RestoredIsUnlocked, ActiveRows, Lifting,
       Starting, NoStartRunning, InFlight, Owns, Unapplied, BeingSettled, Young, Unconfirmed,
       IdleStarter, IdleLifter, IdleSettler, NoCall, Callers, Settlers

LEMMA OthersStay ==
    ASSUME NEW s \in Starters, starter'[s] = starter[s], call'[s] = call[s]
    PROVE  StartsNothing(s)
BY DEF StartsNothing, Owns, Unapplied, InFlight

LEMMA SameRows ==
    ASSUME UNCHANGED rows
    PROVE  /\ \A r \in Rows : Fades(r)
           /\ ActiveRows' = ActiveRows
BY DEF Fades, ActiveRows, Unconfirmed, Rows

-----------------------------------------------------------------------------
\* A step of starter s alone that starts no lockdown.
Alone(s) ==
    /\ \A t \in Starters \ {s} : starter'[t] = starter[t] /\ call'[t] = call[t]
    /\ \A l \in Lifters : call'[l] = call[l]
    /\ UNCHANGED <<perm, lifter>>

\* Where s is after the step fits its call, its settle and the lifters.
Fits(s) ==
    /\ starter'[s].pc \notin {"idle", "locking"} => ~InFlight(s)'
    /\ settler'[s].pc = "decide" => starter'[s].pc = "settle"
    /\ InFlight(s)' => call'[s].set = "locked"
    /\ Starting(s)' => Starting(s) \/ \A l \in Lifters : ~Lifting(l)
    /\ \A a \in Settlers : settler'[a].pc = "decide" => settler'[a] = settler[a]

LEMMA OneStarterMoves ==
    ASSUME IInv, IInv', SInv, NEW s \in Starters,
           Alone(s), Fits(s), Calm, EndsWell, SnapshotsHold'
    PROVE  SInv'
<1> USE DEF SInv, Alone, Fits
<1>1. OneActive' /\ PreUnlocked' /\ SettledIsWritten' /\ OwnerHasRow' /\ ActiveIsYoung'
  BY CalmRows, CalmStarts
<1>2. LockedHasRow'
  BY CalmLocks
<1>3. DecisionsHold'
  BY DEF DecisionsHold, Calm, Fades, IInv, SettlersOnRows
<1>4. StepsCall' /\ StartersSettle'
  BY DEF StepsCall, StartersSettle, InFlight, Settlers
<1>5. StartersLock' /\ LiftersUnlock' /\ RestoredIsUnlocked'
  BY DEF StartersLock, LiftersUnlock, RestoredIsUnlocked, InFlight
<1>6. LiftersAlone'
  BY DEF LiftersAlone, Lifting, NoStartRunning, Starting, InFlight
<1> QED
  BY <1>1, <1>2, <1>3, <1>4, <1>5, <1>6

LEMMA OneStarterIsCalm ==
    ASSUME NEW s \in Starters, Alone(s), StartsNothing(s),
           \A r \in Rows : Fades(r) /\ SettlesOld(r)
    PROVE  Calm
BY OthersStay DEF Alone, Calm

LEMMA ConfirmFades ==
    ASSUME rows \in [Rows -> LockdownRow], NEW c \in Rows, ConfirmLocked(c)
    PROVE  (\A r \in Rows : Fades(r)) /\ ActiveRows' = ActiveRows
BY DEF ConfirmLocked, Fades, ActiveRows, Unconfirmed, LockdownRow

LEMMA DeleteFades ==
    ASSUME rows \in [Rows -> LockdownRow], NEW c \in Rows, DeleteUnconfirmed(c)
    PROVE  /\ \A r \in Rows : Fades(r)
           /\ ActiveRows' = IF Unconfirmed(c) THEN ActiveRows \ {c} ELSE ActiveRows
BY DEF DeleteUnconfirmed, Fades, ActiveRows, Unconfirmed, LockdownRow

LEMMA TouchFades ==
    ASSUME rows \in [Rows -> LockdownRow], NEW c \in Rows, TouchLockdown(c)
    PROVE  (\A r \in Rows : Fades(r)) /\ ActiveRows' = ActiveRows
BY DEF TouchLockdown, Fades, ActiveRows, Unconfirmed, LockdownRow

\* The steps of a starter that write no row, and the confirmation.
QuietStep(s) ==
    \/ LockdownCommand(s) \/ LockdownReread(s) \/ Snapshot(s) \/ SendLock(s)
    \/ LockAnswered(s) \/ LockRefused(s) \/ LockUnknown(s) \/ ConfirmStart(s) \/ StarterStops(s)

LEMMA QuietStepSafe ==
    ASSUME IInv, IInv', SInv, ~Overlap, NEW s \in Starters, QuietStep(s)
    PROVE  SInv'
<1> USE DEF IInv, TypeOK, SInv, QuietStep, LockdownCommand, LockdownReread, Snapshot, SendLock,
        LockAnswered, LockRefused, LockUnknown, ConfirmStart, StarterStops,
        StarterGoes, StarterEnds, SettlerEnds, Send, Clear
<1>1. (\A r \in Rows : Fades(r)) /\ ActiveRows' = ActiveRows
  BY SameRows, ConfirmFades DEF StartersOnRows, OnRow
<1>2. ASSUME NEW r \in Rows
      PROVE  SettlesOld(r)
  <2>1. \A a \in Settlers : settler'[a].pc = "decide" => settler'[a] = settler[a]
    BY DEF Settler, IdleSettler
  <2>2. \A t \in Starters :
           starter'[t].pc = "settle" /\ starter'[t].rid = r
             => \/ starter[t].pc = "settle" /\ starter[t].rid = r
                \/ rows[r].state = "active" /\ rows[r].old
    BY DEF Starter, IdleStarter, ActiveRows
  <2> QED
    BY <2>1, <2>2 DEF SettlesOld, BeingSettled
<1>3. Alone(s)
  BY ActorsAssumption DEF Alone, Starter, Call, Callers
<1>4. StartsNothing(s)
  BY DEF StartsNothing, Owns, Unapplied, Starter, Call, InFlight, NoCall, IdleStarter, Callers
<1>5. Fits(s)
  BY DEF Fits, StepsCall, StartersSettle, StartersLock, Starting, AloneToStart, Starter,
         Settler, Call, InFlight, NoCall, IdleStarter, IdleSettler, Callers, Settlers
<1>6. Calm
  BY <1>1, <1>2, <1>3, <1>4, OneStarterIsCalm
<1>7. SnapshotsHold'
  <2>1. CASE Snapshot(s)
    <3>1. \A t \in Starters :
             starter'[t].pc = "insert" /\ starter'[t].snap = "locked"
               => perm = "locked" \/ (starter[t].pc = "insert" /\ starter[t].snap = "locked")
      BY <2>1 DEF Starter, IdleStarter
    <3> QED
      BY <1>1, <1>6, <3>1 DEF SnapshotsHold, LockedHasRow, Calm, StartsNothing
  <2>2. CASE ~Snapshot(s)
    <3>1. \A t \in Starters :
             starter'[t].pc = "insert" /\ starter'[t].snap = "locked"
               => starter[t].pc = "insert" /\ starter[t].snap = "locked"
      BY <2>2 DEF Starter, IdleStarter
    <3> QED
      BY <1>1, <1>6, <3>1, CalmSnapshots
  <2> QED
    BY <2>1, <2>2
<1> QED
  BY <1>1, <1>3, <1>5, <1>6, <1>7, OneStarterMoves DEF EndsWell

LEMMA RefusedSafe ==
    ASSUME IInv, IInv', SInv, NEW s \in Starters, RemoveRefused(s)
    PROVE  SInv'
<1> USE DEF IInv, TypeOK, SInv, RemoveRefused, StarterEnds
<1>1. /\ \A r \in Rows : Fades(r)
      /\ ActiveRows' # ActiveRows => perm # "locked"
  BY SameRows, DeleteFades DEF StartersOnRows, OnRow, LockedHasRow, Unapplied
<1>2. \A r \in Rows : SettlesOld(r)
  BY DEF SettlesOld, BeingSettled, Starter, IdleStarter
<1>3. Alone(s)
  BY DEF Alone, Starter
<1>4. StartsNothing(s) /\ ~Owns(s)'
  BY DEF StartsNothing, StepsCall, Owns, Unapplied, Starter, InFlight, IdleStarter
<1>5. Fits(s)
  BY DEF Fits, StepsCall, StartersSettle, Starting, InFlight, Starter, IdleStarter, Settlers
<1>6. Calm
  BY <1>1, <1>2, <1>3, <1>4, OneStarterIsCalm
<1>7. \A t \in Starters : ~Owns(t)'
  BY <1>3, <1>4 DEF Alone, OwnerHasRow, Owns, InFlight
<1>8. SnapshotsHold'
  BY <1>3 DEF Alone, SnapshotsHold, Unapplied, Starter, IdleStarter
<1> QED
  BY <1>1, <1>3, <1>5, <1>6, <1>7, <1>8, OneStarterMoves DEF EndsWell

LEMMA NewRowSafe ==
    ASSUME IInv, SInv, NEW s \in Starters, starter[s].pc = "insert",
           NEW r \in Rows, StartRow(r, starter[s].snap),
           starter' = [starter EXCEPT ![s].pc = "lock", ![s].rid = r],
           UNCHANGED <<perm, call, lifter, settler>>
    PROVE  SInv'
<1> USE DEF IInv, TypeOK, SInv
<1>1. /\ ActiveRows = {}
      /\ perm # "locked"
      /\ starter[s].snap # "locked"
      /\ \A t \in Starters : ~Owns(t)
  BY DEF StartRow, LockedHasRow, SnapshotsHold, OwnerHasRow
<1>2. \A l \in Lifters : ~Lifting(l)
  BY DEF LiftersAlone, NoStartRunning, Starting
<1>3. /\ starter'[s].pc = "lock" /\ starter'[s].rid = r
      /\ \A t \in Starters \ {s} : starter'[t] = starter[t]
  BY DEF Starter
<1>4. /\ rows'[r] = [state |-> "active", lockedAt |-> FALSE,
                   pre |-> starter[s].snap, old |-> FALSE]
      /\ \A q \in Rows \ {r} : rows'[q] = rows[q]
      /\ rows[r].state = "none"
  BY DEF StartRow
<1>5. ActiveRows' = {r}
  BY <1>1, <1>4 DEF ActiveRows, Rows
<1>6. \A q \in Rows : BeingSettled(q)' => BeingSettled(q) /\ q # r
  BY <1>3, <1>4 DEF BeingSettled, SettledIsWritten
<1>7. OneActive' /\ PreUnlocked' /\ SettledIsWritten'
  BY <1>1, <1>4, <1>5, <1>6 DEF OneActive, PreUnlocked, SettledIsWritten, Rows
<1>8. LiftersAlone' /\ LiftersUnlock' /\ RestoredIsUnlocked'
  BY <1>1, <1>2
  DEF LiftersAlone, Lifting, LiftersUnlock, RestoredIsUnlocked, InFlight
<1>9. StepsCall' /\ StartersSettle' /\ StartersLock'
  BY <1>3 DEF StepsCall, StartersSettle, StartersLock, InFlight
<1>10. OwnerHasRow'
  BY <1>1, <1>3, <1>5 DEF OwnerHasRow, Owns, InFlight
<1>11. ActiveIsYoung'
  BY <1>4, <1>5, <1>6 DEF ActiveIsYoung, Young
<1>12. LockedHasRow' /\ DecisionsHold'
  BY <1>1 DEF LockedHasRow, DecisionsHold
<1>13. SnapshotsHold'
  BY <1>1, <1>3 DEF SnapshotsHold
<1> QED
  BY <1>7, <1>8, <1>9, <1>10, <1>11, <1>12, <1>13

LEMMA InsertSafe ==
    ASSUME IInv, IInv', SInv, NEW s \in Starters, Insert(s)
    PROVE  SInv'
<1> USE DEF IInv, TypeOK, SInv
<1>0. starter[s].pc = "insert"
  BY DEF Insert
<1>1. CASE StarterEnds(s) /\ UNCHANGED <<rows, perm, call, lifter, settler>>
  <2> USE <1>1 DEF StarterEnds
  <2>1. (\A r \in Rows : Fades(r)) /\ ActiveRows' = ActiveRows
    BY SameRows
  <2>2. (\A r \in Rows : SettlesOld(r)) /\ Alone(s)
    BY DEF SettlesOld, BeingSettled, Alone, Starter, IdleStarter
  <2>3. StartsNothing(s)
    BY DEF StartsNothing, Owns, Unapplied, InFlight, Starter, IdleStarter
  <2>4. Fits(s)
    <3>1. starter'[s].pc = "idle"
      BY DEF Starter, IdleStarter
    <3> QED
      BY <1>0, <3>1 DEF Fits, StartersSettle, StartersLock, Starting, InFlight, Settlers
  <2>5. Calm
    BY <2>1, <2>2, <2>3, OneStarterIsCalm
  <2>6. SnapshotsHold'
    BY <2>1, <2>5, CalmSnapshots DEF Starter, IdleStarter
  <2> QED
    BY <2>1, <2>2, <2>4, <2>5, <2>6, OneStarterMoves DEF EndsWell
<1> QED
  BY <1>1, NewRowSafe DEF Insert

-----------------------------------------------------------------------------
LEMMA SettlingIsSafe ==
    ASSUME IInv, IInv', SInv, UNCHANGED <<perm, call, lifter>>, Calm, EndsWell,
           \A s \in Starters : \/ starter'[s] = starter[s]
                               \/ starter[s].pc = "settle" /\ starter'[s].pc # "locking",
           StartersSettle', DecisionsHold', SnapshotsHold'
    PROVE  SInv'
<1> USE DEF SInv
<1>1. OneActive' /\ PreUnlocked' /\ SettledIsWritten' /\ OwnerHasRow' /\ ActiveIsYoung'
  BY CalmRows, CalmStarts
<1>2. LockedHasRow'
  BY CalmLocks
<1>3. StepsCall' /\ StartersLock' /\ LiftersUnlock' /\ RestoredIsUnlocked'
  BY DEF StepsCall, StartersLock, LiftersUnlock, RestoredIsUnlocked, InFlight
<1>4. LiftersAlone'
  BY DEF LiftersAlone, Lifting, NoStartRunning, Starting, InFlight
<1> QED
  BY <1>1, <1>2, <1>3, <1>4

LEMMA SettleReadSafe ==
    ASSUME IInv, IInv', SInv, NEW a \in Settlers, NEW r \in Rows, SettleRead(a, r)
    PROVE  SInv'
<1> USE DEF IInv, TypeOK, SInv, SettleRead, StarterEnds
<1>1. (\A q \in Rows : Fades(q)) /\ ActiveRows' = ActiveRows
  BY SameRows, TouchFades
<1>2. /\ \A s \in Starters : \/ starter'[s] = starter[s]
                             \/ starter[s].pc = "settle" /\ starter'[s].pc = "idle"
      /\ a \in Starters => starter[a].pc = "settle"
  BY ActorsAssumption DEF MaySettle, Starter, IdleStarter
<1>3. \A s \in Starters : StartsNothing(s)
  BY <1>2 DEF StartsNothing, Owns, Unapplied, InFlight
<1>4. CASE UNCHANGED settler
  <2>1. \A q \in Rows : SettlesOld(q)
    BY <1>2, <1>4 DEF SettlesOld, BeingSettled
  <2>2. Calm
    BY <1>1, <1>3, <2>1 DEF Calm
  <2>3. DecisionsHold' /\ SnapshotsHold'
    BY <1>1, <1>2, <1>4, <2>2, CalmDecides, CalmSnapshots
  <2>4. StartersSettle'
    BY <1>2, <1>4 DEF StartersSettle, MaySettle, Settlers, Starter, IdleStarter, SettlersOnRows
  <2> QED
    BY <1>1, <1>2, <2>2, <2>3, <2>4, SettlingIsSafe DEF EndsWell
<1>5. CASE settler' = [settler EXCEPT ![a] = [pc |-> "decide", rid |-> r,
                                              same |-> perm = "locked"]]
           /\ UNCHANGED <<rows, starter>>
  <2>1. \A q \in Rows : SettlesOld(q)
    BY <1>5 DEF SettlesOld, BeingSettled, MaySettle, Unconfirmed, Settler
  <2>2. Calm
    BY <1>1, <1>3, <2>1 DEF Calm
  <2>3. SnapshotsHold'
    BY <1>1, <1>5, <2>2, CalmSnapshots
  <2>4. \A b \in Settlers : settler'[b] = IF b = a THEN [pc |-> "decide", rid |-> r,
                                                        same |-> perm = "locked"]
                                                  ELSE settler[b]
    BY <1>5
  <2>5. DecisionsHold'
    BY <1>5, <2>4 DEF DecisionsHold, Unconfirmed
  <2>6. StartersSettle'
    BY <1>2, <1>5, <2>4 DEF StartersSettle, Settlers
  <2> QED
    BY <1>1, <1>5, <2>2, <2>3, <2>5, <2>6, SettlingIsSafe DEF EndsWell
<1> QED
  BY <1>4, <1>5

LEMMA SettleDecideSafe ==
    ASSUME IInv, IInv', SInv, NEW a \in Settlers, SettleDecide(a)
    PROVE  SInv'
<1> USE DEF IInv, TypeOK, SInv, SettleDecide, SettlerEnds, StarterEnds, StarterGoes
<1> DEFINE c == settler[a].rid
<1>1. c \in Rows /\ BeingSettled(c)
  BY DEF SettlersOnRows, BeingSettled
<1>2. \A q \in Rows : Fades(q)
  BY <1>1, SameRows, ConfirmFades, DeleteFades
<1>3. /\ \A s \in Starters : \/ starter'[s] = starter[s]
                             \/ starter[s].pc = "settle" /\ starter'[s].pc \in {"idle", "reread"}
      /\ a \in Starters => starter'[a].pc \in {"idle", "reread"}
  BY DEF StartersSettle, Starter, IdleStarter
<1>4. \A s \in Starters : StartsNothing(s)
  BY <1>3 DEF StartsNothing, Owns, Unapplied, InFlight
<1>5. \A b \in Settlers : settler'[b].pc = "decide" => b # a /\ settler'[b] = settler[b]
  BY DEF Settler, IdleSettler
<1>6. \A q \in Rows : SettlesOld(q)
  BY <1>3, <1>5 DEF SettlesOld, BeingSettled
<1>7. Calm
  BY <1>2, <1>4, <1>6 DEF Calm
<1>8. ActiveRows' # ActiveRows =>
          /\ c \in ActiveRows
          /\ perm # "locked"
  BY <1>1, SameRows, ConfirmFades, DeleteFades DEF DecisionsHold, ActiveRows, Unconfirmed
<1>9. ActiveRows' # ActiveRows =>
          \A s \in Starters : ~Owns(s) /\ starter[s].pc \notin {"snapshot", "insert"}
  BY <1>1, <1>8 DEF ActiveIsYoung, Young
<1>10. EndsWell
  BY <1>4, <1>8, <1>9 DEF EndsWell, StartsNothing
<1>11. SnapshotsHold'
  <2>1. CASE ActiveRows' = ActiveRows
    BY <1>3, <1>7, <2>1, CalmSnapshots
  <2>2. CASE ActiveRows' # ActiveRows
    BY <1>3, <1>9, <2>2 DEF SnapshotsHold
  <2> QED
    BY <2>1, <2>2
<1>12. DecisionsHold'
  BY <1>2, <1>5 DEF DecisionsHold, Fades, SettlersOnRows
<1>13. StartersSettle'
  BY <1>3, <1>5 DEF StartersSettle, Settlers
<1> QED
  BY <1>3, <1>7, <1>10, <1>11, <1>12, <1>13, SettlingIsSafe

LEMMA WorkerStopsSafe ==
    ASSUME IInv, IInv', SInv, NEW w \in Workers, WorkerStops(w)
    PROVE  SInv'
<1> USE DEF IInv, TypeOK, SInv, WorkerStops, SettlerEnds
<1>1. (\A q \in Rows : Fades(q)) /\ ActiveRows' = ActiveRows
  BY SameRows
<1>2. \A b \in Settlers : settler'[b].pc = "decide" => settler'[b] = settler[b]
  BY DEF Settler, IdleSettler
<1>3. Calm
  BY <1>1, <1>2, OthersStay DEF Calm, SettlesOld, BeingSettled
<1>4. DecisionsHold' /\ SnapshotsHold' /\ StartersSettle'
  BY <1>1, <1>2, <1>3, CalmSnapshots DEF DecisionsHold, StartersSettle, Settlers, Unconfirmed
<1> QED
  BY <1>1, <1>3, <1>4, SettlingIsSafe DEF EndsWell

-----------------------------------------------------------------------------
\* What SInv says of the lifters, and of everything else.
LiftersPart == LiftersAlone /\ LiftersUnlock /\ RestoredIsUnlocked

StartersPart ==
    /\ OneActive /\ StepsCall /\ StartersSettle /\ StartersLock /\ PreUnlocked /\ OwnerHasRow
    /\ ActiveIsYoung /\ SettledIsWritten /\ LockedHasRow /\ DecisionsHold /\ SnapshotsHold

LEMMA StartersRest ==
    ASSUME IInv, IInv', StartersPart, UNCHANGED <<starter, settler>>,
           \A s \in Starters : call'[s] = call[s], \A r \in Rows : Fades(r), EndsWell,
           perm' = "locked" => perm = "locked", ActiveRows' = ActiveRows \/ NoStartRunning
    PROVE  StartersPart'
<1> USE DEF StartersPart
<1>1. Calm
  BY OthersStay DEF Calm, SettlesOld, BeingSettled
<1>2. OneActive' /\ PreUnlocked' /\ SettledIsWritten' /\ OwnerHasRow' /\ ActiveIsYoung'
  BY <1>1, CalmRows, CalmStarts
<1>3. LockedHasRow' /\ DecisionsHold'
  BY <1>1, CalmLocks, CalmDecides
<1>4. StepsCall' /\ StartersSettle' /\ StartersLock'
  BY DEF StepsCall, StartersSettle, StartersLock, InFlight
<1>5. SnapshotsHold'
  <2>1. CASE ActiveRows' = ActiveRows
    BY <1>1, <2>1, CalmSnapshots
  <2>2. CASE NoStartRunning
    BY <2>2 DEF SnapshotsHold, NoStartRunning, Starting
  <2> QED
    BY <2>1, <2>2
<1> QED
  BY <1>2, <1>3, <1>4, <1>5

LEMMA LifterSafe ==
    ASSUME IInv, IInv', SInv, ~Overlap, NEW l \in Lifters,
           LiftCommand(l) \/ LifterStep(l) \/ LifterStops(l)
    PROVE  SInv'
<1> USE DEF IInv, TypeOK, SInv, LifterGoes, LifterEnds, Send, Clear
<1>1. /\ UNCHANGED <<perm, starter, settler>>
      /\ \A a \in Callers \ {l} : call'[a] = call[a]
      /\ \A k \in Lifters \ {l} : lifter'[k] = lifter[k]
  BY DEF LiftCommand, LifterStep, SendRestore, RestoreAnswered, RestoreFailed, BeginLift,
         FinishAtOnce, LifterStops, Call, Lifter, Callers
<1>2. \A s \in Starters : call'[s] = call[s]
  BY <1>1, ActorsAssumption DEF Callers
<1>3. /\ NoStartRunning
      /\ \A k \in Lifters \ {l} : ~Lifting(k)
  BY DEF LiftersAlone, Lifting, LiftCommand, AloneToLift, LifterStep, SendRestore,
         RestoreAnswered, RestoreFailed, BeginLift, FinishAtOnce, LifterStops
<1>4. LiftersAlone'
  BY <1>1, <1>2, <1>3 DEF LiftersAlone, NoStartRunning, Starting, Lifting, InFlight, Callers
<1>5. CASE LiftCommand(l)
  <2> USE <1>5 DEF LiftCommand
  <2>1. StartersPart'
    BY <1>1, <1>2, SameRows, StartersRest DEF EndsWell, StartersPart
  <2>2. LiftersUnlock' /\ RestoredIsUnlocked'
    BY <1>1 DEF LiftersUnlock, RestoredIsUnlocked, InFlight
  <2> QED
    BY <1>4, <2>1, <2>2 DEF StartersPart
<1>6. CASE SendRestore(l) \/ RestoreAnswered(l) \/ RestoreFailed(l) \/ LifterStops(l)
  <2>1. UNCHANGED rows
    BY <1>6 DEF SendRestore, RestoreAnswered, RestoreFailed, LifterStops
  <2>2. StartersPart'
    BY <1>1, <1>2, <2>1, SameRows, StartersRest DEF EndsWell, StartersPart
  <2>3. LiftersUnlock'
    BY <1>1, <1>6 DEF LiftersUnlock, InFlight, SendRestore, RestoreAnswered, RestoreFailed,
                      LifterStops, Call, Callers, NoCall, PreUnlocked, LiftersOnRows
  <2>4. RestoredIsUnlocked'
    BY <1>1, <1>6 DEF RestoredIsUnlocked, InFlight, SendRestore, RestoreAnswered, RestoreFailed,
                      LifterStops, Call, Callers, NoCall, Lifter, IdleLifter
  <2> QED
    BY <1>4, <2>2, <2>3, <2>4 DEF StartersPart
<1>7. CASE BeginLift(l) \/ FinishAtOnce(l)
  <2>1. \A r \in Rows : Fades(r)
    BY <1>7, SameRows DEF BeginLift, FinishAtOnce, Fades, Unconfirmed, LockdownRow
  <2>2. ActiveRows' # ActiveRows => perm # "locked"
    BY <1>7, SameRows DEF BeginLift, FinishAtOnce, ActiveRows, LockdownRow, RestoredIsUnlocked
  <2>3. EndsWell
    BY <1>1, <1>2, <1>3, <2>2 DEF EndsWell, NoStartRunning, Starting, Owns, InFlight
  <2>4. StartersPart'
    BY <1>1, <1>2, <1>3, <2>1, <2>3, StartersRest DEF StartersPart
  <2>5. LiftersUnlock' /\ RestoredIsUnlocked'
    BY <1>1, <1>7 DEF LiftersUnlock, RestoredIsUnlocked, InFlight, BeginLift, FinishAtOnce,
                      Lifter, IdleLifter
  <2> QED
    BY <1>4, <2>4, <2>5 DEF StartersPart
<1> QED
  BY <1>5, <1>6, <1>7 DEF LifterStep

-----------------------------------------------------------------------------
LEMMA LockAppliedSafe ==
    ASSUME IInv, SInv, NEW s \in Starters, TelegramApplies(s)
    PROVE  SInv'
<1> USE DEF IInv, TypeOK, SInv, TelegramApplies, Clear
<1>1. /\ UNCHANGED <<rows, starter, lifter, settler>>
      /\ \A a \in Callers \ {s} : call'[a] = call[a]
      /\ perm' = "locked"
      /\ ~InFlight(s)'
  BY DEF StartersLock, InFlight, Call, Callers, NoCall
<1>2. /\ ActiveRows # {}
      /\ \A t \in Starters : Owns(t) => t = s
      /\ \A r \in ActiveRows : Young(r)
  BY DEF OwnerHasRow, ActiveIsYoung, Owns
<1>3. \A l \in Lifters : ~Lifting(l)
  BY DEF LiftersAlone, NoStartRunning, Starting
<1>4. ActiveRows' = ActiveRows
  BY <1>1, SameRows
<1>5. \A t \in Starters : InFlight(t)' => InFlight(t) /\ t # s /\ call'[t] = call[t]
  BY <1>1 DEF InFlight, Callers
<1>6. \A l \in Lifters : call'[l] = call[l]
  BY <1>1, ActorsAssumption DEF Callers
<1>7. OneActive' /\ PreUnlocked' /\ SettledIsWritten' /\ StartersSettle'
  BY <1>1, <1>4 DEF OneActive, PreUnlocked, SettledIsWritten, BeingSettled, StartersSettle
<1>8. LiftersAlone' /\ LiftersUnlock' /\ RestoredIsUnlocked'
  BY <1>1, <1>3, <1>4, <1>6
  DEF LiftersAlone, Lifting, LiftersUnlock, RestoredIsUnlocked, InFlight
<1>9. StepsCall' /\ StartersLock'
  BY <1>1, <1>5 DEF StepsCall, StartersLock
<1>10. \A t \in Starters : Owns(t)' => Owns(t)
  BY <1>1, <1>5 DEF Owns
<1>11. OwnerHasRow' /\ ActiveIsYoung'
  BY <1>1, <1>2, <1>4, <1>10 DEF OwnerHasRow, ActiveIsYoung, Young, BeingSettled
<1>12. \A t \in Starters : ~Unapplied(t)'
  <2>1. starter[s].pc \in {"idle", "locking"}
    BY DEF StepsCall
  <2> QED
    BY <1>1, <1>2, <1>5, <2>1 DEF Unapplied, Owns
<1>13. LockedHasRow' /\ SnapshotsHold'
  BY <1>2, <1>4, <1>12 DEF LockedHasRow, SnapshotsHold
<1>14. DecisionsHold'
  BY <1>1, <1>2 DEF DecisionsHold, Unconfirmed, ActiveRows, Young, BeingSettled, SettlersOnRows
<1> QED
  BY <1>7, <1>8, <1>9, <1>11, <1>13, <1>14

LEMMA LockDroppedSafe ==
    ASSUME IInv, IInv', SInv, NEW s \in Starters, TelegramDrops(s)
    PROVE  SInv'
<1> USE DEF IInv, TypeOK, SInv, TelegramDrops, Clear
<1>1. (\A r \in Rows : Fades(r)) /\ ActiveRows' = ActiveRows
  BY SameRows
<1>2. Alone(s) /\ ~InFlight(s)'
  BY ActorsAssumption DEF Alone, InFlight, Call, Callers, NoCall
<1>3. StartsNothing(s) /\ Fits(s)
  BY <1>2 DEF StartsNothing, Owns, Unapplied, Fits, StartersSettle, Starting, Settlers
<1>4. Calm
  BY <1>1, <1>2, <1>3, OneStarterIsCalm DEF SettlesOld, BeingSettled
<1>5. SnapshotsHold'
  BY <1>1, <1>4, CalmSnapshots
<1> QED
  BY <1>1, <1>2, <1>3, <1>4, <1>5, OneStarterMoves DEF EndsWell

LEMMA RestoreAppliedSafe ==
    ASSUME IInv, IInv', SInv, NEW l \in Lifters, TelegramApplies(l) \/ TelegramDrops(l)
    PROVE  SInv'
<1> USE DEF IInv, TypeOK, SInv, TelegramApplies, TelegramDrops, Clear
<1>1. /\ UNCHANGED <<rows, starter, lifter, settler>>
      /\ \A a \in Callers \ {l} : call'[a] = call[a]
      /\ ~InFlight(l)'
      /\ perm' = "locked" => perm = "locked"
  BY DEF LiftersUnlock, InFlight, Call, Callers, NoCall
<1>2. \A s \in Starters : call'[s] = call[s]
  BY <1>1, ActorsAssumption DEF Callers
<1>3. ActiveRows' = ActiveRows /\ \A r \in Rows : Fades(r)
  BY <1>1, SameRows
<1>4. StartersPart'
  BY <1>1, <1>2, <1>3, StartersRest DEF EndsWell, StartersPart
<1>5. LiftersAlone' /\ LiftersUnlock'
  BY <1>1, <1>2, <1>3
  DEF LiftersAlone, Lifting, NoStartRunning, Starting, LiftersUnlock, InFlight,
      Callers
<1>6. RestoredIsUnlocked'
  BY <1>1 DEF RestoredIsUnlocked, LiftersUnlock, InFlight, Waiting, Callers
<1> QED
  BY <1>4, <1>5, <1>6 DEF StartersPart

LEMMA TheRestIsSafe ==
    ASSUME IInv, IInv', SInv,
           \/ \E r \in Rows : GraceEnds(r) \/ FinishLift(r)
           \/ AdminChangesPermissions
           \/ UNCHANGED vars
    PROVE  SInv'
<1> USE DEF IInv, TypeOK, SInv
<1>1. /\ UNCHANGED <<call, starter, lifter, settler>>
      /\ perm' = "locked" => perm = "locked"
  BY DEF GraceEnds, FinishLift, AdminChangesPermissions, vars
<1>2. ActiveRows' = ActiveRows /\ \A r \in Rows : Fades(r)
  <2>1. CASE UNCHANGED rows
    BY <2>1, SameRows
  <2>2. ASSUME NEW r \in Rows, GraceEnds(r) \/ FinishLift(r)
        PROVE  ActiveRows' = ActiveRows /\ \A q \in Rows : Fades(q)
    <3>1. rows \in [Rows -> LockdownRow]
      OBVIOUS
    <3>2. CASE GraceEnds(r)
      <4>1. /\ rows' = [rows EXCEPT ![r].old = TRUE]
            /\ rows[r].state = "active"
            /\ NoStartRunning
        BY <3>2 DEF GraceEnds, Unconfirmed
      <4> QED
        BY ONLY <3>1, <4>1 DEF Fades, ActiveRows, Unconfirmed, LockdownRow
    <3>3. CASE FinishLift(r)
      <4>1. /\ rows' = [rows EXCEPT ![r].state = "lifted"]
            /\ rows[r].state = "lifting"
        BY <3>3 DEF FinishLift
      <4> QED
        BY ONLY <3>1, <4>1 DEF Fades, ActiveRows, Unconfirmed, LockdownRow
    <3> QED
      BY <2>2, <3>2, <3>3
  <2> QED
    BY <2>1, <2>2 DEF AdminChangesPermissions, vars
<1>3. StartersPart'
  BY <1>1, <1>2, StartersRest DEF EndsWell, StartersPart
<1>4. LiftersAlone' /\ LiftersUnlock' /\ RestoredIsUnlocked'
  BY <1>1, <1>2 DEF LiftersAlone, Lifting, NoStartRunning, Starting, LiftersUnlock,
                    RestoredIsUnlocked, InFlight
<1> QED
  BY <1>3, <1>4 DEF StartersPart

-----------------------------------------------------------------------------
LEMMA NextSafe ==
    ASSUME ~Overlap, IInv, IInv', SInv, [Next]_vars
    PROVE  SInv'
<1>1. ASSUME NEW s \in Starters, LockdownCommand(s) \/ StarterStep(s) \/ StarterStops(s)
      PROVE  SInv'
  BY <1>1, QuietStepSafe, RefusedSafe, InsertSafe DEF StarterStep, QuietStep
<1>2. ASSUME NEW l \in Lifters, LiftCommand(l) \/ LifterStep(l) \/ LifterStops(l)
      PROVE  SInv'
  BY <1>2, LifterSafe
<1>3. ASSUME NEW a \in Settlers, SettleStep(a)
      PROVE  SInv'
  BY <1>3, SettleReadSafe, SettleDecideSafe DEF SettleStep
<1>4. ASSUME NEW w \in Workers, WorkerStops(w)
      PROVE  SInv'
  BY <1>4, WorkerStopsSafe
<1>5. ASSUME NEW a \in Callers, TelegramApplies(a) \/ TelegramDrops(a)
      PROVE  SInv'
  BY <1>5, LockAppliedSafe, LockDroppedSafe, RestoreAppliedSafe DEF Callers
<1>6. CASE \/ \E r \in Rows : GraceEnds(r) \/ FinishLift(r)
           \/ AdminChangesPermissions
           \/ UNCHANGED vars
  BY <1>6, TheRestIsSafe
<1> QED
  BY <1>1, <1>2, <1>3, <1>4, <1>5, <1>6 DEF Next

\* The inductive invariant the theorems below follow from.
LEMMA SafeInvariance == ~Overlap => (Spec => [](IInv /\ SInv))
<1> SUFFICES ASSUME ~Overlap
             PROVE  Spec => [](IInv /\ SInv)
  OBVIOUS
<1>1. Init => IInv /\ SInv
  BY InitIInv, SafeInit
<1>2. IInv /\ SInv /\ [Next]_vars => (IInv /\ SInv)'
  BY NextIInv, NextSafe
<1> QED
  BY <1>1, <1>2, PTL DEF Spec

\* While no start overlaps a lift, a group is never left locked with no lockdown
\* to lift, whatever times out, is refused, fails or stops half way: LockedHasRow
\* ties the locked permissions of startLockdownRow to a running row.
THEOREM NeverLeftLocked == ~Overlap => (Spec => []EndedMeansUnlocked)
<1>1. SInv => EndedMeansUnlocked
  BY DEF SInv, LockedHasRow, EndedMeansUnlocked
<1> QED
  BY <1>1, SafeInvariance, PTL

\* While no start overlaps a lift, no running lockdown would put the locked set
\* back: what startLockdownRow read before the insert was the unlocked group's.
THEOREM AlwaysRestorable == ~Overlap => (Spec => []PreIsRestorable)
<1>1. SInv => PreIsRestorable
  BY DEF SInv, PreUnlocked, PreIsRestorable, ActiveRows
<1> QED
  BY <1>1, SafeInvariance, PTL

\* While no start overlaps a lift, liftLockdownRow records a lift only of a group
\* that is unlocked: only BeginLift makes a row "lifting", and its restore holds.
THEOREM LiftsUnlockFirst == ~Overlap => (Spec => LiftOnlyUnlocked)
<1> DEFINE Step == \A r \in Rows : rows[r].state = "active" /\ rows'[r].state = "lifting"
                                      => perm # "locked"
<1>1. IInv /\ SInv /\ [Next]_vars => [Step]_vars
  <2> SUFFICES ASSUME IInv, SInv, Next,
                      NEW r \in Rows, rows[r].state = "active", rows'[r].state = "lifting"
               PROVE  perm # "locked"
    BY DEF vars
  <2> USE DEF IInv, TypeOK, LockdownRow
  <2>1. /\ ~UNCHANGED rows
        /\ \A q \in Rows : ~ConfirmLocked(q) /\ ~DeleteUnconfirmed(q) /\ ~TouchLockdown(q)
    BY DEF ConfirmLocked, DeleteUnconfirmed, TouchLockdown
  <2>2. \A s \in Starters : ~(LockdownCommand(s) \/ StarterStep(s) \/ StarterStops(s))
    <3>1. \A s \in Starters : ~Insert(s)
      BY <2>1 DEF Insert, StartRow
    <3>2. \A s \in Starters : ~RemoveRefused(s) /\ ~ConfirmStart(s)
      BY <2>1 DEF RemoveRefused, ConfirmStart, StartersOnRows, OnRow
    <3> QED
      BY <2>1, <3>1, <3>2 DEF LockdownCommand, StarterStep, StarterStops, LockdownReread,
                              Snapshot, SendLock, LockAnswered, LockRefused, LockUnknown
  <2>3. \A a \in Settlers : ~SettleStep(a)
    BY <2>1 DEF SettleStep, SettleRead, SettleDecide, SettlersOnRows
  <2>4. \A l \in Lifters : LiftCommand(l) \/ LifterStep(l) \/ LifterStops(l) => BeginLift(l)
    BY <2>1 DEF LiftCommand, LifterStep, LifterStops, SendRestore, RestoreAnswered,
                RestoreFailed, FinishAtOnce
  <2>5. \A q \in Rows : ~GraceEnds(q) /\ ~FinishLift(q)
    BY DEF GraceEnds, FinishLift
  <2>6. PICK l \in Lifters : BeginLift(l)
    BY <2>1, <2>2, <2>3, <2>4, <2>5
    DEF Next, WorkerStops, TelegramApplies, TelegramDrops, AdminChangesPermissions
  <2> QED
    BY <2>6 DEF BeginLift, SInv, RestoredIsUnlocked
<1> QED
  BY <1>1, SafeInvariance, PTL DEF Spec, LiftOnlyUnlocked
=============================================================================

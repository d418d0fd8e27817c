----------------------- MODULE LockdownClaims_proofs -----------------------
(***************************************************************************)
(* The claims and the bans of LockdownJoiners, for any people, workers,    *)
(* updates and faults: a row is in one worker's hands, a ban placed by     *)
(* hand is left alone, and nobody is banned once the lift ended; a ban is  *)
(* one a row tells the lift of, and a lift that ended left none but those  *)
(* it names as failed.                                                     *)
(***************************************************************************)
EXTENDS LockdownJoiners_proofs

\* At work is at work on one row of the batch.
HandInv ==
    \A w \in Workers :
        /\ worker[w].on = {} <=> worker[w].pc \notin Banning \cup Lifting
        /\ \A u \in worker[w].on : worker[w].on = {u} /\ u \in BatchOf(w)

\* A request's row has no date; that of any other joiner who was not let in has.
WellDated(row) ==
    /\ row.path = "request" => row.until = 0
    /\ row.state \notin {"none", "exempt"} /\ row.path # "request" => row.until # 0

RowsDated == \A u \in Users : WellDated(rows[u])

\* The ban pass has listed pending rows, and bans no request.
BatchDated ==
    \A w \in Workers :
        /\ worker[w].pc \in {"bans"} \cup Banning =>
             \A u \in BatchOf(w) : WellDated(worker[w].batch[u]) /\ worker[w].batch[u].state = "pending"
        /\ worker[w].pc \in {"look", "ban"} =>
             \A u \in worker[w].on : worker[w].batch[u].path # "request"

\* Between its look and its call a worker has nobody who was banned by hand.
LookInv ==
    \A w \in Workers : worker[w].pc \in {"ban", "unban"} =>
        \A u \in worker[w].on : tg[u] # Kicked(0)

IdsInv ==
    \A d \in Updates : Unwritten(d) =>
        /\ \A u \in Users : rows[u].id # d
        /\ \A w \in Workers : \A u \in Users : worker[w].batch[u].id # d
        /\ \A c \in Updates : guard[c].seen.id # d

\* What holds whatever Hazards names.
BaseInv ==
    TypeOK /\ HandInv /\ RowsDated /\ BatchDated /\ LookInv /\ SentInOrder /\ IdsInv

\* Whoever is at work on a row holds its claim, alone.
Holds(w, u) ==
    /\ rows[u].id = worker[w].batch[u].id
    /\ rows[u].state = IF worker[w].pc \in Banning THEN "acting" ELSE "unbanning"
    /\ ~rows[u].stale
    /\ \A v \in Workers : u \in worker[v].on => v = w

ClaimInv == \A w \in Workers : \A u \in worker[w].on : Holds(w, u)

\* A batch tells the row's path and date, as long as the row is the one listed.
BatchInv ==
    \A w \in Workers : \A u \in BatchOf(w) :
        rows[u].id = worker[w].batch[u].id =>
            /\ rows[u].path = worker[w].batch[u].path
            /\ rows[u].until = worker[w].batch[u].until

\* Once the lift ended no row is acted on or banned, and no worker can claim one
\* that a late guard records before it withdraws it.
LiftedInv ==
    ld = "lifted" =>
        /\ \A u \in Users : rows[u].state \notin {"acting", "banned", "unbanning"}
        /\ \A w \in Workers : worker[w].pc = "bans" =>
             \A u \in BatchOf(w) :
                rows[u].id = worker[w].batch[u].id => rows[u].state # "pending"

-----------------------------------------------------------------------------
\* The steps, in the kinds the invariants tell apart.

Lifts ==
    /\ UNCHANGED <<tg, rows, guard, worker>>
    /\ \/ ld = "active" /\ ld' = "lifting"
       \/ FinishLift

Strays(u) ==
    /\ UNCHANGED <<ld, rows, guard, worker>>
    /\ \/ tg' = [tg EXCEPT ![u] = Left]
       \/ tg' = [tg EXCEPT ![u] = Kicked(0)] /\ ~BetweenLookAndCall(u)

LEMMA Kinds ==
    ASSUME TypeOK, SentInOrder, [Next]_vars
    PROVE  \/ \E d \in Updates : GuardWorks(d)
           \/ \E w \in Workers : WorkerStep(w) \/ WorkerStops(w)
           \/ \E d \in Updates : Redelivered(d)
           \/ \E u \in Users : Arrives(u) \/ Requests(u)
           \/ \E u \in Users : Strays(u) \/ WindowCloses(u) \/ ClaimExpires(u)
           \/ Lifts
           \/ UNCHANGED vars
<1>1. BeginLift \/ LifterFinishes => Lifts
  BY DEF BeginLift, LifterFinishes, Lifts
<1>2. ASSUME NEW u \in Users, Leaves(u) \/ AdminBans(u) \/ AdminUnbans(u)
      PROVE  Strays(u)
  BY <1>2 DEF Leaves, AdminBans, AdminUnbans, Strays
<1> QED
  BY <1>1, <1>2, GuardStepWorks DEF Next

\* Steps that leave every worker and every row as they are.
LEMMA SendingKeeps ==
    ASSUME TypeOK, SentInOrder,
           \/ \E d \in Updates : Redelivered(d)
           \/ \E u \in Users : Arrives(u) \/ Requests(u)
    PROVE  /\ UNCHANGED <<ld, rows, worker>> /\ SentInOrder'
           /\ \A d \in Updates : \/ guard'[d] = guard[d]
                                 \/ /\ guard[d].pc = "unsent" /\ guard'[d].pc = "sent"
                                    /\ guard'[d].seen = NoRow
<1>1. CASE \E d \in Updates : Redelivered(d)
  BY <1>1, RedeliveredSends DEF Sends, GoesOut
<1>2. CASE \E u \in Users : Arrives(u) \/ Requests(u)
  BY <1>2, ArrivesSends, RequestsSends DEF Sends, GoesOut
<1> QED
  BY <1>1, <1>2

\* The lockdown does not run again once its lift began.
LEMMA NeverActiveAgain ==
    ASSUME TypeOK, SentInOrder, [Next]_vars, ld' = "active"
    PROVE  ld = "active"
<1>1. FinishLift => ld = "active"
  BY DEF FinishLift
<1>2. ASSUME NEW w \in Workers, WorkerWorks(w)
      PROVE  ld = "active"
  BY <1>1, <1>2 DEF WorkerWorks, Turns, Lists, Claims, Drops, Calls, Records
<1>3. Lifts => ld = "active"
  BY <1>1 DEF Lifts
<1> QED
  BY <1>2, <1>3, Kinds, SendingKeeps, WorkerStepWorks
  DEF GuardWorks, WorkerStops, Strays, WindowCloses, ClaimExpires, vars

\* A listed row has the row's fields.
LEMMA ListsFields ==
    ASSUME TypeOK, NEW w \in Workers, NEW state \in JoinerStates, Lists(w, state),
           NEW u \in Users, worker'[w].batch[u] # NoRow
    PROVE  /\ rows[u].state = state /\ worker'[w].batch[u].state = state
           /\ worker'[w].batch[u].id = rows[u].id
           /\ worker'[w].batch[u].path = rows[u].path
           /\ worker'[w].batch[u].until = rows[u].until
<1>1. rows[u].state = state /\ worker'[w].batch[u] = [rows[u] EXCEPT !.fresh = FALSE]
  BY DEF Lists
<1>2. rows[u] \in JoinerRow
  BY <1>1, StateMakesRow
<1> QED
  BY <1>1, <1>2 DEF JoinerRow

LEMMA ListStates == "pending" \in JoinerStates /\ "banned" \in JoinerStates
BY DEF JoinerStates, UnfinishedStates

\* A worker that stopped has nothing in hand, and the others what they had.
LEMMA StoppedIsIdle ==
    ASSUME TypeOK, NEW w \in Workers, WorkerStops(w)
    PROVE  /\ Others(w) /\ UNCHANGED <<ld, tg, rows, guard>>
           /\ worker'[w].pc = "release" /\ worker'[w].on = {} /\ worker'[w].res = "done"
           /\ \A u \in Users : worker'[w].batch[u] = NoRow
BY ShapesOfType DEF WorkerStops, Others, Idle, NoBatch

\* A step of another part of the program leaves the workers as they are.
LEMMA WorkersStay ==
    ASSUME TypeOK, SentInOrder,
           \/ \E d \in Updates : GuardWorks(d)
           \/ \E d \in Updates : Redelivered(d)
           \/ \E u \in Users : Arrives(u) \/ Requests(u)
           \/ \E u \in Users : Strays(u) \/ WindowCloses(u) \/ ClaimExpires(u)
           \/ Lifts
           \/ UNCHANGED vars
    PROVE  UNCHANGED worker
BY SendingKeeps DEF GuardWorks, Strays, WindowCloses, ClaimExpires, Lifts, vars

-----------------------------------------------------------------------------
LEMMA HandWorks ==
    ASSUME TypeOK, HandInv, NEW w \in Workers, WorkerWorks(w)
    PROVE  HandInv'
<1>1. \A v \in Workers \ {w} : worker'[v] = worker[v]
  BY DEF WorkerWorks, Turns, Lists, Claims, Drops, Calls, Records, PutDown, Others
<1>2. \A v \in Workers : worker[v].on \subseteq Users
  BY DEF TypeOK
<1> SUFFICES /\ worker'[w].on = {} <=> worker'[w].pc \notin Banning \cup Lifting
             /\ \A u \in worker'[w].on : worker'[w].on = {u} /\ u \in Users /\ worker'[w].batch[u] # NoRow
  BY <1>1 DEF HandInv, BatchOf
<1>3. CASE Turns(w)
  BY <1>3 DEF Turns, HandInv, BatchOf, Inert, Banning, Lifting
<1>4. CASE Lists(w, "pending") \/ Lists(w, "banned")
  <2>1. worker[w].on = {} /\ worker'[w].on = {}
    BY <1>4 DEF Lists, HandInv, Banning, Lifting
  <2> QED
    BY <1>4, <2>1 DEF Lists, Banning, Lifting
<1>5. ASSUME NEW u \in Users, Claims(w, u)
      PROVE  /\ worker'[w].on = {u} /\ worker'[w].batch[u] # NoRow
             /\ worker'[w].pc \in Banning \cup Lifting
  BY <1>5 DEF Claims, BatchOf, Banning, Lifting
<1>6. ASSUME NEW u \in Users, Drops(w, u) \/ Records(w, u)
      PROVE  worker'[w].on = {} /\ worker'[w].pc \notin Banning \cup Lifting
  BY <1>6 DEF Drops, Records, PutDown, Banning, Lifting
<1>7. ASSUME NEW u \in Users, Calls(w, u)
      PROVE  /\ worker'[w].on = worker[w].on /\ worker'[w].batch = worker[w].batch
             /\ worker[w].on # {} /\ worker'[w].pc \in Banning \cup Lifting
  BY <1>7 DEF Calls, Banning, Lifting
<1> QED
  BY <1>3, <1>4, <1>5, <1>6, <1>7 DEF WorkerWorks, HandInv, BatchOf

LEMMA HandStep ==
    ASSUME TypeOK, SentInOrder, HandInv, [Next]_vars
    PROVE  HandInv'
<1>1. ASSUME NEW w \in Workers, WorkerStops(w)
      PROVE  HandInv'
  BY <1>1, StoppedIsIdle DEF HandInv, BatchOf, Others, Banning, Lifting
<1>2. UNCHANGED worker => HandInv'
  BY DEF HandInv, BatchOf
<1> QED
  BY <1>1, <1>2, Kinds, WorkersStay, WorkerStepWorks, HandWorks

-----------------------------------------------------------------------------
LEMMA NewRowDated ==
    ASSUME TypeOK, NEW d \in Updates
    PROVE  /\ WellDated(RowOf(d))
           /\ \A id : WellDated([RowOf(d) EXCEPT !.id = id])
<1>1. d # 0
  BY UpdatesAreDates
<1>2. \A row : /\ row = RowOf(d) \/ \E id : row = [RowOf(d) EXCEPT !.id = id]
               => /\ row.path = guard[d].path
                  /\ row.state = IF Exempt(d) THEN "exempt" ELSE "pending"
                  /\ row.until = IF Exempt(d) \/ guard[d].path = "request" THEN 0 ELSE d
  BY DEF RowOf
<1> QED
  BY <1>1, <1>2 DEF WellDated, Exempt

\* A row keeps its date when it moves.
LEMMA MovedDated ==
    ASSUME NEW u \in Users, NEW state, Moved(u, state), WellDated(rows[u]),
           state = "exempt" \/ rows[u].state \notin {"none", "exempt"}
    PROVE  WellDated(rows'[u])
BY DEF Moved, WellDated

LEMMA RowsDatedStep ==
    ASSUME TypeOK, SentInOrder, RowsDated, [Next]_vars
    PROVE  RowsDated'
<1> SUFFICES ASSUME NEW u \in Users
             PROVE  WellDated(rows'[u])
  BY DEF RowsDated, WellDated
<1>1. WellDated(rows[u])
  BY DEF RowsDated
<1>2. CASE rows'[u] = rows[u]
  BY <1>1, <1>2
<1>3. ASSUME NEW d \in Updates, GuardWorks(d)
      PROVE  WellDated(rows'[u])
  <2>1. CASE u # guard[d].user
    BY <1>2, <1>3, <2>1 DEF GuardWorks, OnlyRow
  <2>2. CASE u = guard[d].user /\ GuardLooks(d)
    BY <1>2, <2>2 DEF GuardLooks
  <2>3. CASE u = guard[d].user /\ (GuardInserts(d) \/ GuardReclaims(d))
    <3>1. WellDated(RowOf(d)) /\ \A id : WellDated([RowOf(d) EXCEPT !.id = id])
      BY NewRowDated
    <3>2. CASE GuardInserts(d)
      <4>1. rows'[u] = RowOf(d)
        BY <2>3, <3>2 DEF GuardInserts
      <4> QED
        BY <3>1, <4>1
    <3>3. CASE GuardReclaims(d)
      <4>1. rows'[u] = [RowOf(d) EXCEPT !.id = guard[d].seen.id]
        BY <2>3, <3>3 DEF GuardReclaims
      <4> QED
        BY <3>1, <4>1
    <3> QED
      BY <2>3, <3>2, <3>3
  <2>4. CASE u = guard[d].user /\ GuardMoves(d)
    <3>1. rows[u].state = "pending" /\ (Moved(u, "exempt") \/ Moved(u, "cancelled"))
      BY <2>4 DEF GuardMoves
    <3> QED
      BY <1>1, <3>1, MovedDated
  <2>5. CASE u = guard[d].user /\ GuardDeletes(d)
    BY <2>5 DEF GuardDeletes, NoRow, WellDated
  <2> QED
    BY <1>3, <2>1, <2>2, <2>3, <2>4, <2>5 DEF GuardWorks
<1>4. ASSUME NEW w \in Workers, WorkerWorks(w)
      PROVE  WellDated(rows'[u])
  <2>1. CASE Turns(w)
    <3>1. rows'[u] = rows[u] \/ Swept(u)
      BY <2>1 DEF Turns
    <3>2. CASE Swept(u)
      BY <1>1, <1>2, <3>2, MovedDated DEF Swept
    <3> QED
      BY <1>2, <3>1, <3>2
  <2>2. ASSUME NEW x \in Users, Claims(w, x) \/ Records(w, x), u # x
        PROVE  rows'[u] = rows[u]
    BY <2>2 DEF Claims, Records, OnlyRow
  <2>3. CASE Claims(w, u)
    <3>1. \/ rows[u].state = "pending" /\ Moved(u, "acting")
          \/ rows[u].state = "banned" /\ Moved(u, "unbanning")
      BY <2>3 DEF Claims
    <3> QED
      BY <1>1, <3>1, MovedDated
  <2>4. CASE Records(w, u)
    <3>1. \/ rows'[u] = rows[u]
          \/ rows[u].state = "acting" /\ Moved(u, BanOutcome(w, u))
          \/ rows[u].state = "unbanning" /\ Moved(u, UnbanOutcome(w, u))
      BY <2>4 DEF Records
    <3>2. PICK ban : ban = BanOutcome(w, u)
      OBVIOUS
    <3>3. PICK unban \in {"unbanned", "kept", "unban_failed", "banned"} : unban = UnbanOutcome(w, u)
      BY DEF UnbanOutcome
    <3>4. \/ rows'[u] = rows[u]
          \/ rows[u].state = "acting" /\ Moved(u, ban)
          \/ rows[u].state = "unbanning" /\ Moved(u, unban)
      BY <3>1, <3>2, <3>3 DEF Moved
    <3> QED
      BY <1>1, <1>2, <3>3, <3>4, MovedDated
  <2>5. CASE UNCHANGED rows
    BY <1>2, <2>5
  <2> QED
    BY <1>2, <1>4, <2>1, <2>2, <2>3, <2>4, <2>5 DEF WorkerWorks, Lists, Drops, Calls
<1>5. ASSUME NEW x \in Users, WindowCloses(x) \/ ClaimExpires(x)
      PROVE  WellDated(rows'[u])
  BY <1>1, <1>2, <1>5, RowsAge DEF Ages, OnlyRow, WellDated
<1>6. ASSUME NEW w \in Workers, WorkerStops(w)
      PROVE  rows'[u] = rows[u]
  BY <1>6 DEF WorkerStops
<1> QED
  BY <1>2, <1>3, <1>4, <1>5, <1>6, Kinds, WorkerStepWorks, SendingKeeps DEF Strays, Lifts, vars

\* Nobody else's step changes a batch; a list fills it, an end takes a row off it.
LEMMA BatchChanges ==
    ASSUME TypeOK, NEW w \in Workers, WorkerWorks(w), NEW v \in Workers, NEW u \in Users,
           worker'[v].batch[u] # NoRow
    PROVE  \/ worker'[v].batch[u] = worker[v].batch[u]
           \/ v = w /\ \E state \in {"pending", "banned"} : Lists(w, state)
<1>1. CASE v # w
  BY <1>1 DEF WorkerWorks, Turns, Lists, Claims, Drops, Calls, Records, PutDown, Others
<1>2. CASE v = w
  <2>1. CASE Turns(w) \/ \E x \in Users : Claims(w, x) \/ Calls(w, x)
    BY <1>2, <2>1 DEF Turns, Claims, Calls
  <2>2. CASE \E x \in Users : Drops(w, x) \/ Records(w, x)
    BY <1>2, <2>2 DEF Drops, Records, PutDown
  <2> QED
    BY <1>2, <2>1, <2>2 DEF WorkerWorks
<1> QED
  BY <1>1, <1>2

LEMMA BatchDatedWorks ==
    ASSUME TypeOK, HandInv, RowsDated, BatchDated, NEW w \in Workers, WorkerWorks(w)
    PROVE  BatchDated'
<1>1. ASSUME NEW v \in Workers, worker'[v].pc \in {"bans"} \cup Banning, NEW u \in Users,
             worker'[v].batch[u] # NoRow
      PROVE  WellDated(worker'[v].batch[u]) /\ worker'[v].batch[u].state = "pending"
  <2>1. CASE Lists(w, "pending") /\ v = w
    <3>1. /\ worker'[w].batch[u].state = "pending" /\ rows[u].state = "pending"
          /\ worker'[w].batch[u].path = rows[u].path
          /\ worker'[w].batch[u].until = rows[u].until
      BY <1>1, <2>1, ListsFields, ListStates
    <3> QED
      BY <2>1, <3>1 DEF RowsDated, WellDated
  <2>2. ~(Lists(w, "banned") /\ v = w)
    BY <1>1 DEF Lists, Banning
  <2>3. CASE worker'[v].batch[u] = worker[v].batch[u] /\ ~(Lists(w, "pending") /\ v = w)
    <3>1. worker[v].pc \in {"bans"} \cup Banning
      <4>1. CASE v # w
        BY <1>1, <4>1
        DEF WorkerWorks, Turns, Lists, Claims, Drops, Calls, Records, PutDown, Others
      <4>2. CASE v = w
        BY <1>1, <2>2, <2>3, <4>2
        DEF WorkerWorks, Turns, Claims, Drops, Calls, Records, Inert, Banning, Lifting
      <4> QED
        BY <4>1, <4>2
    <3>2. u \in BatchOf(v)
      BY <1>1, <2>3 DEF BatchOf
    <3> QED
      BY <2>3, <3>1, <3>2 DEF BatchDated
  <2> QED
    BY <1>1, <2>1, <2>2, <2>3, BatchChanges
<1>2. ASSUME NEW v \in Workers, worker'[v].pc \in {"look", "ban"}, NEW u \in worker'[v].on
      PROVE  worker'[v].batch[u].path # "request"
  <2>1. CASE v # w
    BY ZenonT(30), <1>2, <2>1
    DEF BatchDated, WorkerWorks, Turns, Lists, Claims, Drops, Calls, Records, PutDown, Others
  <2>2. CASE v = w
    <3>1. ASSUME NEW x \in Users, Claims(w, x)
          PROVE  worker'[v].batch[u].path # "request"
      BY <1>2, <2>2, <3>1 DEF Claims
    <3>2. ASSUME NEW x \in Users, Calls(w, x)
          PROVE  worker'[v].batch[u].path # "request"
      BY <1>2, <2>2, <3>2 DEF Calls, BatchDated
    <3>3. ASSUME NEW x \in Users
          PROVE  ~Drops(w, x) /\ ~Records(w, x)
      BY <1>2, <2>2 DEF Drops, Records
    <3>4. ~Turns(w) /\ ~Lists(w, "pending") /\ ~Lists(w, "banned")
      BY <1>2, <2>2 DEF Turns, Lists, Inert
    <3> QED
      BY <3>1, <3>2, <3>3, <3>4 DEF WorkerWorks
  <2> QED
    BY <2>1, <2>2
<1> QED
  BY <1>1, <1>2 DEF BatchDated, BatchOf, WellDated

LEMMA BatchDatedStep ==
    ASSUME TypeOK, SentInOrder, HandInv, RowsDated, BatchDated, [Next]_vars
    PROVE  BatchDated'
<1>1. ASSUME NEW w \in Workers, WorkerStops(w)
      PROVE  BatchDated'
  BY <1>1, StoppedIsIdle DEF BatchDated, BatchOf, WellDated, Others, Banning
<1>2. UNCHANGED worker => BatchDated'
  BY DEF BatchDated, BatchOf, WellDated
<1> QED
  BY <1>1, <1>2, Kinds, WorkersStay, WorkerStepWorks, BatchDatedWorks

-----------------------------------------------------------------------------
LEMMA NotByHand ==
    /\ Left # Kicked(0) /\ Member # Kicked(0) /\ Asking # Kicked(0)
    /\ \A t : t # 0 => Kicked(t) # Kicked(0)
BY DEF Left, Member, Asking, Kicked

\* What a call may do to the person it is about.
LEMMA CallsStatus ==
    ASSUME TypeOK, HandInv, BatchDated, NEW w \in Workers, NEW u \in Users,
           \/ BanOneLooks(w, u) \/ BanOneBans(w, u) \/ DeclineOne(w, u)
           \/ DeclineFails(w, u) \/ UnbanOneLooks(w, u) \/ UnbanOneUnbans(w, u)
    PROVE  /\ \A x \in Users \ {u} : tg'[x] = tg[x]
           /\ \/ tg'[u] = tg[u]
              \/ tg'[u] = Left /\ (DeclineOne(w, u) => tg[u] = Asking)
              \/ /\ BanOneBans(w, u) /\ worker[w].batch[u].until # 0
                 /\ tg'[u] = Kicked(worker[w].batch[u].until)
<1>1. tg \in [Users -> {Left, Asking, Member} \cup {Kicked(t) : t \in Dates}]
  BY DEF TypeOK
<1>2. CASE BanOneBans(w, u)
  <2>1. u \in BatchOf(w) /\ worker[w].pc = "ban" /\ u \in worker[w].on
    BY <1>2 DEF BanOneBans, WorkingOn, HandInv
  <2>2. worker[w].batch[u].until # 0
    BY <2>1 DEF BatchDated, WellDated, Banning
  <2>3. tg' = tg \/ tg' = [tg EXCEPT ![u] = Kicked(worker[w].batch[u].until)]
    BY <1>2 DEF BanOneBans
  <2> QED
    BY <1>1, <1>2, <2>2, <2>3
<1>3. CASE DeclineOne(w, u)
  <2>1. tg' = tg \/ (tg[u] = Asking /\ tg' = [tg EXCEPT ![u] = Left])
    BY <1>3 DEF DeclineOne
  <2> QED
    BY <1>1, <2>1
<1>4. CASE UnbanOneUnbans(w, u)
  <2>1. tg' = tg \/ tg' = [tg EXCEPT ![u] = Left]
    BY <1>4 DEF UnbanOneUnbans
  <2>2. ~DeclineOne(w, u)
    BY <1>4 DEF UnbanOneUnbans, DeclineOne
  <2> QED
    BY <1>1, <2>1, <2>2
<1>5. CASE BanOneLooks(w, u) \/ DeclineFails(w, u) \/ UnbanOneLooks(w, u)
  BY <1>5 DEF BanOneLooks, DeclineFails, UnbanOneLooks
<1> QED
  BY <1>2, <1>3, <1>4, <1>5

\* Any other step of a worker changes what nobody is to the group.
LEMMA OnlyCallsAct ==
    ASSUME NEW w \in Workers, WorkerStep(w) \/ WorkerStops(w)
    PROVE  \/ UNCHANGED tg
           \/ \E u \in Users : \/ BanOneLooks(w, u) \/ BanOneBans(w, u) \/ DeclineOne(w, u)
                               \/ DeclineFails(w, u) \/ UnbanOneLooks(w, u)
                               \/ UnbanOneUnbans(w, u)
BY DEF WorkerStep, WorkerHandles, WorkerStops, Release, ListPending, ListLifting, Cancel,
       ListBanned, Finish, BanPending, BanOneRecords, UnbanBanned, UnbanOneRecords

\* Nobody who was not banned by hand is banned by hand in a step of a worker.
LEMMA WorkersBanByDate ==
    ASSUME TypeOK, HandInv, BatchDated, NEW w \in Workers, WorkerStep(w) \/ WorkerStops(w),
           NEW u \in Users, tg[u] # Kicked(0)
    PROVE  tg'[u] # Kicked(0)
BY OnlyCallsAct, CallsStatus, NotByHand

LEMMA LookWorks ==
    ASSUME TypeOK, HandInv, BatchDated, LookInv, NEW w \in Workers, WorkerStep(w)
    PROVE  LookInv'
<1> SUFFICES ASSUME NEW v \in Workers, worker'[v].pc \in {"ban", "unban"},
                    NEW u \in worker'[v].on
             PROVE  tg'[u] # Kicked(0)
  BY DEF LookInv
<1>1. WorkerWorks(w)
  BY WorkerStepWorks
<1>2. CASE v # w
  <2>1. worker'[v] = worker[v]
    BY <1>1, <1>2
    DEF WorkerWorks, Turns, Lists, Claims, Drops, Calls, Records, PutDown, Others
  <2>2. u \in Users /\ tg[u] # Kicked(0)
    BY <2>1 DEF LookInv, HandInv, BatchOf
  <2> QED
    BY <2>2, WorkersBanByDate
<1>3. CASE v = w
  <2>1. \E x \in Users : Calls(w, x)
    BY <1>1, <1>3
    DEF WorkerWorks, Turns, Lists, Claims, Drops, Records, PutDown, Inert
  <2>2. PICK x \in Users : BanOneLooks(w, x) \/ UnbanOneLooks(w, x)
    <3>1. worker[w].pc \in Banning \cup Lifting /\ worker'[w].pc \notin {"record", "settle"}
      BY <1>3, <2>1 DEF Calls
    <3>2. WorkerStep(w)
      OBVIOUS
    <3>3. ASSUME NEW x \in Users,
                 \/ BanOneBans(w, x) \/ DeclineOne(w, x) \/ DeclineFails(w, x)
                 \/ UnbanOneUnbans(w, x)
          PROVE  worker'[w].pc \in {"record", "settle"}
      <4>1. \E pc \in {"record", "settle"} : \E res \in Outcomes : Ends(w, pc, res)
        BY <3>3 DEF BanOneBans, DeclineOne, DeclineFails, UnbanOneUnbans, EndsInError, Outcomes
      <4> QED
        BY <4>1, EndsTurns
    <3>4. ASSUME NEW x \in Users,
                 BanPending(w, x) \/ UnbanBanned(w, x) \/ BanOneRecords(w, x) \/ UnbanOneRecords(w, x)
          PROVE  worker[w].pc \in {"bans", "unbans"} \/ worker'[w].pc \notin {"ban", "unban"}
      BY <3>4, RecordsWork DEF BanPending, UnbanBanned, Records
    <3>5. worker[w].pc \notin Inert
      BY <3>1 DEF Inert, Banning, Lifting
    <3>6. worker[w].pc \notin {"bans", "unbans"}
      BY <3>1 DEF Banning, Lifting
    <3> QED
      BY <1>3, <3>1, <3>2, <3>3, <3>4, <3>5, <3>6
      DEF WorkerStep, WorkerHandles, Release, ListPending, ListLifting, Cancel, ListBanned,
          Finish, Inert
  <2>3. u = x
    <3>1. x \in worker[w].on
      BY <2>2 DEF BanOneLooks, UnbanOneLooks, WorkingOn
    <3>2. worker'[w].on = worker[w].on
      BY <2>1 DEF Calls
    <3> QED
      BY <1>3, <3>1, <3>2 DEF HandInv
  <2>4. UNCHANGED tg
    BY <2>2 DEF BanOneLooks, UnbanOneLooks
  <2>5. ~IsKicked(x) \/ \E t : isLockdownBan(x, t)
    <3>1. CASE BanOneLooks(w, x)
      <4>1. (\E res \in Outcomes : Ends(w, "record", res)) \/ ~IsKicked(x)
        BY <3>1 DEF BanOneLooks, EndsInError, Outcomes
      <4> QED
        BY <1>3, <4>1, EndsTurns
    <3>2. CASE UnbanOneLooks(w, x)
      <4>1. \/ \E res \in Outcomes : Ends(w, "settle", res)
            \/ \E t : isLockdownBan(x, t)
        BY <3>2 DEF UnbanOneLooks, EndsInError, Outcomes
      <4> QED
        BY <1>3, <4>1, EndsTurns
    <3> QED
      BY <2>2, <3>1, <3>2
  <2> QED
    BY <2>3, <2>4, <2>5 DEF IsKicked, isLockdownBan, Kicked
<1> QED
  BY <1>2, <1>3

LEMMA LookStep ==
    ASSUME TypeOK, SentInOrder, HandInv, BatchDated, LookInv, [Next]_vars
    PROVE  LookInv'
<1>0. \A w \in Workers : worker[w].on \subseteq Users
  BY DEF TypeOK
<1>1. ASSUME NEW w \in Workers, WorkerStops(w)
      PROVE  LookInv'
  BY <1>1, StoppedIsIdle DEF LookInv, Others
<1>2. ASSUME UNCHANGED worker,
             \A u \in Users : tg'[u] # Kicked(0) \/ tg[u] = Kicked(0) \/ ~BetweenLookAndCall(u)
      PROVE  LookInv'
  BY <1>0, <1>2 DEF LookInv, BetweenLookAndCall, WorkingOn
<1>3. ASSUME UNCHANGED <<worker, tg>>
      PROVE  LookInv'
  BY <1>3 DEF LookInv
<1>4. ASSUME NEW u \in Users, Arrives(u) \/ Requests(u) \/ Strays(u)
      PROVE  LookInv'
  <2>1. UNCHANGED worker
    BY <1>4, WorkersStay
  <2>2. tg \in [Users -> {Left, Asking, Member} \cup {Kicked(t) : t \in Dates}]
    BY DEF TypeOK
  <2>3. \/ \E status \in {Left, Asking, Member} : tg' = [tg EXCEPT ![u] = status]
        \/ tg' = [tg EXCEPT ![u] = Kicked(0)] /\ ~BetweenLookAndCall(u)
    BY <1>4, ArrivesSends, RequestsSends DEF Strays
  <2> QED
    BY <1>2, <2>1, <2>2, <2>3, NotByHand
<1>5. ASSUME NEW d \in Updates, GuardWorks(d) \/ Redelivered(d)
      PROVE  UNCHANGED <<worker, tg>>
  BY <1>5 DEF GuardWorks, Redelivered
<1>6. ASSUME NEW u \in Users, WindowCloses(u) \/ ClaimExpires(u)
      PROVE  UNCHANGED <<worker, tg>>
  BY <1>6 DEF WindowCloses, ClaimExpires
<1>7. Lifts \/ UNCHANGED vars => UNCHANGED <<worker, tg>>
  BY DEF Lifts, vars
<1> QED
  BY <1>1, <1>3, <1>4, <1>5, <1>6, <1>7, Kinds, LookWorks

-----------------------------------------------------------------------------
\* How a row may be numbered after a step: as before, not at all, by the update
\* that wrote it, or as the handler that took it back had read it.
LEMMA IdsChange ==
    ASSUME TypeOK, SentInOrder, [Next]_vars, NEW u \in Users
    PROVE  \/ rows'[u].id = rows[u].id \/ rows'[u].id = 0
           \/ \E d \in Updates : /\ GuardWorks(d)
                                 /\ \/ rows'[u].id = d /\ guard'[d].pc \in {"done", "recheck"}
                                    \/ rows'[u].id = guard[d].seen.id
<1>1. CASE rows'[u] = rows[u]
  BY <1>1
<1>2. ASSUME NEW d \in Updates, GuardWorks(d), rows'[u] # rows[u]
      PROVE  \/ rows'[u].id = rows[u].id \/ rows'[u].id = 0
             \/ rows'[u].id = d /\ guard'[d].pc \in {"done", "recheck"}
             \/ rows'[u].id = guard[d].seen.id
  <2>1. u = guard[d].user
    BY <1>2 DEF GuardWorks, OnlyRow
  <2>2. CASE GuardInserts(d)
    BY <2>1, <2>2 DEF GuardInserts, RowOf
  <2>3. CASE GuardReclaims(d)
    <3>1. [RowOf(d) EXCEPT !.id = guard[d].seen.id].id = guard[d].seen.id
      BY DEF RowOf
    <3> QED
      BY <2>1, <2>3, <3>1 DEF GuardReclaims
  <2>4. CASE GuardMoves(d)
    BY <2>1, <2>4 DEF GuardMoves, Moved
  <2>5. CASE GuardDeletes(d)
    BY <2>1, <2>5 DEF GuardDeletes, NoRow
  <2> QED
    BY <1>2, <2>2, <2>3, <2>4, <2>5 DEF GuardWorks, GuardLooks
<1>3. ASSUME NEW w \in Workers, WorkerWorks(w)
      PROVE  rows'[u].id = rows[u].id
  <2>1. \/ rows'[u] = rows[u] \/ Swept(u)
        \/ Moved(u, "acting") \/ Moved(u, "unbanning")
        \/ Moved(u, BanOutcome(w, u)) \/ Moved(u, UnbanOutcome(w, u))
    BY <1>3 DEF WorkerWorks, Turns, Lists, Claims, Drops, Calls, Records, OnlyRow
  <2> QED
    BY <2>1 DEF Swept, Moved
<1>4. ASSUME NEW x \in Users, WindowCloses(x) \/ ClaimExpires(x)
      PROVE  rows'[u].id = rows[u].id
  BY <1>4, RowsAge DEF Ages, OnlyRow
<1>5. ASSUME NEW w \in Workers, WorkerStops(w)
      PROVE  rows'[u] = rows[u]
  BY <1>5 DEF WorkerStops
<1> QED
  BY <1>1, <1>2, <1>3, <1>4, <1>5, Kinds, WorkerStepWorks, SendingKeeps DEF Strays, Lifts, vars

LEMMA IdsStep ==
    ASSUME TypeOK, SentInOrder, IdsInv, [Next]_vars
    PROVE  IdsInv'
<1> SUFFICES ASSUME NEW d \in Updates, Unwritten(d)'
             PROVE  /\ \A u \in Users : rows'[u].id # d
                    /\ \A w \in Workers : \A u \in Users : worker'[w].batch[u].id # d
                    /\ \A c \in Updates : guard'[c].seen.id # d
  BY DEF IdsInv
<1>1. d # 0 /\ NoRow.id = 0
  BY UpdatesAreDates DEF NoRow
<1>2. Unwritten(d)
  <2>1. ASSUME NEW c \in Updates, GuardWorks(c)
        PROVE  Unwritten(d)
    <3>1. CASE c # d
      BY <2>1, <3>1 DEF GuardWorks, Unwritten
    <3>2. CASE c = d
      BY <2>1, <3>2
      DEF GuardWorks, GuardLooks, GuardInserts, GuardReclaims, GuardMoves, GuardDeletes, Unwritten
    <3> QED
      BY <3>1, <3>2
  <2>2. CASE UNCHANGED guard
    BY <2>2 DEF Unwritten
  <2>3. ASSUME NEW w \in Workers, WorkerStep(w) \/ WorkerStops(w)
        PROVE  UNCHANGED guard
    BY <2>3, WorkerStepWorks
    DEF WorkerWorks, Turns, Lists, Claims, Drops, Calls, Records, WorkerStops
  <2>4. ASSUME NEW u \in Users, Strays(u) \/ WindowCloses(u) \/ ClaimExpires(u)
        PROVE  UNCHANGED guard
    BY <2>4 DEF Strays, WindowCloses, ClaimExpires
  <2> QED
    BY <2>1, <2>2, <2>3, <2>4, Kinds, SendingKeeps DEF Unwritten, Lifts, vars
<1>3. /\ \A u \in Users : rows[u].id # d
      /\ \A w \in Workers : \A u \in Users : worker[w].batch[u].id # d
      /\ \A c \in Updates : guard[c].seen.id # d
  BY <1>2 DEF IdsInv
<1>4. ASSUME NEW u \in Users
      PROVE  rows'[u].id # d
  BY <1>1, <1>3, IdsChange DEF Unwritten
<1>5. ASSUME NEW w \in Workers, NEW u \in Users
      PROVE  worker'[w].batch[u].id # d
  <2>1. CASE worker'[w].batch[u] = worker[w].batch[u] \/ worker'[w].batch[u] = NoRow
    BY <1>1, <1>3, <2>1
  <2>2. ASSUME NEW v \in Workers, WorkerWorks(v)
        PROVE  worker'[w].batch[u].id # d
    BY <1>3, <2>1, <2>2, BatchChanges, ListsFields, ListStates
  <2>3. ASSUME NEW v \in Workers, WorkerStops(v)
        PROVE  worker'[w].batch[u] = worker[w].batch[u] \/ worker'[w].batch[u] = NoRow
    BY <2>3, StoppedIsIdle DEF Others
  <2> QED
    BY <2>1, <2>2, <2>3, Kinds, WorkersStay, WorkerStepWorks
<1>6. ASSUME NEW c \in Updates
      PROVE  guard'[c].seen.id # d
  <2>1. guard[c].user \in Users
    BY DEF TypeOK
  <2>2. CASE guard'[c].seen \in {guard[c].seen, NoRow, rows[guard[c].user]}
    BY <1>1, <1>3, <2>1, <2>2
  <2>3. ASSUME NEW b \in Updates, GuardWorks(b)
        PROVE  guard'[c].seen \in {guard[c].seen, NoRow, rows[guard[c].user]}
    BY <2>3 DEF GuardWorks, GuardLooks, GuardInserts, GuardReclaims, GuardMoves, GuardDeletes
  <2>4. ASSUME NEW w \in Workers, WorkerStep(w) \/ WorkerStops(w)
        PROVE  UNCHANGED guard
    BY <2>4, WorkerStepWorks
    DEF WorkerWorks, Turns, Lists, Claims, Drops, Calls, Records, WorkerStops
  <2>5. ASSUME NEW u \in Users, Strays(u) \/ WindowCloses(u) \/ ClaimExpires(u)
        PROVE  UNCHANGED guard
    BY <2>5 DEF Strays, WindowCloses, ClaimExpires
  <2> QED
    BY <2>2, <2>3, <2>4, <2>5, Kinds, SendingKeeps DEF Lifts, vars
<1> QED
  BY <1>4, <1>5, <1>6

-----------------------------------------------------------------------------
LEMMA InitBase == Init => BaseInv
<1> SUFFICES ASSUME Init
             PROVE  BaseInv
  OBVIOUS
<1>1. TypeOK
  BY InitTyped
<1>2. \A w \in Workers : /\ worker[w].pc = "release" /\ worker[w].on = {}
                         /\ \A u \in Users : worker[w].batch[u] = NoRow
  BY DEF Init, InitWith, Idle, NoBatch
<1>3. \A u \in Users : rows[u] = NoRow
  BY DEF Init, InitWith
<1>4. \A d \in Updates : guard[d].pc = "unsent" /\ guard[d].seen = NoRow
  BY DEF Init, InitWith, Sent
<1>5. HandInv /\ BatchDated /\ LookInv
  BY <1>2 DEF HandInv, BatchDated, LookInv, Banning, Lifting
<1>6. RowsDated
  <2>1. WellDated(NoRow)
    BY DEF WellDated, NoRow
  <2> QED
    BY <1>3, <2>1 DEF RowsDated
<1>7. SentInOrder
  BY <1>4 DEF SentInOrder
<1>8. IdsInv
  BY <1>2, <1>3, <1>4, UpdatesAreDates DEF IdsInv, NoRow
<1> QED
  BY <1>1, <1>5, <1>6, <1>7, <1>8 DEF BaseInv

LEMMA SentStep ==
    ASSUME TypeOK, SentInOrder, [Next]_vars
    PROVE  SentInOrder'
<1>1. ASSUME UNCHANGED guard
      PROVE  SentInOrder'
  BY <1>1 DEF SentInOrder
<1>2. ASSUME NEW d \in Updates, GuardWorks(d)
      PROVE  SentInOrder'
  BY <1>2 DEF SentInOrder, GuardWorks
<1>3. ASSUME NEW w \in Workers, WorkerStep(w) \/ WorkerStops(w)
      PROVE  UNCHANGED guard
  BY <1>3, WorkerStepWorks
  DEF WorkerWorks, Turns, Lists, Claims, Drops, Calls, Records, WorkerStops
<1>4. ASSUME NEW u \in Users, Strays(u) \/ WindowCloses(u) \/ ClaimExpires(u)
      PROVE  UNCHANGED guard
  BY <1>4 DEF Strays, WindowCloses, ClaimExpires
<1> QED
  BY <1>1, <1>2, <1>3, <1>4, Kinds, SendingKeeps DEF Lifts, vars

LEMMA BaseStep == BaseInv /\ [Next]_vars => BaseInv'
BY StepTyped, HandStep, RowsDatedStep, BatchDatedStep, LookStep, SentStep, IdsStep DEF BaseInv

LEMMA BaseAlways == Spec => []BaseInv
BY InitBase, BaseStep, PTL DEF Spec

\* Whoever is about to be banned or unbanned was not banned by hand when the worker
\* looked, and the ban pass bans by a date.
LEMMA HandBansKept ==
    ASSUME TypeOK, SentInOrder, HandInv, BatchDated, LookInv, [Next]_vars
    PROVE  [worker' # worker => \A u \in Users : tg[u] = Kicked(0) => tg'[u] = tg[u]]_vars
<1> SUFFICES ASSUME worker' # worker, NEW u \in Users, tg[u] = Kicked(0)
             PROVE  tg'[u] = tg[u]
  OBVIOUS
<1>1. PICK w \in Workers : WorkerStep(w) \/ WorkerStops(w)
  BY Kinds, WorkersStay
<1>2. CASE UNCHANGED tg
  BY <1>2
<1>3. ASSUME NEW x \in Users,
             \/ BanOneLooks(w, x) \/ BanOneBans(w, x) \/ DeclineOne(w, x)
             \/ DeclineFails(w, x) \/ UnbanOneLooks(w, x) \/ UnbanOneUnbans(w, x)
      PROVE  tg'[u] = tg[u]
  <2>1. CASE x # u
    BY <1>3, <2>1, CallsStatus
  <2>2. CASE x = u /\ (BanOneBans(w, u) \/ UnbanOneUnbans(w, u))
    BY <2>2 DEF LookInv, BanOneBans, UnbanOneUnbans, WorkingOn
  <2>3. CASE x = u /\ DeclineOne(w, u)
    BY <2>3, NotByHand DEF DeclineOne
  <2>4. CASE x = u /\ (BanOneLooks(w, u) \/ DeclineFails(w, u) \/ UnbanOneLooks(w, u))
    BY <2>4 DEF BanOneLooks, DeclineFails, UnbanOneLooks
  <2> QED
    BY <1>3, <2>1, <2>2, <2>3, <2>4
<1> QED
  BY <1>1, <1>2, <1>3, OnlyCallsAct

\* No step of a worker touches a ban placed by hand, whatever Hazards names: the
\* look before each call sees it (lockdownBanOne, lockdownUnbanOne).
THEOREM HandBansStay == Spec => DeliberateBanStays
<1>1. BaseInv /\ [Next]_vars =>
        [worker' # worker => \A u \in Users : tg[u] = Kicked(0) => tg'[u] = tg[u]]_vars
  BY HandBansKept DEF BaseInv
<1> QED
  BY <1>1, BaseAlways, PTL DEF Spec, DeliberateBanStays

-----------------------------------------------------------------------------
\* The claims: a row in a worker's hands is given to no other and taken back by
\* nobody, as long as no call outlasts its claim.

LEMMA OnGrowsByClaim ==
    ASSUME TypeOK, HandInv, NEW w \in Workers, WorkerWorks(w), NEW v \in Workers,
           NEW u \in worker'[v].on
    PROVE  \/ u \in worker[v].on /\ (v = w => \E x \in Users : Calls(w, x))
           \/ v = w /\ Claims(w, u)
<1>1. CASE v # w
  BY <1>1 DEF WorkerWorks, Turns, Lists, Claims, Drops, Calls, Records, PutDown, Others
<1>2. CASE v = w
  <2>1. CASE Turns(w) \/ Lists(w, "pending") \/ Lists(w, "banned")
    <3>1. worker[w].on # {} /\ worker[w].pc \in Inert \cup {"list", "unlist"}
      BY <1>2, <2>1 DEF Turns, Lists
    <3> QED
      BY <3>1 DEF HandInv, Banning, Lifting, Inert
  <2>2. ASSUME NEW x \in Users, Claims(w, x)
        PROVE  Claims(w, u)
    BY <1>2, <2>2 DEF Claims
  <2>3. ASSUME NEW x \in Users
        PROVE  ~Drops(w, x) /\ ~Records(w, x)
    BY <1>2 DEF Drops, Records, PutDown
  <2>4. ASSUME NEW x \in Users, Calls(w, x)
        PROVE  u \in worker[v].on
    BY <1>2, <2>4 DEF Calls
  <2> QED
    BY <1>2, <2>1, <2>2, <2>3, <2>4 DEF WorkerWorks
<1> QED
  BY <1>1, <1>2

LEMMA OnAreUsers == TypeOK => \A w \in Workers : worker[w].on \subseteq Users
BY DEF TypeOK

LEMMA ClaimWorks ==
    ASSUME TypeOK, HandInv, ClaimInv, NEW w \in Workers, WorkerWorks(w)
    PROVE  ClaimInv'
<1> SUFFICES ASSUME NEW v \in Workers, NEW u \in worker'[v].on
             PROVE  Holds(v, u)'
  BY DEF ClaimInv
<1>1. CASE Claims(w, u) /\ v = w
  <2>1. \A x \in Workers : u \notin worker[x].on
    BY <1>1 DEF Claims, ClaimInv, Holds
  <2>2. \A x \in Workers : u \in worker'[x].on => x = w
    BY <1>1, <2>1 DEF Claims, Others
  <2>3. rows'[u].id = worker'[w].batch[u].id /\ ~rows'[u].stale
    BY <1>1 DEF Claims, Moved
  <2>4. rows'[u].state = IF worker'[w].pc \in Banning THEN "acting" ELSE "unbanning"
    BY <1>1 DEF Claims, Moved, Banning
  <2> QED
    BY <1>1, <2>2, <2>3, <2>4 DEF Holds
<1>2. CASE u \in worker[v].on /\ (v = w => \E x \in Users : Calls(w, x))
  <2>0. u \in Users
    BY <1>2, OnAreUsers
  <2>1. /\ Holds(v, u) /\ rows[u].state \in {"acting", "unbanning"}
        /\ \A x \in Workers : u \in worker[x].on => x = v
    BY <1>2 DEF ClaimInv, Holds
  <2>2. ~Claims(w, u)
    BY <2>1 DEF Claims
  <2>3. \A x \in Workers : u \in worker'[x].on => x = v
    BY <2>1, <2>2, OnGrowsByClaim
  <2>4. v # w => ~Records(w, u)
    BY <2>1 DEF Records
  <2>5. v = w => ~Records(w, u)
    BY DEF Records, PutDown
  <2>6. rows'[u] = rows[u]
    <3>1. CASE Turns(w)
      BY <2>0, <2>1, <3>1 DEF Turns, Swept, Holds
    <3>2. ASSUME NEW x \in Users, Claims(w, x) \/ Records(w, x)
          PROVE  rows'[u] = rows[u]
      BY <2>0, <2>2, <2>4, <2>5, <3>2 DEF Claims, Records, OnlyRow
    <3>3. CASE UNCHANGED rows
      BY <3>3
    <3> QED
      BY <3>1, <3>2, <3>3 DEF WorkerWorks, Lists, Drops, Calls
  <2>7. /\ worker'[v].batch[u] = worker[v].batch[u]
        /\ worker'[v].pc \in Banning <=> worker[v].pc \in Banning
    <3>1. CASE v # w
      BY <3>1 DEF WorkerWorks, Turns, Lists, Claims, Drops, Calls, Records, PutDown, Others
    <3>2. CASE v = w
      BY <1>2, <3>2 DEF Calls, Banning, Lifting
    <3> QED
      BY <3>1, <3>2
  <2> QED
    BY <2>1, <2>3, <2>6, <2>7 DEF Holds
<1> QED
  BY <1>1, <1>2, OnGrowsByClaim

LEMMA ClaimStep ==
    ASSUME "slow call" \notin Hazards, TypeOK, SentInOrder, HandInv, ClaimInv, [Next]_vars
    PROVE  ClaimInv'
<1>1. ASSUME NEW w \in Workers, WorkerStops(w)
      PROVE  ClaimInv'
  <2> SUFFICES ASSUME NEW v \in Workers, NEW u \in worker'[v].on
               PROVE  Holds(v, u)'
    BY DEF ClaimInv
  <2>1. v # w /\ UNCHANGED rows
    BY <1>1, StoppedIsIdle
  <2>2. worker'[v] = worker[v] /\ \A x \in Workers : worker'[x].on \subseteq worker[x].on
    BY <1>1, <2>1, StoppedIsIdle DEF Others
  <2>3. u \in worker[v].on /\ Holds(v, u)
    BY <2>2 DEF ClaimInv
  <2> QED
    BY <2>1, <2>2, <2>3 DEF Holds
<1>2. ASSUME UNCHANGED worker,
             \A w \in Workers : \A u \in worker[w].on :
                /\ rows'[u].id = rows[u].id /\ rows'[u].state = rows[u].state
                /\ rows'[u].stale = rows[u].stale
      PROVE  ClaimInv'
  <2> SUFFICES ASSUME NEW w \in Workers, NEW u \in worker[w].on
               PROVE  Holds(w, u)'
    BY <1>2 DEF ClaimInv
  <2>1. Holds(w, u)
    BY DEF ClaimInv
  <2> QED
    BY <1>2, <2>1 DEF Holds
<1>3. ASSUME UNCHANGED <<worker, rows>>
      PROVE  ClaimInv'
  BY <1>2, <1>3
<1>4. ASSUME NEW d \in Updates, GuardWorks(d)
      PROVE  ClaimInv'
  <2>1. ASSUME NEW w \in Workers, NEW u \in worker[w].on
        PROVE  rows'[u] = rows[u]
    <3>1. rows[u].state \in {"acting", "unbanning"} /\ u \in Users
      BY <2>1, OnAreUsers DEF ClaimInv, Holds
    <3>2. CASE u # guard[d].user \/ GuardLooks(d)
      BY <1>4, <3>1, <3>2 DEF GuardWorks, GuardLooks, OnlyRow
    <3>3. CASE u = guard[d].user
      <4>1. rows[u] # NoRow /\ rows[u].state \notin ReclaimStates \cup {"pending"}
        <5>1. NoRow.state = "none"
          BY DEF NoRow
        <5> QED
          BY <3>1, <5>1 DEF ReclaimStates
      <4>2. GuardLooks(d)
        BY <1>4, <3>3, <4>1
        DEF GuardWorks, GuardInserts, GuardReclaims, GuardMoves, GuardDeletes, Matches
      <4> QED
        BY <3>2, <4>2
    <3> QED
      BY <3>2, <3>3
  <2>2. UNCHANGED worker
    BY <1>4 DEF GuardWorks
  <2> QED
    BY <1>2, <2>1, <2>2
<1>5. ASSUME NEW x \in Users, WindowCloses(x) \/ ClaimExpires(x)
      PROVE  ClaimInv'
  <2>1. ASSUME NEW w \in Workers, NEW u \in worker[w].on
        PROVE  /\ rows'[u].id = rows[u].id /\ rows'[u].state = rows[u].state
               /\ rows'[u].stale = rows[u].stale
    <3>1. u \in Users /\ Ages(x)
      BY <1>5, <2>1, OnAreUsers, RowsAge
    <3>2. ClaimExpires(x) => u # x
      BY <2>1 DEF ClaimExpires, WorkingOn
    <3>3. WindowCloses(x) => rows'[x].stale = rows[x].stale
      BY <1>5, RowsAge
    <3> QED
      BY <1>5, <3>1, <3>2, <3>3 DEF Ages, OnlyRow
  <2>2. UNCHANGED worker
    BY <1>5 DEF WindowCloses, ClaimExpires
  <2> QED
    BY <1>2, <2>1, <2>2
<1>6. Lifts \/ UNCHANGED vars \/ (\E u \in Users : Strays(u)) => UNCHANGED <<worker, rows>>
  BY DEF Lifts, Strays, vars
<1> QED
  BY <1>1, <1>3, <1>4, <1>5, <1>6, Kinds, SendingKeeps, WorkerStepWorks, ClaimWorks

LEMMA NobodyAtWork == Init => \A w \in Workers : worker[w].on = {}
<1>1. Idle.on = {}
  BY DEF Idle
<1> QED
  BY <1>1 DEF Init, InitWith

LEMMA ClaimAlways ==
    ASSUME "slow call" \notin Hazards
    PROVE  Spec => [](BaseInv /\ ClaimInv)
<1>1. Init => BaseInv /\ ClaimInv
  <2>1. Init => ClaimInv
    BY NobodyAtWork DEF ClaimInv
  <2> QED
    BY <2>1, InitBase
<1>2. BaseInv /\ ClaimInv /\ [Next]_vars => BaseInv' /\ ClaimInv'
  BY BaseStep, ClaimStep DEF BaseInv
<1> QED
  BY <1>1, <1>2, PTL DEF Spec

\* As long as no call outlasts its claim, no row is in two workers' hands and a row
\* in a worker's hands is claimed: lost claims, crashes, releases, reclaims and the
\* lift's cancellations included (ClaimJoiner, ReleaseStaleClaims, CancelPending).
THEOREM RowsInOneHand ==
    ASSUME "slow call" \notin Hazards
    PROVE  Spec => []ClaimsAreExclusive
<1>1. ClaimInv => ClaimsAreExclusive
  BY DEF ClaimInv, Holds, ClaimsAreExclusive
<1> QED
  BY <1>1, ClaimAlways, PTL

-----------------------------------------------------------------------------
\* What a worker listed of a row stays true of it while the row has its number.

SameJoin(u) ==
    rows'[u].id = rows[u].id /\ rows'[u].path = rows[u].path /\ rows'[u].until = rows[u].until

LEMMA WorkersKeepJoins ==
    ASSUME NEW w \in Workers, WorkerWorks(w), NEW u \in Users
    PROVE  SameJoin(u)
<1>1. \/ rows'[u] = rows[u] \/ Swept(u)
      \/ Moved(u, "acting") \/ Moved(u, "unbanning")
      \/ Moved(u, BanOutcome(w, u)) \/ Moved(u, UnbanOutcome(w, u))
  BY DEF WorkerWorks, Turns, Lists, Claims, Drops, Calls, Records, OnlyRow
<1> QED
  BY <1>1 DEF Swept, Moved, SameJoin

\* Only a handler that inserts, takes back or deletes a row makes it another join's.
LEMMA JoinsChange ==
    ASSUME TypeOK, SentInOrder, [Next]_vars, NEW u \in Users
    PROVE  \/ SameJoin(u)
           \/ \E d \in Updates : /\ GuardWorks(d) /\ u = guard[d].user
                                 /\ GuardInserts(d) \/ GuardReclaims(d) \/ GuardDeletes(d)
<1>1. rows'[u] = rows[u] => SameJoin(u)
  BY DEF SameJoin
<1>2. ASSUME NEW d \in Updates, GuardWorks(d)
      PROVE  \/ SameJoin(u)
             \/ /\ GuardWorks(d) /\ u = guard[d].user
                /\ GuardInserts(d) \/ GuardReclaims(d) \/ GuardDeletes(d)
  BY <1>1, <1>2 DEF GuardWorks, OnlyRow, GuardLooks, GuardMoves, Moved, SameJoin
<1>3. ASSUME NEW x \in Users, WindowCloses(x) \/ ClaimExpires(x)
      PROVE  SameJoin(u)
  BY <1>1, <1>3, RowsAge DEF Ages, OnlyRow, SameJoin
<1>4. ASSUME NEW w \in Workers, WorkerStops(w)
      PROVE  SameJoin(u)
  BY <1>1, <1>4 DEF WorkerStops
<1> QED
  BY <1>1, <1>2, <1>3, <1>4, Kinds, WorkerStepWorks, WorkersKeepJoins, SendingKeeps
  DEF Strays, Lifts, vars

\* A handler that makes the row another join's leaves every batch wrong about its number.
LEMMA ChangedIsUnlisted ==
    ASSUME "stale batch" \notin Hazards, TypeOK, IdsInv, NEW d \in Updates,
           GuardInserts(d) \/ GuardReclaims(d) \/ GuardDeletes(d),
           NEW w \in Workers, worker[w].batch[guard[d].user] # NoRow
    PROVE  rows'[guard[d].user].id # worker[w].batch[guard[d].user].id
<1>1. PICK u \in Users : u = guard[d].user
  BY ShapesOfType DEF Update
<1>2. CASE GuardInserts(d)
  <2>1. RowOf(d).id = d
    BY DEF RowOf
  <2>2. rows'[u].id = d /\ Unwritten(d)
    BY <1>1, <1>2, <2>1 DEF GuardInserts, Unwritten
  <2> QED
    BY <1>1, <2>2 DEF IdsInv
<1>3. CASE GuardReclaims(d)
  BY <1>3 DEF GuardReclaims, NotListed
<1>4. CASE GuardDeletes(d)
  <2>1. worker[w].batch[u] \in JoinerRow
    BY <1>1, ShapesOfType DEF Worker
  <2>2. worker[w].batch[u].id # 0
    BY <2>1, UpdatesAreDates DEF JoinerRow
  <2>3. rows'[u] = NoRow /\ NoRow.id = 0
    BY <1>1, <1>4 DEF GuardDeletes, NoRow
  <2> QED
    BY <1>1, <2>2, <2>3
<1> QED
  BY <1>2, <1>3, <1>4

LEMMA BatchStep ==
    ASSUME "stale batch" \notin Hazards, TypeOK, SentInOrder, IdsInv, BatchInv, [Next]_vars
    PROVE  BatchInv'
<1> SUFFICES ASSUME NEW w \in Workers, NEW u \in Users, worker'[w].batch[u] # NoRow,
                    rows'[u].id = worker'[w].batch[u].id
             PROVE  /\ rows'[u].path = worker'[w].batch[u].path
                    /\ rows'[u].until = worker'[w].batch[u].until
  BY DEF BatchInv, BatchOf
<1>1. CASE worker'[w].batch[u] = worker[w].batch[u]
  <2>1. SameJoin(u)
    BY <1>1, JoinsChange, ChangedIsUnlisted
  <2> QED
    BY <1>1, <2>1 DEF SameJoin, BatchInv, BatchOf
<1>2. ASSUME NEW v \in Workers, WorkerWorks(v), worker'[w].batch[u] # worker[w].batch[u]
      PROVE  /\ rows'[u].path = worker'[w].batch[u].path
             /\ rows'[u].until = worker'[w].batch[u].until
  <2>1. PICK state \in {"pending", "banned"} : Lists(w, state)
    BY <1>2, BatchChanges
  <2>2. /\ worker'[w].batch[u].path = rows[u].path
        /\ worker'[w].batch[u].until = rows[u].until
    BY <2>1, ListsFields, ListStates
  <2> QED
    BY <2>1, <2>2 DEF Lists
<1>3. ASSUME NEW v \in Workers, WorkerStops(v)
      PROVE  worker'[w].batch[u] = worker[w].batch[u]
  BY <1>3, StoppedIsIdle DEF Others
<1>4. UNCHANGED worker => worker'[w].batch[u] = worker[w].batch[u]
  OBVIOUS
<1> QED
  BY <1>1, <1>2, <1>3, <1>4, Kinds, WorkersStay, WorkerStepWorks

-----------------------------------------------------------------------------
\* Nobody is banned once the lift ended.

\* Which state a worker can move a row to, and from which.
LEMMA WorkersMoveStates ==
    ASSUME NEW w \in Workers, WorkerWorks(w), NEW u \in Users
    PROVE  \/ rows'[u].state = rows[u].state
           \/ rows'[u].state \notin {"pending", "acting", "banned", "unbanning"}
           \/ rows[u].state = "acting" /\ (ld = "lifted" => \E x \in Users : Records(w, x))
           \/ rows[u].state = "unbanning"
           \/ Claims(w, u) /\ rows[u].state \in {"pending", "banned"}
<1>1. \/ rows'[u] = rows[u] \/ Swept(u)
      \/ Claims(w, u) \/ Records(w, u)
  BY DEF WorkerWorks, Turns, Lists, Claims, Drops, Calls, Records, OnlyRow
<1>2. CASE Swept(u)
  BY <1>2 DEF Swept, Moved
<1>3. CASE Claims(w, u)
  BY <1>3 DEF Claims
<1>4. CASE Records(w, u)
  BY <1>4 DEF Records
<1> QED
  BY <1>1, <1>2, <1>3, <1>4

\* A worker at work on a row of the ban pass keeps the lift from ending.
LEMMA LiftedAtRest ==
    ASSUME HandInv, ClaimInv, LiftedInv, TypeOK, ld = "lifted"
    PROVE  \A w \in Workers : worker[w].on = {} /\ worker[w].pc \notin Banning \cup Lifting
BY OnAreUsers DEF HandInv, ClaimInv, Holds, LiftedInv

LEMMA LiftedWorks ==
    ASSUME TypeOK, HandInv, ClaimInv, LiftedInv, NEW w \in Workers, WorkerWorks(w)
    PROVE  LiftedInv'
<1> SUFFICES ASSUME ld' = "lifted"
             PROVE  LiftedInv'
  BY DEF LiftedInv
<1>1. CASE ld # "lifted"
  <2>1. Turns(w) /\ FinishLift /\ UNCHANGED rows
    BY <1>1 DEF WorkerWorks, Turns, Lists, Claims, Drops, Calls, Records
  <2>2. \A u \in Users : rows[u].state \notin UnfinishedStates
    BY <1>1, <2>1 DEF FinishLift
  <2> QED
    BY <2>1, <2>2 DEF LiftedInv, UnfinishedStates, BatchOf
<1>2. CASE ld = "lifted"
  <2>1. \A v \in Workers : worker[v].on = {} /\ worker[v].pc \notin Banning \cup Lifting
    BY <1>2, LiftedAtRest
  <2>2. \A x \in Users : ~Records(w, x) /\ ~Calls(w, x) /\ ~Claims(w, x)
    BY <1>2, <2>1 DEF Records, Calls, Claims, LiftedInv
  <2>3. ~Lists(w, "pending")
    BY <1>2 DEF Lists
  <2>4. \A u \in Users :
           \/ rows'[u].state = rows[u].state
           \/ rows'[u].state \notin {"pending", "acting", "banned", "unbanning"}
    BY <1>2, <2>2, WorkersMoveStates DEF LiftedInv
  <2>5. ASSUME NEW v \in Workers, worker'[v].pc = "bans", NEW u \in Users,
               worker'[v].batch[u] # NoRow, rows'[u].id = worker'[v].batch[u].id
        PROVE  rows'[u].state # "pending"
    <3>1. worker[v].pc = "bans" /\ worker'[v].batch[u] = worker[v].batch[u]
      <4>1. CASE v # w
        BY <2>5, <4>1
        DEF WorkerWorks, Turns, Lists, Claims, Drops, Calls, Records, PutDown, Others
      <4>2. CASE v = w
        BY <2>2, <2>3, <2>5, <4>2 DEF WorkerWorks, Turns, Lists, Drops, PutDown, Inert
      <4> QED
        BY <4>1, <4>2
    <3>2. rows[u].id = worker[v].batch[u].id
      BY <2>5, <3>1, WorkersKeepJoins DEF SameJoin
    <3> QED
      BY <1>2, <2>4, <2>5, <3>1, <3>2 DEF LiftedInv, BatchOf
  <2> QED
    BY <1>2, <2>4, <2>5 DEF LiftedInv, BatchOf
<1> QED
  BY <1>1, <1>2

LEMMA LiftedStep ==
    ASSUME "stale batch" \notin Hazards, TypeOK, SentInOrder, HandInv, IdsInv, ClaimInv,
           LiftedInv, [Next]_vars
    PROVE  LiftedInv'
<1>1. ASSUME NEW w \in Workers, WorkerStops(w)
      PROVE  LiftedInv'
  <2>1. UNCHANGED <<ld, rows>> /\ worker'[w].pc # "bans"
    BY <1>1, StoppedIsIdle
  <2>2. \A v \in Workers : worker'[v].pc = "bans" => worker'[v] = worker[v]
    BY <1>1, <2>1, StoppedIsIdle DEF Others
  <2> QED
    BY <2>1, <2>2 DEF LiftedInv, BatchOf
<1>2. ASSUME UNCHANGED <<ld, rows, worker>>
      PROVE  LiftedInv'
  BY <1>2 DEF LiftedInv, BatchOf
<1>3. CASE Lifts
  <2>1. UNCHANGED <<rows, worker>>
    BY <1>3 DEF Lifts
  <2>2. ld = "lifted" \/ ld' # "lifted" \/ \A u \in Users : rows[u].state \notin UnfinishedStates
    BY <1>3 DEF Lifts, FinishLift
  <2> QED
    BY <2>1, <2>2 DEF LiftedInv, BatchOf, UnfinishedStates
<1>4. ASSUME NEW x \in Users, WindowCloses(x) \/ ClaimExpires(x)
      PROVE  LiftedInv'
  <2>1. \A u \in Users : rows'[u].id = rows[u].id /\ rows'[u].state = rows[u].state
    BY <1>4, RowsAge DEF Ages, OnlyRow
  <2>2. UNCHANGED <<ld, worker>>
    BY <1>4 DEF WindowCloses, ClaimExpires
  <2> QED
    BY <2>1, <2>2 DEF LiftedInv, BatchOf
<1>5. ASSUME NEW d \in Updates, GuardWorks(d)
      PROVE  LiftedInv'
  <2>1. UNCHANGED <<ld, worker>>
    BY <1>5 DEF GuardWorks
  <2>2. ASSUME NEW u \in Users
        PROVE  \/ rows'[u] = rows[u]
               \/ rows'[u].state \notin {"pending", "acting", "banned", "unbanning"}
               \/ u = guard[d].user /\ (GuardInserts(d) \/ GuardReclaims(d))
    <3>1. CASE u # guard[d].user \/ GuardLooks(d)
      BY <1>5, <3>1 DEF GuardWorks, OnlyRow, GuardLooks
    <3>2. CASE u = guard[d].user /\ GuardMoves(d)
      BY <3>2 DEF GuardMoves, Moved
    <3>3. CASE u = guard[d].user /\ GuardDeletes(d)
      <4>1. NoRow.state = "none"
        BY DEF NoRow
      <4> QED
        BY <3>3, <4>1 DEF GuardDeletes
    <3> QED
      BY <1>5, <3>1, <3>2, <3>3 DEF GuardWorks
  <2>3. \A id : [RowOf(d) EXCEPT !.id = id].state \notin {"acting", "banned", "unbanning"}
    BY DEF RowOf
  <2>4. RowOf(d).state \notin {"acting", "banned", "unbanning"}
    BY DEF RowOf
  <2>5. ASSUME ld = "lifted", NEW u \in Users
        PROVE  rows'[u].state \notin {"acting", "banned", "unbanning"}
    <3>1. CASE u = guard[d].user /\ (GuardInserts(d) \/ GuardReclaims(d))
      BY <2>3, <2>4, <3>1 DEF GuardInserts, GuardReclaims
    <3> QED
      BY <2>2, <2>5, <3>1 DEF LiftedInv
  <2>6. ASSUME ld = "lifted", NEW v \in Workers, worker[v].pc = "bans", NEW u \in Users,
               worker[v].batch[u] # NoRow, rows'[u].id = worker[v].batch[u].id
        PROVE  rows'[u].state # "pending"
    <3>1. ~(u = guard[d].user /\ (GuardInserts(d) \/ GuardReclaims(d)))
      BY <2>6, ChangedIsUnlisted
    <3> QED
      BY <2>2, <2>6, <3>1 DEF LiftedInv, BatchOf
  <2> QED
    BY <2>1, <2>5, <2>6 DEF LiftedInv, BatchOf
<1> QED
  BY <1>1, <1>2, <1>3, <1>4, <1>5, Kinds, SendingKeeps, WorkerStepWorks, LiftedWorks
  DEF Strays, vars

\* Nobody is banned for a lockdown that is over, as long as no call outlasts its
\* claim and no row is taken back under a worker that listed it: the end of the lift
\* waits for every row that is acted on (lockdown_joiners.go FinishLift), and what a
\* late guard records is in no batch.
THEOREM NobodyBannedOnceLifted ==
    ASSUME "slow call" \notin Hazards, "stale batch" \notin Hazards
    PROVE  Spec => NoBanAfterLift
<1>1. Init => BaseInv /\ ClaimInv /\ LiftedInv
  <2>1. Init => ClaimInv
    BY NobodyAtWork DEF ClaimInv
  <2>2. Init => LiftedInv
    BY DEF Init, InitWith, LiftedInv
  <2> QED
    BY <2>1, <2>2, InitBase
<1>2. BaseInv /\ ClaimInv /\ LiftedInv /\ [Next]_vars => BaseInv' /\ ClaimInv' /\ LiftedInv'
  BY BaseStep, ClaimStep, LiftedStep DEF BaseInv
<1>3. ASSUME BaseInv, ClaimInv, LiftedInv, [Next]_vars
      PROVE  [ld = "lifted" => \A u \in Users : tg'[u] # tg[u] => tg'[u].until = 0]_vars
  <2>1. TypeOK /\ SentInOrder /\ HandInv /\ BatchDated
    BY <1>3 DEF BaseInv
  <2> SUFFICES ASSUME ld = "lifted", NEW u \in Users, tg'[u] # tg[u]
               PROVE  tg'[u].until = 0
    OBVIOUS
  <2>2. \A w \in Workers : worker[w].on = {}
    BY <1>3, <2>1, LiftedAtRest
  <2>3. Left.until = 0 /\ Member.until = 0 /\ Asking.until = 0 /\ Kicked(0).until = 0
    BY DEF Left, Member, Asking, Kicked
  <2>4. ASSUME NEW w \in Workers, WorkerStep(w) \/ WorkerStops(w)
        PROVE  FALSE
    <3>1. \A x \in Users : ~BanOneBans(w, x) /\ ~DeclineOne(w, x) /\ ~UnbanOneUnbans(w, x)
      BY <2>2 DEF BanOneBans, DeclineOne, UnbanOneUnbans, WorkingOn
    <3>2. UNCHANGED tg
      BY <2>4, <3>1, OnlyCallsAct DEF BanOneLooks, DeclineFails, UnbanOneLooks
    <3> QED
      BY <3>2
  <2>5. ASSUME NEW x \in Users, Arrives(x) \/ Requests(x) \/ Strays(x)
        PROVE  tg'[u].until = 0
    <3>1. tg \in [Users -> {Left, Asking, Member} \cup {Kicked(t) : t \in Dates}]
      BY <2>1 DEF TypeOK
    <3>2. \E status \in {Left, Asking, Member, Kicked(0)} : tg' = [tg EXCEPT ![x] = status]
      BY <2>1, <2>5, ArrivesSends, RequestsSends DEF Strays
    <3> QED
      BY <2>3, <3>1, <3>2
  <2> QED
    BY <1>3, <2>1, <2>4, <2>5, Kinds, RedeliveredSends
    DEF GuardWorks, WindowCloses, ClaimExpires, Lifts, vars
<1> QED
  BY <1>1, <1>2, <1>3, PTL DEF Spec, NoBanAfterLift

-----------------------------------------------------------------------------
\* The bans: each is in a row, or in the hands of the worker about to record it.

InFlight(d) == guard[d].pc \notin {"unsent", "done"}

\* Who asks to join is handled by that request alone, is not under a ban, and
\* waits for none.
Undisturbed(d) ==
    /\ \A c \in Updates : InFlight(c) /\ guard[c].user = guard[d].user => c = d
    /\ ~UnderLockdownBan(guard[d].user)
    /\ rows[guard[d].user].state \in {"pending", "acting"} => rows[guard[d].user].path = "request"

RequestInv ==
    \A d \in Updates : InFlight(d) /\ guard[d].path = "request" => Undisturbed(d)

\* A row that may be taken back and is past its window has no ban behind it while
\* an update about a join is handled.
Settled(u) == rows[u].state \in ReclaimStates /\ ~rows[u].fresh => ~UnderLockdownBan(u)

AgeInv ==
    \A d \in Updates : InFlight(d) /\ guard[d].path # "request" => Settled(guard[d].user)

WithdrawInv == \A d \in Updates : guard[d].pc = "withdraw" => ld # "active"

\* The row has the date of the ban.
Recorded(u) == UnderLockdownBan(u) => isLockdownBan(u, rows[u].until)

-----------------------------------------------------------------------------
\* The steps of a worker, with the calls and their records as the actions they are.

CallsOne(w, u) ==
    \/ BanOneLooks(w, u) \/ BanOneBans(w, u) \/ DeclineOne(w, u)
    \/ DeclineFails(w, u) \/ UnbanOneLooks(w, u) \/ UnbanOneUnbans(w, u)

LEMMA WorkerKinds ==
    ASSUME TypeOK, NEW w \in Workers, WorkerStep(w)
    PROVE  \/ /\ Turns(w) \/ Lists(w, "pending") \/ Lists(w, "banned")
                 \/ \E u \in Users : Claims(w, u) \/ Drops(w, u)
           \/ \E u \in Users : CallsOne(w, u)
           \/ \E u \in Users : BanOneRecords(w, u) \/ UnbanOneRecords(w, u)
<1>1. ListPending(w) \/ ListBanned(w) => Lists(w, "pending") \/ Lists(w, "banned") \/ Turns(w)
  <2>1. ASSUME ListPending(w) \/ ListBanned(w)
        PROVE  worker[w].pc \in {"list", "unlist"} /\ UNCHANGED <<ld, tg, rows, guard>>
    BY <2>1 DEF ListPending, ListBanned
  <2> QED
    BY <2>1, ListsWork DEF WorkerWorks, Claims, Drops, Calls, Records, Banning, Lifting
<1> QED
  BY <1>1, CycleTurns, ClaimsWork DEF WorkerStep, WorkerHandles, CallsOne

\* A call is about the one row in hand, and changes no row.
LEMMA CallIsOfRow ==
    ASSUME TypeOK, NEW w \in Workers, NEW u \in Users, CallsOne(w, u)
    PROVE  /\ Others(w) /\ UNCHANGED <<ld, rows, guard>> /\ u \in worker[w].on
           /\ worker'[w].batch = worker[w].batch /\ worker'[w].on = worker[w].on
           /\ worker[w].pc \notin {"record", "settle"}
<1>1. Calls(w, u)
  BY CallsWork DEF CallsOne
<1>2. worker[w].pc \notin {"record", "settle"}
  BY DEF CallsOne, BanOneLooks, BanOneBans, DeclineOne, DeclineFails, UnbanOneLooks,
         UnbanOneUnbans
<1> QED
  BY <1>1, <1>2 DEF Calls

\* The person's row under a ban of the ban pass.
LEMMA BansByRow ==
    ASSUME TypeOK, HandInv, BatchDated, ClaimInv, BatchInv, NEW w \in Workers,
           NEW u \in Users, BanOneBans(w, u)
    PROVE  /\ rows[u].state = "acting" /\ rows[u].path # "request"
           /\ rows[u].until = worker[w].batch[u].until
<1>1. worker[w].pc = "ban" /\ u \in worker[w].on /\ u \in BatchOf(w)
  BY DEF BanOneBans, WorkingOn, HandInv
<1>2. rows[u].id = worker[w].batch[u].id /\ rows[u].state = "acting"
  BY <1>1 DEF ClaimInv, Holds, Banning
<1>3. /\ rows[u].path = worker[w].batch[u].path
      /\ rows[u].until = worker[w].batch[u].until
  BY <1>1, <1>2 DEF BatchInv
<1> QED
  BY <1>1, <1>2, <1>3 DEF BatchDated

\* Who comes under a lockdown's ban in a step is banned by the ban pass.
LEMMA OnlyBanPassBans ==
    ASSUME TypeOK, SentInOrder, HandInv, BatchDated, [Next]_vars, NEW u \in Users
    PROVE  \/ ~UnderLockdownBan(u)'
           \/ tg'[u] = tg[u]
           \/ \E w \in Workers : WorkerStep(w) /\ BanOneBans(w, u)
<1>1. tg \in [Users -> {Left, Asking, Member} \cup {Kicked(t) : t \in Dates}]
  BY DEF TypeOK
<1>2. \A status \in {Left, Asking, Member, Kicked(0)} :
         status.status # "kicked" \/ status.until = 0
  BY DEF Left, Asking, Member, Kicked
<1>3. ASSUME NEW x \in Users, Arrives(x) \/ Requests(x) \/ Strays(x)
      PROVE  ~UnderLockdownBan(u)' \/ tg'[u] = tg[u]
  <2>1. \E status \in {Left, Asking, Member, Kicked(0)} : tg' = [tg EXCEPT ![x] = status]
    BY <1>3, ArrivesSends, RequestsSends DEF Strays
  <2> QED
    BY <1>1, <1>2, <2>1 DEF UnderLockdownBan, IsKicked
<1>4. ASSUME NEW w \in Workers, WorkerStep(w) \/ WorkerStops(w)
      PROVE  \/ ~UnderLockdownBan(u)'
             \/ tg'[u] = tg[u]
             \/ WorkerStep(w) /\ BanOneBans(w, u)
  <2>1. CASE UNCHANGED tg
    BY <2>1
  <2>2. ASSUME NEW x \in Users, CallsOne(w, x)
        PROVE  \/ ~UnderLockdownBan(u)'
               \/ tg'[u] = tg[u]
               \/ BanOneBans(w, u)
    <3>1. \/ tg'[u] = tg[u] \/ tg'[u] = Left \/ BanOneBans(w, u)
      BY <2>2, CallsStatus DEF CallsOne
    <3> QED
      BY <1>2, <3>1 DEF UnderLockdownBan, IsKicked
  <2>3. WorkerStops(w) => UNCHANGED tg
    BY DEF WorkerStops
  <2> QED
    BY <1>4, <2>1, <2>2, <2>3, OnlyCallsAct DEF CallsOne
<1> QED
  BY <1>3, <1>4, Kinds, RedeliveredSends DEF GuardWorks, WindowCloses, ClaimExpires, Lifts, vars

-----------------------------------------------------------------------------
LEMMA WithdrawStep ==
    ASSUME TypeOK, SentInOrder, WithdrawInv, [Next]_vars
    PROVE  WithdrawInv'
<1> SUFFICES ASSUME NEW d \in Updates, guard'[d].pc = "withdraw", ld' = "active"
             PROVE  FALSE
  BY DEF WithdrawInv
<1>1. ld = "active" /\ guard[d].pc # "withdraw"
  BY NeverActiveAgain DEF WithdrawInv
<1>2. PICK c \in Updates : GuardWorks(c)
  <2>1. guard'[d] # guard[d]
    BY <1>1
  <2>2. ASSUME NEW w \in Workers, WorkerStep(w) \/ WorkerStops(w)
        PROVE  UNCHANGED guard
    BY <2>2, WorkerStepWorks
    DEF WorkerWorks, Turns, Lists, Claims, Drops, Calls, Records, WorkerStops
  <2> QED
    BY <2>1, <2>2, Kinds, SendingKeeps DEF Strays, WindowCloses, ClaimExpires, Lifts, vars
<1>3. c = d
  BY <1>1, <1>2 DEF GuardWorks
<1> QED
  BY <1>1, <1>2, <1>3
  DEF GuardWorks, GuardLooks, GuardInserts, GuardReclaims, GuardMoves, GuardDeletes

\* What a step makes of who is handled: an update goes out, or a handler goes on.
LEMMA FlightChanges ==
    ASSUME TypeOK, SentInOrder, [Next]_vars, NEW d \in Updates, InFlight(d)'
    PROVE  \/ InFlight(d) /\ guard'[d].user = guard[d].user /\ guard'[d].path = guard[d].path
           \/ \E u \in Users : /\ Arrives(u) /\ guard'[d].user = u
                               /\ guard'[d].path # "request" /\ InOrder(u, {"request"})
           \/ \E u \in Users : /\ Requests(u) /\ guard'[d].user = u
                               /\ guard'[d].path = "request"
                               /\ AtRest(u) \/ "quick return" \in Hazards
                               /\ \A c \in Updates \ {d} : guard'[c] = guard[c]
           \/ \E u \in Users : /\ UNCHANGED <<tg, rows>> /\ guard'[d].user = u
                               /\ guard'[d].path # "request" /\ InOrder(u, {"request"})
                               /\ rows[u].fresh \/ "late delivery" \in Hazards
<1>1. CASE guard'[d] = guard[d]
  BY <1>1 DEF InFlight
<1>2. ASSUME NEW c \in Updates, GuardWorks(c)
      PROVE  InFlight(d) /\ guard'[d].user = guard[d].user /\ guard'[d].path = guard[d].path
  BY <1>2 DEF GuardWorks, InFlight
<1>3. ASSUME NEW w \in Workers, WorkerStep(w) \/ WorkerStops(w)
      PROVE  UNCHANGED guard
  BY <1>3, WorkerStepWorks
  DEF WorkerWorks, Turns, Lists, Claims, Drops, Calls, Records, WorkerStops
<1>4. ASSUME NEW c \in Updates, Redelivered(c), guard'[d] # guard[d]
      PROVE  \E u \in Users : /\ UNCHANGED <<tg, rows>> /\ guard'[d].user = u
                              /\ guard'[d].path # "request" /\ InOrder(u, {"request"})
                              /\ rows[u].fresh \/ "late delivery" \in Hazards
  BY <1>4, RedeliveredSends DEF Sends, GoesOut
<1>5. ASSUME NEW u \in Users, Arrives(u), guard'[d] # guard[d]
      PROVE  /\ Arrives(u) /\ guard'[d].user = u
             /\ guard'[d].path # "request" /\ InOrder(u, {"request"})
  BY <1>5, ArrivesSends DEF Sends, GoesOut
<1>6. ASSUME NEW u \in Users, Requests(u), guard'[d] # guard[d]
      PROVE  /\ Requests(u) /\ guard'[d].user = u
             /\ guard'[d].path = "request"
             /\ AtRest(u) \/ "quick return" \in Hazards
             /\ \A c \in Updates \ {d} : guard'[c] = guard[c]
  BY ZenonT(30), <1>6, RequestsSends DEF GoesOut
<1> QED
  BY <1>1, <1>2, <1>3, <1>4, <1>5, <1>6, Kinds
  DEF Strays, WindowCloses, ClaimExpires, Lifts, vars

\* An update that is handled is on its way.
LEMMA FlightIsWay ==
    ASSUME TypeOK, NEW d \in Updates, InFlight(d)
    PROVE  /\ OnItsWay(guard[d].user, Paths)
           /\ \A paths : guard[d].path \in paths => OnItsWay(guard[d].user, paths)
<1>1. guard[d].path \in Paths
  BY ShapesOfType DEF Update
<1> QED
  BY <1>1 DEF OnItsWay, InFlight

\* Which row a step can make wait for its ban: one that did, or a handler's.
LEMMA WaitingStays ==
    ASSUME TypeOK, SentInOrder, [Next]_vars, NEW u \in Users,
           rows'[u].state \in {"pending", "acting"}
    PROVE  \/ rows[u].state \in {"pending", "acting"} /\ rows'[u].path = rows[u].path
           \/ \E d \in Updates : /\ GuardWorks(d) /\ u = guard[d].user
                                 /\ rows'[u].path = guard[d].path
<1>1. CASE rows'[u] = rows[u]
  BY <1>1
<1>2. ASSUME NEW d \in Updates, GuardWorks(d), rows'[u] # rows[u]
      PROVE  u = guard[d].user /\ rows'[u].path = guard[d].path
  <2>1. u = guard[d].user
    BY <1>2 DEF GuardWorks, OnlyRow
  <2>2. NoRow.state = "none"
    BY DEF NoRow
  <2>3. GuardInserts(d) \/ GuardReclaims(d)
    BY <1>2, <2>1, <2>2 DEF GuardWorks, GuardLooks, GuardMoves, GuardDeletes, Moved
  <2>4. RowOf(d).path = guard[d].path /\ \A id : [RowOf(d) EXCEPT !.id = id].path = guard[d].path
    BY DEF RowOf
  <2> QED
    BY <2>1, <2>3, <2>4 DEF GuardInserts, GuardReclaims
<1>3. ASSUME NEW w \in Workers, WorkerWorks(w)
      PROVE  rows[u].state \in {"pending", "acting"} /\ rows'[u].path = rows[u].path
  <2>1. SameJoin(u)
    BY <1>3, WorkersKeepJoins
  <2>2. \/ rows'[u] = rows[u] \/ Swept(u)
        \/ Claims(w, u) \/ Records(w, u)
    BY <1>3 DEF WorkerWorks, Turns, Lists, Claims, Drops, Calls, Records, OnlyRow
  <2>3. CASE Swept(u)
    BY <2>1, <2>3 DEF Swept, Moved, SameJoin
  <2>4. CASE Claims(w, u)
    BY <2>1, <2>4 DEF Claims, Moved, SameJoin
  <2>5. CASE Records(w, u)
    <3>1. PICK unban \in {"unbanned", "kept", "unban_failed", "banned"} :
             unban = UnbanOutcome(w, u)
      BY DEF UnbanOutcome
    <3> QED
      BY <2>1, <2>5, <3>1 DEF Records, Moved, SameJoin
  <2> QED
    BY <2>1, <2>2, <2>3, <2>4, <2>5 DEF SameJoin
<1>4. ASSUME NEW x \in Users, WindowCloses(x) \/ ClaimExpires(x)
      PROVE  rows[u].state \in {"pending", "acting"} /\ rows'[u].path = rows[u].path
  BY <1>1, <1>4, RowsAge DEF Ages, OnlyRow
<1>5. ASSUME NEW w \in Workers, WorkerStops(w)
      PROVE  rows'[u] = rows[u]
  BY <1>5 DEF WorkerStops
<1> QED
  BY <1>1, <1>2, <1>3, <1>4, <1>5, Kinds, WorkerStepWorks, SendingKeeps DEF Strays, Lifts, vars

LEMMA RequestStep ==
    ASSUME "late delivery" \notin Hazards, "quick return" \notin Hazards,
           BaseInv, ClaimInv, BatchInv, RequestInv, [Next]_vars
    PROVE  RequestInv'
<1> SUFFICES ASSUME NEW d \in Updates, InFlight(d)', guard'[d].path = "request"
             PROVE  Undisturbed(d)'
  BY DEF RequestInv
<1>0. TypeOK /\ TypeOK' /\ SentInOrder /\ HandInv /\ BatchDated
  BY StepTyped DEF BaseInv
<1>1. PICK u \in Users : u = guard'[d].user
  BY <1>0 DEF TypeOK
<1>2. ASSUME NEW x \in Users, Requests(x), x = u, AtRest(u),
             \A c \in Updates \ {d} : guard'[c] = guard[c]
      PROVE  Undisturbed(d)'
  <2>1. UNCHANGED rows /\ tg' = [tg EXCEPT ![u] = Asking]
    BY <1>0, <1>2, RequestsSends DEF Sends
  <2>2. ~UnderLockdownBan(u)'
    BY <1>0, <2>1 DEF UnderLockdownBan, IsKicked, Asking, TypeOK
  <2>3. rows'[u].state \notin {"pending", "acting"}
    BY <1>2, <2>1 DEF AtRest
  <2>4. ASSUME NEW c \in Updates, InFlight(c)', guard'[c].user = u, c # d
        PROVE  FALSE
    <3>1. InFlight(c) /\ guard[c].user = u
      BY <1>2, <2>4 DEF InFlight
    <3> QED
      BY <1>0, <1>2, <3>1, FlightIsWay DEF AtRest
  <2> QED
    BY <1>1, <2>2, <2>3, <2>4 DEF Undisturbed
<1>3. CASE InFlight(d) /\ guard'[d].user = guard[d].user /\ guard'[d].path = guard[d].path
  <2>1. Undisturbed(d) /\ guard[d].user = u
    BY <1>1, <1>3 DEF RequestInv
  <2>2. OnItsWay(u, Paths) /\ OnItsWay(u, {"request"})
    BY <1>0, <1>3, <2>1, FlightIsWay
  <2>3. ASSUME NEW c \in Updates, InFlight(c)', guard'[c].user = u
        PROVE  c = d
    <3>1. InFlight(c) /\ guard[c].user = u
      BY <1>0, <2>2, <2>3, FlightChanges DEF AtRest, InOrder
    <3> QED
      BY <2>1, <3>1 DEF Undisturbed
  <2>4. ~UnderLockdownBan(u)'
    <3>1. ASSUME NEW w \in Workers, BanOneBans(w, u)
          PROVE  FALSE
      BY <1>0, <2>1, <3>1, BansByRow DEF Undisturbed
    <3>2. ~UnderLockdownBan(u)
      BY <2>1 DEF Undisturbed
    <3> QED
      BY <1>0, <3>1, <3>2, OnlyBanPassBans DEF UnderLockdownBan, IsKicked
  <2>5. ASSUME rows'[u].state \in {"pending", "acting"}
        PROVE  rows'[u].path = "request"
    <3>1. ASSUME NEW c \in Updates, GuardWorks(c), u = guard[c].user,
                 rows'[u].path = guard[c].path
          PROVE  rows'[u].path = "request"
      <4>1. c = d
        BY <2>1, <3>1 DEF Undisturbed, InFlight, GuardWorks
      <4> QED
        BY <1>3, <3>1, <4>1
    <3> QED
      BY <1>0, <2>1, <2>5, <3>1, WaitingStays DEF Undisturbed
  <2> QED
    BY <1>1, <2>3, <2>4, <2>5 DEF Undisturbed
<1> QED
  BY <1>0, <1>1, <1>2, <1>3, FlightChanges

\* A row that is old after a step was in its state before, and old as well but for
\* the close of its window.
LEMMA OldRowsStay ==
    ASSUME TypeOK, SentInOrder, [Next]_vars, NEW u \in Users,
           rows'[u].state \in ReclaimStates, ~rows'[u].fresh
    PROVE  rows[u].state = rows'[u].state /\ (~rows[u].fresh \/ WindowCloses(u))
<1>1. CASE rows'[u] = rows[u]
  BY <1>1
<1>2. ASSUME NEW d \in Updates, GuardWorks(d)
      PROVE  rows'[u] = rows[u]
  <2>1. NoRow.state = "none" /\ RowOf(d).fresh /\ \A id : [RowOf(d) EXCEPT !.id = id].fresh
    BY DEF NoRow, RowOf
  <2>2. CASE u # guard[d].user \/ GuardLooks(d)
    BY <1>2, <2>2 DEF GuardWorks, OnlyRow, GuardLooks
  <2>3. CASE u = guard[d].user /\ (GuardInserts(d) \/ GuardReclaims(d))
    BY <2>1, <2>3 DEF GuardInserts, GuardReclaims
  <2>4. CASE u = guard[d].user /\ (GuardMoves(d) \/ GuardDeletes(d))
    BY <2>1, <2>4 DEF GuardMoves, GuardDeletes, Moved, ReclaimStates
  <2> QED
    BY <1>2, <2>2, <2>3, <2>4 DEF GuardWorks
<1>3. ASSUME NEW w \in Workers, WorkerWorks(w)
      PROVE  rows'[u] = rows[u]
  <2>1. \/ rows'[u] = rows[u] \/ Swept(u)
        \/ Claims(w, u) \/ Records(w, u)
    BY <1>3 DEF WorkerWorks, Turns, Lists, Claims, Drops, Calls, Records, OnlyRow
  <2> QED
    BY <2>1 DEF Swept, Claims, Records, Moved
<1>4. ASSUME NEW x \in Users, WindowCloses(x) \/ ClaimExpires(x)
      PROVE  rows[u].state = rows'[u].state /\ (~rows[u].fresh \/ WindowCloses(u))
  BY <1>1, <1>4, RowsAge DEF Ages, OnlyRow
<1>5. ASSUME NEW w \in Workers, WorkerStops(w)
      PROVE  rows'[u] = rows[u]
  BY <1>5 DEF WorkerStops
<1> QED
  BY <1>1, <1>2, <1>3, <1>4, <1>5, Kinds, WorkerStepWorks, SendingKeeps DEF Strays, Lifts, vars

LEMMA AgeStep ==
    ASSUME "late delivery" \notin Hazards, BaseInv, ClaimInv, BatchInv, AgeInv, [Next]_vars
    PROVE  AgeInv'
<1> SUFFICES ASSUME NEW d \in Updates, InFlight(d)', guard'[d].path # "request",
                    rows'[guard'[d].user].state \in ReclaimStates,
                    ~rows'[guard'[d].user].fresh
             PROVE  ~UnderLockdownBan(guard[d].user)'
  BY DEF AgeInv, Settled
<1>0. TypeOK /\ TypeOK' /\ SentInOrder /\ HandInv /\ BatchDated
  BY StepTyped DEF BaseInv
<1>1. PICK u \in Users : u = guard'[d].user
  BY <1>0 DEF TypeOK
<1>2. rows[u].state \in ReclaimStates /\ (~rows[u].fresh \/ WindowCloses(u))
  BY <1>0, <1>1, OldRowsStay
<1>3. CASE InFlight(d) /\ guard'[d].user = guard[d].user /\ guard'[d].path = guard[d].path
  <2>1. OnItsWay(u, Paths)
    BY <1>0, <1>1, <1>3, FlightIsWay
  <2>2. ~WindowCloses(u)
    BY <2>1 DEF WindowCloses, InOrder
  <2>3. ~UnderLockdownBan(u)
    BY <1>1, <1>2, <1>3, <2>2 DEF AgeInv, Settled
  <2>4. ASSUME NEW w \in Workers, BanOneBans(w, u)
        PROVE  FALSE
    BY <1>0, <1>2, <2>4, BansByRow DEF ReclaimStates
  <2>5. ~UnderLockdownBan(u)'
    BY <1>0, <2>3, <2>4, OnlyBanPassBans DEF UnderLockdownBan, IsKicked
  <2> QED
    BY <1>1, <2>5
<1>4. ASSUME NEW x \in Users, Arrives(x), x = u
      PROVE  ~UnderLockdownBan(u)'
  <2>1. tg' = [tg EXCEPT ![u] = Member]
    BY <1>0, <1>4, ArrivesSends
  <2> QED
    BY <1>0, <2>1 DEF UnderLockdownBan, IsKicked, Member, TypeOK
<1>5. ASSUME NEW x \in Users, UNCHANGED rows, x = u, rows[x].fresh
      PROVE  FALSE
  BY <1>1, <1>5
<1> QED
  BY <1>0, <1>1, <1>3, <1>4, <1>5, FlightChanges

-----------------------------------------------------------------------------
\* A row is taken back for a new join only when no ban of a lockdown is on the
\* person: not while they ask to join, not by a row of a request, which has no
\* date, and not past the window of a join that is handled.
LEMMA TakenBackUnbanned ==
    ASSUME BaseInv, RequestInv, AgeInv, NEW d \in Updates, GuardWorks(d), GuardReclaims(d),
           NEW u \in Users, u = guard[d].user, Recorded(u)
    PROVE  ~UnderLockdownBan(u)
<1>1. InFlight(d)
  BY DEF GuardWorks, InFlight
<1>2. CASE guard[d].path = "request"
  BY <1>1, <1>2 DEF RequestInv, Undisturbed
<1>3. CASE guard[d].path # "request" /\ guard[d].seen.path = "request"
  <2>1. [rows[u] EXCEPT !.fresh = guard[d].seen.fresh] = guard[d].seen
    BY <1>3 DEF GuardReclaims, OldEnough
  <2>2. rows[u] \in JoinerRow
    <3>1. rows[u].state \in JoinerStates
      BY DEF GuardReclaims, Matches, JoinerStates
    <3> QED
      BY <3>1, StateMakesRow DEF BaseInv
  <2>3. [rows[u] EXCEPT !.fresh = guard[d].seen.fresh].path = rows[u].path
    BY <2>2 DEF JoinerRow
  <2>4. rows[u].path = "request"
    BY <1>3, <2>1, <2>3
  <2>5. rows[u].until = 0
    BY <2>4 DEF BaseInv, RowsDated, WellDated
  <2> QED
    BY <2>5 DEF Recorded, isLockdownBan
<1>4. CASE guard[d].path # "request" /\ guard[d].seen.path # "request"
  <2>1. ~rows[u].fresh /\ rows[u].state \in ReclaimStates
    BY <1>4 DEF GuardReclaims, OldEnough, Matches
  <2> QED
    BY <1>1, <1>4, <2>1 DEF AgeInv, Settled
<1> QED
  BY <1>2, <1>3, <1>4

LEMMA RecordedStep ==
    ASSUME BaseInv, ClaimInv, BatchInv, RequestInv, AgeInv, [Next]_vars,
           NEW u \in Users, Recorded(u),
           \A d \in Updates : GuardDeletes(d) /\ u = guard[d].user => ~UnderLockdownBan(u)
    PROVE  Recorded(u)'
<1>0. TypeOK /\ SentInOrder /\ HandInv /\ BatchDated
  BY DEF BaseInv
<1>1. CASE SameJoin(u)
  <2>1. ASSUME NEW w \in Workers, BanOneBans(w, u)
        PROVE  Recorded(u)'
    <3>1. rows'[u].until = worker[w].batch[u].until
      BY <1>0, <1>1, <2>1, BansByRow DEF SameJoin
    <3>2. PICK t : t = worker[w].batch[u].until
      OBVIOUS
    <3>3. tg'[u] = tg[u] \/ tg'[u] = Kicked(t)
      BY <1>0, <2>1, <3>2 DEF BanOneBans, TypeOK
    <3>4. tg'[u] = Kicked(t) => Recorded(u)'
      BY <3>1, <3>2 DEF Recorded, UnderLockdownBan, isLockdownBan, IsKicked, Kicked
    <3>5. tg'[u] = tg[u] => Recorded(u)'
      BY <1>1 DEF SameJoin, Recorded, UnderLockdownBan, isLockdownBan, IsKicked
    <3> QED
      BY <3>3, <3>4, <3>5
  <2>2. tg'[u] = tg[u] => Recorded(u)'
    BY <1>1 DEF SameJoin, Recorded, UnderLockdownBan, isLockdownBan, IsKicked
  <2>3. ~UnderLockdownBan(u)' => Recorded(u)'
    BY DEF Recorded
  <2> QED
    BY <1>0, <2>1, <2>2, <2>3, OnlyBanPassBans
<1>2. ASSUME NEW d \in Updates, GuardWorks(d), u = guard[d].user,
             GuardInserts(d) \/ GuardReclaims(d) \/ GuardDeletes(d)
      PROVE  Recorded(u)'
  <2>1. ~UnderLockdownBan(u)
    <3>1. CASE GuardInserts(d)
      <4>1. rows[u].until = 0
        BY <1>2, <3>1 DEF GuardInserts, NoRow
      <4> QED
        BY <4>1 DEF Recorded, isLockdownBan
    <3> QED
      BY <1>2, <3>1, TakenBackUnbanned
  <2>2. UNCHANGED tg
    BY <1>2 DEF GuardWorks
  <2> QED
    BY <2>1, <2>2 DEF Recorded, UnderLockdownBan, IsKicked
<1> QED
  BY <1>0, <1>1, <1>2, JoinsChange

\* Everything a ban's record rests on.
BansInv == BaseInv /\ ClaimInv /\ BatchInv /\ RequestInv /\ AgeInv /\ WithdrawInv

LEMMA InitBans == Init => BansInv /\ LiftedInv /\ \A u \in Users : ~UnderLockdownBan(u)
<1> SUFFICES ASSUME Init
             PROVE  BansInv /\ LiftedInv /\ \A u \in Users : ~UnderLockdownBan(u)
  OBVIOUS
<1>1. BaseInv
  BY InitBase
<1>2. ClaimInv
  BY NobodyAtWork DEF ClaimInv
<1>3. BatchInv
  <2>1. \A w \in Workers : \A u \in Users : worker[w].batch[u] = NoRow
    BY DEF Init, InitWith, Idle, NoBatch
  <2> QED
    BY <2>1 DEF BatchInv, BatchOf
<1>4. \A d \in Updates : guard[d].pc = "unsent"
  BY DEF Init, InitWith, Sent
<1>5. RequestInv /\ AgeInv /\ WithdrawInv
  BY <1>4 DEF RequestInv, AgeInv, WithdrawInv, InFlight
<1>6. ld = "active" /\ \A u \in Users : tg[u] \in {Left, Asking}
  BY DEF Init, InitWith
<1>7. LiftedInv
  BY <1>6 DEF LiftedInv
<1>8. \A u \in Users : ~UnderLockdownBan(u)
  <2>1. Left.status # "kicked" /\ Asking.status # "kicked"
    BY DEF Left, Asking
  <2> QED
    BY <1>6, <2>1 DEF UnderLockdownBan, IsKicked
<1> QED
  BY <1>1, <1>2, <1>3, <1>5, <1>7, <1>8 DEF BansInv

LEMMA BansStep ==
    ASSUME Hazards \subseteq {"lost outcome"}, BansInv, [Next]_vars
    PROVE  BansInv'
<1>1. /\ "late delivery" \notin Hazards /\ "quick return" \notin Hazards
      /\ "slow call" \notin Hazards /\ "stale batch" \notin Hazards
  OBVIOUS
<1>2. TypeOK /\ SentInOrder /\ HandInv /\ IdsInv
  BY DEF BansInv, BaseInv
<1> QED
  BY <1>1, <1>2, BaseStep, ClaimStep, BatchStep, RequestStep, AgeStep, WithdrawStep DEF BansInv

\* While the lockdown runs nobody is under its ban whose row does not hold the date
\* of the ban, though a ban may take effect and its answer or its record be lost:
\* the row is there before the ban (recordLockdownJoin), no other join takes it back
\* while the ban is on (lockdownExistingJoin), and nothing deletes it.
THEOREM BansAreRecorded ==
    ASSUME Hazards \subseteq {"lost outcome"}
    PROVE  Spec => []BanIsRecorded
<1> DEFINE Inv == BansInv /\ BanIsRecorded
<1>1. Init => Inv
  BY InitBans DEF BanIsRecorded
<1>2. ASSUME Inv, [Next]_vars
      PROVE  Inv'
  <2>1. BansInv'
    BY <1>2, BansStep
  <2>2. ASSUME ld' = "active", NEW u \in Users
        PROVE  Recorded(u)'
    <3>1. ld = "active"
      BY <1>2, <2>2, NeverActiveAgain DEF BansInv, BaseInv
    <3>2. Recorded(u)
      BY <1>2, <3>1 DEF BanIsRecorded, Recorded
    <3>3. \A d \in Updates : ~GuardDeletes(d)
      BY <1>2, <3>1 DEF BansInv, WithdrawInv, GuardDeletes
    <3> QED
      BY <1>2, <3>2, <3>3, RecordedStep DEF BansInv
  <2> QED
    BY <2>1, <2>2 DEF BanIsRecorded, Recorded
<1> QED
  BY <1>1, <1>2, PTL DEF Spec

-----------------------------------------------------------------------------
\* Every ban in force is one its row says is in force, or is about to say.

\* A worker has the ban's outcome in hand and has yet to record it.
Recording(w, u) == u \in worker[w].on /\ worker[w].pc = "record" /\ worker[w].res = "done"

Accounted(u) ==
    /\ Recorded(u)
    /\ UnderLockdownBan(u) =>
          \/ rows[u].state \in {"banned", "unbanning", "unban_failed"}
          \/ \E w \in Workers : Recording(w, u)

AccountInv == \A u \in Users : Accounted(u)

\* Whoever's unban is to be recorded as done, or as not called for, is not banned.
UnbanInv ==
    \A w \in Workers : worker[w].pc = "settle" /\ worker[w].res \in {"done", "kept"} =>
        \A u \in worker[w].on : ~UnderLockdownBan(u)

\* What a worker that holds a row knows of it.
LEMMA HeldRow ==
    ASSUME TypeOK, HandInv, ClaimInv, BatchInv, NEW w \in Workers, NEW u \in worker[w].on
    PROVE  /\ u \in Users /\ Holds(w, u)
           /\ rows[u].id = worker[w].batch[u].id
           /\ rows[u].path = worker[w].batch[u].path
           /\ rows[u].until = worker[w].batch[u].until
<1>1. u \in BatchOf(w) /\ Holds(w, u)
  BY DEF HandInv, ClaimInv
<1> QED
  BY <1>1 DEF Holds, BatchInv, BatchOf

\* A ban that is recorded moves its row to banned, and no worker gives it up before.
LEMMA BanGetsRecorded ==
    ASSUME "lost outcome" \notin Hazards, BaseInv, ClaimInv, BatchInv,
           NEW w \in Workers, NEW u \in Users, Recording(w, u),
           UnderLockdownBan(u), Recorded(u)
    PROVE  /\ BanOneRecords(w, u) => rows'[u].state = "banned"
           /\ ~WorkerStops(w)
<1>0. TypeOK /\ HandInv /\ RowsDated
  BY DEF BaseInv
<1>1. /\ Holds(w, u) /\ rows[u].until = worker[w].batch[u].until
      /\ rows[u].path = worker[w].batch[u].path
  BY <1>0, HeldRow DEF Recording
<1>2. isLockdownBan(u, worker[w].batch[u].until) /\ rows[u].until # 0
  BY <1>1 DEF Recorded, isLockdownBan
<1>3. Unrecorded(w, u)
  BY <1>2 DEF Unrecorded, Recording, WorkingOn
<1>4. worker[w].batch[u].path # "request"
  BY <1>0, <1>1, <1>2 DEF RowsDated, WellDated
<1>5. BanOutcome(w, u) = "banned"
  BY <1>4 DEF BanOutcome, Recording
<1>6. rows[u].id = worker[w].batch[u].id /\ rows[u].state = "acting"
  BY <1>1 DEF Holds, Recording, Banning
<1>7. ASSUME BanOneRecords(w, u)
      PROVE  rows'[u].state = "banned"
  <2>1. PICK id : id = worker[w].batch[u].id
    OBVIOUS
  <2>2. PICK count \in BOOLEAN : count <=> worker[w].res = "failed"
    OBVIOUS
  <2>3. MoveJoiner(u, id, "acting", "banned", count)
    BY <1>3, <1>5, <1>7, <2>1, <2>2 DEF BanOneRecords
  <2>4. Matches(u, id, {"acting"})
    BY <1>6, <2>1 DEF Matches
  <2>5. "acting" \in JoinerStates /\ u \in Users
    BY <1>0, HeldRow DEF JoinerStates, UnfinishedStates, Recording
  <2>6. Moved(u, "banned")
    BY <1>0, <2>3, <2>4, <2>5, MoveMoves
  <2> QED
    BY <2>6 DEF Moved
<1>8. ~WorkerStops(w)
  BY <1>3 DEF WorkerStops
<1> QED
  BY <1>7, <1>8

\* The step leaves w where it is, and its row.
LEMMA HeldByOthers ==
    ASSUME BaseInv, ClaimInv, BatchInv, [Next]_vars,
           NEW w \in Workers, NEW u \in worker[w].on, worker'[w] = worker[w]
    PROVE  \/ rows'[u] = rows[u]
           \/ ClaimExpires(u)
           \/ WindowCloses(u) /\ rows'[u].state = rows[u].state
<1>0. TypeOK /\ SentInOrder /\ HandInv
  BY DEF BaseInv
<1>1. /\ u \in Users /\ rows[u].state \in {"acting", "unbanning"} /\ ~rows[u].stale
      /\ \A v \in Workers : u \in worker[v].on => v = w
  BY <1>0, HeldRow DEF Holds
<1>2. ASSUME NEW v \in Workers, WorkerWorks(v)
      PROVE  rows'[u] = rows[u]
  <2>1. \/ rows'[u] = rows[u] \/ Swept(u) \/ Claims(v, u) \/ Records(v, u)
    BY <1>1, <1>2 DEF WorkerWorks, Turns, Lists, Claims, Drops, Calls, Records, OnlyRow
  <2>2. ~Claims(v, u)
    BY <1>1 DEF Claims
  <2>3. ~Records(v, u)
    <3>1. Records(v, u) => v = w /\ worker'[w].on = {}
      BY <1>1 DEF Records, PutDown
    <3> QED
      BY <3>1
  <2>4. Swept(u) => rows'[u] = rows[u]
    BY <1>1 DEF Swept
  <2> QED
    BY <2>1, <2>2, <2>3, <2>4
<1>3. ASSUME NEW d \in Updates, GuardWorks(d)
      PROVE  rows'[u] = rows[u]
  <2>1. CASE u # guard[d].user \/ GuardLooks(d)
    BY <1>1, <1>3, <2>1 DEF GuardWorks, GuardLooks, OnlyRow
  <2>2. CASE u = guard[d].user
    <3>1. NoRow.state = "none"
      BY DEF NoRow
    <3>2. rows[u] # NoRow /\ rows[u].state \notin ReclaimStates \cup {"pending"}
      BY <1>1, <3>1 DEF ReclaimStates
    <3>3. GuardLooks(d)
      BY <1>3, <2>2, <3>2
      DEF GuardWorks, GuardInserts, GuardReclaims, GuardMoves, GuardDeletes, Matches
    <3> QED
      BY <2>1, <3>3
  <2> QED
    BY <2>1, <2>2
<1>4. ASSUME NEW x \in Users, WindowCloses(x) \/ ClaimExpires(x)
      PROVE  \/ rows'[u] = rows[u]
             \/ ClaimExpires(u)
             \/ WindowCloses(u) /\ rows'[u].state = rows[u].state
  BY <1>0, <1>1, <1>4, RowsAge DEF Ages, OnlyRow
<1>5. ASSUME NEW v \in Workers, WorkerStops(v)
      PROVE  rows'[u] = rows[u]
  BY <1>5 DEF WorkerStops
<1> QED
  BY <1>0, <1>2, <1>3, <1>4, <1>5, Kinds, WorkerStepWorks, SendingKeeps DEF Strays, Lifts, vars

\* How a row that says its ban is in force changes.
LEMMA BannedStays ==
    ASSUME BaseInv, ClaimInv, BatchInv, RequestInv, AgeInv, UnbanInv, [Next]_vars,
           NEW u \in Users, Recorded(u), UnderLockdownBan(u),
           rows[u].state \in {"banned", "unbanning", "unban_failed"}
    PROVE  rows'[u].state \in {"banned", "unbanning", "unban_failed"}
<1>0. TypeOK /\ SentInOrder /\ HandInv
  BY DEF BaseInv
<1>1. CASE rows'[u] = rows[u]
  BY <1>1
<1>2. ASSUME NEW d \in Updates, GuardWorks(d)
      PROVE  rows'[u] = rows[u]
  <2>1. CASE u # guard[d].user \/ GuardLooks(d)
    BY <1>2, <2>1 DEF GuardWorks, GuardLooks, OnlyRow
  <2>2. CASE u = guard[d].user /\ GuardReclaims(d)
    BY <1>2, <2>2, TakenBackUnbanned
  <2>3. CASE u = guard[d].user /\ (GuardInserts(d) \/ GuardMoves(d) \/ GuardDeletes(d))
    <3>1. NoRow.state = "none"
      BY DEF NoRow
    <3> QED
      BY <2>3, <3>1 DEF GuardInserts, GuardMoves, GuardDeletes
  <2> QED
    BY <1>2, <2>1, <2>2, <2>3 DEF GuardWorks
<1>3. ASSUME NEW w \in Workers, WorkerStep(w)
      PROVE  rows'[u].state \in {"banned", "unbanning", "unban_failed"}
  <2>1. CASE Turns(w)
    BY <1>1, <2>1 DEF Turns, Swept, Moved
  <2>2. ASSUME NEW x \in Users, Claims(w, x)
        PROVE  rows'[u].state \in {"banned", "unbanning", "unban_failed"}
    BY <1>1, <2>2 DEF Claims, OnlyRow, Moved
  <2>3. ASSUME NEW x \in Users, BanOneRecords(w, x) \/ UnbanOneRecords(w, x)
        PROVE  rows'[u].state \in {"banned", "unbanning", "unban_failed"}
    <3>1. Records(w, x)
      BY <1>0, <2>3, RecordsWork
    <3>2. CASE x # u
      BY <1>1, <3>1, <3>2 DEF Records, OnlyRow
    <3>3. CASE x = u /\ UnbanOneRecords(w, u)
      <4>1. worker[w].pc = "settle" /\ u \in worker[w].on
        BY <3>3 DEF UnbanOneRecords, WorkingOn
      <4>2. worker[w].res \notin {"done", "kept"}
        BY <4>1 DEF UnbanInv
      <4>3. UnbanOutcome(w, u) \in {"unban_failed", "banned"}
        BY <4>2 DEF UnbanOutcome
      <4>4. rows' = rows \/ Moved(u, UnbanOutcome(w, u))
        BY <3>1, <3>3, <4>1 DEF Records
      <4> QED
        BY <1>1, <4>3, <4>4 DEF Moved
    <3>4. CASE x = u /\ BanOneRecords(w, u)
      <4>1. worker[w].pc = "record"
        BY <3>4 DEF BanOneRecords
      <4>2. rows[u].state # "acting"
        OBVIOUS
      <4> QED
        BY <1>1, <3>1, <3>4, <4>1, <4>2 DEF Records
    <3> QED
      BY <2>3, <3>2, <3>3, <3>4
  <2>4. CASE UNCHANGED rows
    BY <1>1, <2>4
  <2> QED
    BY <1>0, <1>3, <2>1, <2>2, <2>3, <2>4, WorkerKinds, CallIsOfRow DEF Lists, Drops
<1>4. ASSUME NEW x \in Users, WindowCloses(x) \/ ClaimExpires(x)
      PROVE  rows'[u].state = rows[u].state
  BY <1>0, <1>4, RowsAge DEF Ages, OnlyRow
<1>5. ASSUME NEW w \in Workers, WorkerStops(w)
      PROVE  rows'[u] = rows[u]
  BY <1>5 DEF WorkerStops
<1> QED
  BY <1>0, <1>1, <1>2, <1>3, <1>4, <1>5, Kinds, SendingKeeps DEF Strays, Lifts, vars

\* Only its own steps move a worker.
LEMMA MovesItself ==
    ASSUME TypeOK, SentInOrder, [Next]_vars, NEW w \in Workers, worker'[w] # worker[w]
    PROVE  WorkerStep(w) \/ WorkerStops(w)
<1>1. ASSUME NEW v \in Workers, v # w, WorkerStep(v)
      PROVE  FALSE
  BY <1>1, WorkerStepWorks
  DEF WorkerWorks, Turns, Lists, Claims, Drops, Calls, Records, PutDown, Others
<1>2. ASSUME NEW v \in Workers, v # w, WorkerStops(v)
      PROVE  FALSE
  BY <1>2, StoppedIsIdle DEF Others
<1> QED
  BY <1>1, <1>2, Kinds, WorkersStay

LEMMA AccountStep ==
    ASSUME "slow call" \notin Hazards, "lost outcome" \notin Hazards,
           BaseInv, ClaimInv, BatchInv, RequestInv, AgeInv, AccountInv, UnbanInv, [Next]_vars
    PROVE  AccountInv'
<1> SUFFICES ASSUME NEW u \in Users
             PROVE  Accounted(u)'
  BY DEF AccountInv
<1>0. TypeOK /\ SentInOrder /\ HandInv /\ BatchDated
  BY DEF BaseInv
<1>1. Accounted(u)
  BY DEF AccountInv
<1>2. Recorded(u)'
  <2>1. ASSUME NEW d \in Updates, GuardDeletes(d), u = guard[d].user
        PROVE  ~UnderLockdownBan(u)
    <3>1. rows[u].state = "pending"
      BY <2>1 DEF GuardDeletes
    <3>2. \A w \in Workers : ~Recording(w, u)
      BY <1>0, <3>1, HeldRow DEF Recording, Holds
    <3> QED
      BY <1>1, <3>1, <3>2 DEF Accounted
  <2> QED
    BY <1>1, <2>1, RecordedStep DEF Accounted
<1>3. ASSUME UnderLockdownBan(u)', tg'[u] = tg[u]
      PROVE  \/ rows'[u].state \in {"banned", "unbanning", "unban_failed"}
             \/ \E w \in Workers : Recording(w, u)'
  <2>1. UnderLockdownBan(u) /\ Recorded(u)
    BY <1>1, <1>3 DEF Accounted, UnderLockdownBan, IsKicked
  <2>2. CASE rows[u].state \in {"banned", "unbanning", "unban_failed"}
    BY <2>1, <2>2, BannedStays
  <2>3. ASSUME NEW w \in Workers, Recording(w, u)
        PROVE  \/ rows'[u].state \in {"banned", "unbanning", "unban_failed"}
               \/ Recording(w, u)'
    <3>1. CASE worker'[w] = worker[w]
      BY <2>3, <3>1 DEF Recording
    <3>2. CASE worker'[w] # worker[w]
      <4>1. WorkerStep(w)
        BY <1>0, <2>1, <2>3, <3>2, MovesItself, BanGetsRecorded
      <4>2. PICK x \in Users : BanOneRecords(w, x)
        <5>1. worker[w].pc = "record"
          BY <2>3 DEF Recording
        <5>2. \A x \in Users : ~CallsOne(w, x) /\ ~UnbanOneRecords(w, x)
          BY <1>0, <5>1, CallIsOfRow DEF UnbanOneRecords
        <5>3. /\ ~Turns(w) /\ ~Lists(w, "pending") /\ ~Lists(w, "banned")
              /\ \A x \in Users : ~Claims(w, x) /\ ~Drops(w, x)
          BY <5>1 DEF Turns, Inert, Lists, Claims, Drops
        <5> QED
          BY <1>0, <4>1, <5>2, <5>3, WorkerKinds
      <4>3. x = u
        BY <1>0, <2>3, <4>2 DEF BanOneRecords, WorkingOn, Recording, HandInv
      <4> QED
        BY <2>1, <2>3, <4>2, <4>3, BanGetsRecorded
    <3> QED
      BY <3>1, <3>2
  <2> QED
    BY <1>1, <2>1, <2>2, <2>3 DEF Accounted
<1>4. ASSUME tg'[u] # tg[u], NEW w \in Workers, BanOneBans(w, u)
      PROVE  Recording(w, u)'
  <2>1. Ends(w, "record", "done")
    BY <1>4 DEF BanOneBans
  <2>2. worker'[w].pc = "record" /\ worker'[w].res = "done" /\ worker'[w].on = worker[w].on
    BY <1>0, <2>1, EndsTurns
  <2>3. u \in worker[w].on
    BY <1>4 DEF BanOneBans, WorkingOn
  <2> QED
    BY <2>2, <2>3 DEF Recording
<1> QED
  BY <1>0, <1>2, <1>3, <1>4, OnlyBanPassBans DEF Accounted

\* What an unban's look and call found, or made, of a person.
LEMMA UnbanEnds ==
    ASSUME TypeOK, NEW w \in Workers, NEW u \in Users, CallsOne(w, u),
           worker'[w].pc = "settle", worker'[w].res \in {"done", "kept"}
    PROVE  \/ ~isLockdownBan(u, worker[w].batch[u].until) /\ UNCHANGED tg
           \/ tg' = IF IsKicked(u) THEN [tg EXCEPT ![u] = Left] ELSE tg
<1>1. ASSUME EndsInError(w, "settle") \/ EndsInError(w, "record")
      PROVE  FALSE
  <2>1. PICK pc \in {"settle", "record"}, res \in {"retry", "failed"} : Ends(w, pc, res)
    BY <1>1 DEF EndsInError
  <2> QED
    BY <2>1, EndsTurns
<1>2. \A pc, res : Ends(w, pc, res) => pc = "settle"
  <2> TAKE pc, res
  <2> QED
    BY EndsTurns
<1>3. \A pc : WorkerGoes(w, pc) => pc = "settle"
  <2> TAKE pc
  <2> QED
    BY GoesTurns
<1> QED
  BY <1>1, <1>2, <1>3
  DEF CallsOne, BanOneLooks, BanOneBans, DeclineOne, DeclineFails, UnbanOneLooks, UnbanOneUnbans

LEMMA UnbanStep ==
    ASSUME BaseInv, ClaimInv, BatchInv, AccountInv, UnbanInv, [Next]_vars
    PROVE  UnbanInv'
<1> SUFFICES ASSUME NEW w \in Workers, worker'[w].pc = "settle",
                    worker'[w].res \in {"done", "kept"}, NEW u \in worker'[w].on
             PROVE  ~UnderLockdownBan(u)'
  BY DEF UnbanInv
<1>0. TypeOK /\ SentInOrder /\ HandInv /\ BatchDated
  BY DEF BaseInv
<1>1. CASE worker'[w] = worker[w]
  <2>1. u \in worker[w].on /\ ~UnderLockdownBan(u) /\ worker[w].pc = "settle"
    BY <1>1 DEF UnbanInv
  <2>2. u \in Users /\ rows[u].state = "unbanning"
    BY <1>0, <2>1, HeldRow DEF Holds, Banning
  <2>3. \A v \in Workers : ~BanOneBans(v, u)
    BY <1>0, <2>2, BansByRow
  <2> QED
    BY <1>0, <2>1, <2>2, <2>3, OnlyBanPassBans DEF UnderLockdownBan, IsKicked
<1>2. CASE worker'[w] # worker[w]
  <2>1. WorkerStep(w)
    BY <1>0, <1>2, MovesItself, StoppedIsIdle
  <2>2. PICK x \in Users : CallsOne(w, x)
    <3>1. /\ ~Turns(w) /\ ~Lists(w, "pending") /\ ~Lists(w, "banned")
          /\ \A x \in Users : ~Claims(w, x) /\ ~Drops(w, x) /\ ~Records(w, x)
      BY DEF Turns, Inert, Lists, Claims, Drops, Records
    <3> QED
      BY <1>0, <2>1, <3>1, WorkerKinds, RecordsWork
  <2>3. x = u /\ u \in worker[w].on
    BY <1>0, <2>2, CallIsOfRow DEF HandInv
  <2>4. CASE ~isLockdownBan(u, worker[w].batch[u].until) /\ UNCHANGED tg
    <3>1. rows[u].until = worker[w].batch[u].until
      BY <1>0, <2>3, HeldRow
    <3>2. ~UnderLockdownBan(u)
      BY <2>3, <2>4, <3>1 DEF AccountInv, Accounted, Recorded
    <3> QED
      BY <2>4, <3>2 DEF UnderLockdownBan, IsKicked
  <2>5. CASE tg' = IF IsKicked(u) THEN [tg EXCEPT ![u] = Left] ELSE tg
    <3>1. Left.status # "kicked"
      BY DEF Left
    <3>2. tg'[u] = Left \/ (tg' = tg /\ ~IsKicked(u))
      BY <1>0, <2>3, <2>5 DEF TypeOK
    <3> QED
      BY <3>1, <3>2 DEF UnderLockdownBan, IsKicked
  <2> QED
    BY <1>0, <2>2, <2>3, <2>4, <2>5, UnbanEnds
<1> QED
  BY <1>1, <1>2

LEMMA AccountAlways ==
    ASSUME Hazards = {}
    PROVE  Spec => [](BansInv /\ LiftedInv /\ AccountInv /\ UnbanInv)
<1> DEFINE Inv == BansInv /\ LiftedInv /\ AccountInv /\ UnbanInv
<1>1. Init => Inv
  <2>1. Init => AccountInv
    BY InitBans DEF AccountInv, Accounted, Recorded
  <2>2. Init => UnbanInv
    BY NobodyAtWork DEF UnbanInv
  <2> QED
    BY <2>1, <2>2, InitBans
<1>2. ASSUME Inv, [Next]_vars
      PROVE  Inv'
  BY <1>2, BansStep, LiftedStep, AccountStep, UnbanStep DEF BansInv, BaseInv
<1> QED
  BY <1>1, <1>2, PTL DEF Spec

\* Where no ban's outcome is lost, a lift that ended left nobody under the lockdown's
\* ban but those whose unban was given up on: every ban is one its row says is in
\* force, or is about to, and the end waits for both (FinishLift).
THEOREM LiftsLeaveNoBan ==
    ASSUME Hazards = {}
    PROVE  Spec => []LiftLeavesNoBan
<1>1. ASSUME BansInv, LiftedInv, AccountInv
      PROVE  LiftLeavesNoBan
  <2> SUFFICES ASSUME ld = "lifted", NEW u \in Users, UnderLockdownBan(u)
               PROVE  rows[u].state = "unban_failed"
    BY DEF LiftLeavesNoBan
  <2>1. \A w \in Workers : worker[w].on = {}
    BY <1>1, LiftedAtRest DEF BansInv, BaseInv
  <2>2. \A w \in Workers : ~Recording(w, u)
    BY <2>1 DEF Recording
  <2> QED
    BY <1>1, <2>2 DEF AccountInv, Accounted, LiftedInv
<1> QED
  BY <1>1, AccountAlways, PTL

\* Where no ban's outcome is lost, nobody an administrator let in is under the
\* lockdown's ban: a row turns exempt only from pending, or when it is taken back,
\* and there is no ban behind either (lockdownExistingJoin).
THEOREM ExemptAreNotBanned ==
    ASSUME Hazards = {}
    PROVE  Spec => []ExemptIsNotBanned
<1>1. ASSUME BansInv, AccountInv
      PROVE  ExemptIsNotBanned
  <2> SUFFICES ASSUME NEW u \in Users, rows[u].state = "exempt", UnderLockdownBan(u)
               PROVE  FALSE
    BY DEF ExemptIsNotBanned
  <2>1. \A w \in Workers : ~Recording(w, u)
    BY <1>1, HeldRow DEF Recording, Holds, BansInv, BaseInv
  <2> QED
    BY <1>1, <2>1 DEF AccountInv, Accounted
<1> QED
  BY <1>1, AccountAlways, PTL

==============================================================================

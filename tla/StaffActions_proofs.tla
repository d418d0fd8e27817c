------------------------ MODULE StaffActions_proofs ------------------------
(***************************************************************************)
(* StaffActions for any groups, cards, taps, commands and faults: its      *)
(* types, the one undo of an action, the lock that keeps runs apart, the   *)
(* truth of a closed record, and what an undo puts back.                   *)
(***************************************************************************)
EXTENDS StaffActions, TLAPS

-----------------------------------------------------------------------------
\* The decisions of StaffDecide: what they are given and what they give.

LEMMA PlainTyped ==
    /\ Member \in TargetState /\ Left \in TargetState /\ Administrator \in TargetState
    /\ Unknown \notin TargetState
    /\ \A in \in BOOLEAN : Free(in) \in TargetState
    /\ \A until \in Nat : Kicked(until) \in TargetState
    /\ \A in, muted \in BOOLEAN, until \in Nat : Restricted(in, muted, until) \in TargetState
BY DEF Member, Left, Administrator, Unknown, Free, Kicked, Restricted, Plain, TargetState

LEMMA AppliedTyped ==
    ASSUME NEW v \in Verdict, NEW s \in TargetState, NEW at \in Nat
    PROVE  Applied(v, s, at) \in TargetState
<1>1. EndAt(v.until, at) \in Nat
  BY DEF EndAt, Verdict
<1>2. v.muted \in BOOLEAN /\ s.in \in BOOLEAN
  BY DEF Verdict, TargetState
<1>3. /\ Kicked(EndAt(v.until, at)) \in TargetState
      /\ Restricted(s.in, TRUE, EndAt(v.until, at)) \in TargetState
      /\ Restricted(s.in, v.muted, EndAt(v.until, at)) \in TargetState
      /\ Left \in TargetState /\ Free(s.in) \in TargetState
  BY <1>1, <1>2, PlainTyped
<1> QED
  BY <1>3 DEF Applied

LEMMA AfterEndTyped ==
    ASSUME NEW s \in TargetState, NEW at \in Nat
    PROVE  AfterEnd(s, at) \in TargetState
BY PlainTyped DEF AfterEnd, TargetState

LEMMA MovesTyped ==
    ASSUME NEW s \in TargetState
    PROVE  Moves(s) \subseteq TargetState
<1>1. Free(~s.in) \in TargetState
  BY PlainTyped DEF TargetState
<1>2. [s EXCEPT !.in = ~s.in] \in TargetState
  BY DEF TargetState
<1> QED
  BY <1>1, <1>2 DEF Moves

LEMMA DecidedTyped ==
    ASSUME now \in Nat
    PROVE  /\ Decided \subseteq TargetState
           /\ \A s \in Decided : Shaped(s) /\ (s.until = 0 \/ s.until >= now + MinTerm)
<1> SUFFICES ASSUME NEW d \in Decisions, NEW s, s = [d EXCEPT !.until = EndAt(d.until, now)]
             PROVE  s \in TargetState /\ Shaped(s) /\ (s.until = 0 \/ s.until >= now + MinTerm)
  BY DEF Decided
<1>1. d \in TargetState /\ Shaped(d)
  BY StaffAssumption
<1>2. /\ s.status = d.status /\ s.in = d.in /\ s.muted = d.muted
      /\ s.until = EndAt(d.until, now)
  BY <1>1 DEF TargetState
<1>3. d.until \in Nat
  BY <1>1 DEF TargetState
<1>4. EndAt(d.until, now) \in Nat /\ (EndAt(d.until, now) = 0 \/ EndAt(d.until, now) >= now + MinTerm)
  BY <1>3, TermsAssumption DEF EndAt
<1>5. s \in TargetState
  BY <1>1, <1>4 DEF TargetState
<1> QED
  BY <1>1, <1>2, <1>4, <1>5 DEF Shaped

LEMMA DoTyped ==
    /\ Skip \in Verdict
    /\ \A call \in {"ban", "mute", "kick", "unban", "unmute"}, until \in Nat :
            Do(call, until) \in Verdict
    /\ \A prior \in TargetState \cup {Unknown} : RestoreOf(prior) \in Verdict
<1>1. \A prior \in TargetState : prior.until \in Nat /\ prior.muted \in BOOLEAN
  BY DEF TargetState
<1>2. Unknown.until \in Nat /\ Unknown.muted \in BOOLEAN
  BY DEF Unknown, Plain
<1>3. \A prior \in TargetState \cup {Unknown} : RestoreOf(prior) \in Verdict
  BY <1>1, <1>2 DEF RestoreOf, Verdict
<1> QED
  BY <1>3 DEF Skip, Do, Verdict

LEMMA ActionVerdictTyped ==
    ASSUME NEW kind \in ActionKinds, NEW s \in TargetState, NEW until \in Nat,
           NEW lockdownBan \in BOOLEAN
    PROVE  ActionVerdict(kind, s, until, lockdownBan) \in Verdict
<1>1. /\ BanVerdict(s, until, lockdownBan) \in Verdict
      /\ MuteVerdict(s, until) \in Verdict
      /\ KickVerdict(s) \in Verdict
      /\ UnbanVerdict(s) \in Verdict
      /\ UnmuteVerdict(s) \in Verdict
  BY DoTyped DEF BanVerdict, MuteVerdict, KickVerdict, UnbanVerdict, UnmuteVerdict
<1> QED
  BY <1>1, DoTyped DEF ActionVerdict, ActionKinds

LEMMA UndoVerdictTyped ==
    ASSUME NEW kind, NEW prior \in TargetState \cup {Unknown}, NEW until, NEW applied,
           NEW s, NEW at
    PROVE  UndoVerdict(kind, prior, until, applied, s, at) \in Verdict
<1>1. prior.until \in Nat
  BY DEF TargetState, Unknown, Plain
<1>2. /\ Do("ban", prior.until) \in Verdict /\ RestoreOf(prior) \in Verdict
      /\ Do("unban", 0) \in Verdict /\ Do("unmute", 0) \in Verdict /\ Skip \in Verdict
  BY <1>1, DoTyped
<1>3. PutBack(kind, prior, at) \in Verdict
  BY <1>2 DEF PutBack
<1> QED
  BY <1>2, <1>3 DEF UndoVerdict

-----------------------------------------------------------------------------
\* Types.  A tap that is at work has a card, and an undo is of a card.

OnCard == \A t \in Taps : tap[t].pc \in LivePcs => tap[t].on \in Cards

OfCard == \A c \in Cards : Undo(c) => card[c].of \in Cards

TypeInv == TypeOK /\ OnCard /\ OfCard

Tapped == [pc : TapPcs, on : Cards \cup {Nobody}]

LEMMA CardsAreNumbers == \A c \in Cards : c \in Nat /\ c # Nobody
BY StaffAssumption DEF Cards, Nobody

LEMMA Shapes ==
    TypeOK => /\ tap \in [Taps -> Tapped]
              /\ \A t \in Taps : tap[t] \in Tapped /\ tap[t].pc \in TapPcs
                                    /\ tap[t].on \in Cards \cup {Nobody}
              /\ \A c \in Cards : card[c] \in Card /\ rec[c] \in Record /\ reached[c] \in SUBSET Groups
              /\ \A c \in Cards : work[c] \in [Groups -> WorkPcs] /\ look[c] \in [Groups -> Look]
              /\ \A c \in Cards : row[c] \in [Groups -> Row]
              /\ \A c \in Cards, g \in Groups :
                    row[c][g] \in Row /\ look[c][g] \in Look /\ work[c][g] \in WorkPcs
              /\ \A g \in Groups : tg[g] \in TargetState
BY DEF TypeOK, Tapped

LEMMA BlanksTyped ==
    /\ NoCard \in Card /\ NoRecord \in Record /\ NewRow \in Row /\ NoLook \in Look
    /\ Over \in Tapped
    /\ Nobody \in Nat
<1>1. NoLook \in Look
  BY DoTyped DEF NoLook, Look
<1> QED
  BY <1>1 DEF NoCard, Card, ActionKinds, NoRecord, Record, NewRow, Row, Outcomes, Over, Tapped,
     TapPcs, Nobody

LEMMA FailsTyped == TypeOK /\ (Fails \/ NoFault) => faults' \in Nat
BY DEF TypeOK, Fails, NoFault

LEMMA GoesTyped ==
    ASSUME TypeOK, NEW t \in Taps, NEW pc \in TapPcs, Goes(t, pc)
    PROVE  /\ tap' \in [Taps -> Tapped]
           /\ tap'[t].pc = pc /\ tap'[t].on = tap[t].on
           /\ \A s \in Taps : s # t => tap'[s] = tap[s]
           /\ \A s \in Taps : tap'[s].on = tap[s].on
BY Shapes DEF Goes, Tapped

LEMMA SetCardTyped ==
    ASSUME TypeOK, NEW c \in Cards, NEW state \in {"running", "done", "closed", "aborted"},
           SetCard(c, state)
    PROVE  /\ card' \in [Cards -> Card]
           /\ card'[c].state = state
           /\ \A d \in Cards : d # c => card'[d] = card[d]
           /\ \A d \in Cards : card'[d].kind = card[d].kind /\ card'[d].of = card[d].of
                                 /\ card'[d].length = card[d].length
<1>1. card[c] \in Card /\ card \in [Cards -> Card]
  BY DEF TypeOK
<1> QED
  BY <1>1 DEF SetCard, Card

LEMMA ResultTyped ==
    ASSUME TypeOK, NEW r \in Row, NEW c \in Cards, NEW outcome \in Outcomes
    PROVE  /\ Result(r, c, outcome) \in Row
           /\ Result(r, c, outcome).prior = r.prior
           /\ Undo(c) => /\ Result(r, c, outcome).outcome = r.outcome
                         /\ Result(r, c, outcome).applied = r.applied
           /\ ~Undo(c) => Result(r, c, outcome).outcome = outcome
<1>1. now \in Nat
  BY DEF TypeOK
<1> QED
  BY <1>1 DEF Result, Row

LEMMA SetResultTyped ==
    ASSUME TypeOK, NEW c \in Cards, NEW g \in Groups, NEW outcome \in WorkPcs, NEW called,
           SetResult(c, g, outcome, called)
    PROVE  /\ work' \in [Cards -> [Groups -> WorkPcs]]
           /\ look' \in [Cards -> [Groups -> Look]]
           /\ reached' \in [Cards -> SUBSET Groups]
BY Shapes, BlanksTyped DEF TypeOK, SetResult

LEMMA RecordOfTyped ==
    ASSUME TypeInv, NEW c \in Cards
    PROVE  RecordOf(c) \in Cards
BY DEF RecordOf, TypeInv, OfCard

LEMMA WriteTyped ==
    ASSUME TypeInv, NEW c \in Cards, NEW g \in Groups, NEW outcome \in Outcomes,
           row' = [row EXCEPT ![RecordOf(c)][g] = Result(row[RecordOf(c)][g], c, outcome)]
    PROVE  row' \in [Cards -> [Groups -> Row]]
<1>1. row[RecordOf(c)][g] \in Row /\ row \in [Cards -> [Groups -> Row]]
  BY RecordOfTyped, Shapes DEF TypeInv, TypeOK
<1>2. Result(row[RecordOf(c)][g], c, outcome) \in Row
  BY <1>1, ResultTyped DEF TypeInv
<1> QED
  BY <1>1, <1>2, RecordOfTyped

LEMMA SettleTyped ==
    ASSUME TypeInv, NEW c \in Cards, NEW g \in Groups, NEW outcome \in {"done", "skipped", "failed"},
           NEW called, Settle(c, g, outcome, called) \/ Ends(c, g, outcome, called)
    PROVE  /\ work' \in [Cards -> [Groups -> WorkPcs]]
           /\ look' \in [Cards -> [Groups -> Look]]
           /\ reached' \in [Cards -> SUBSET Groups]
           /\ row' \in [Cards -> [Groups -> Row]]
           /\ faults' \in Nat
<1>1. outcome \in WorkPcs /\ outcome \in Outcomes
  BY DEF WorkPcs, Settled, Outcomes
<1>2. SetResult(c, g, outcome, called) /\ faults' \in Nat
  BY FailsTyped DEF Settle, Ends, TypeInv
<1>3. row' \in [Cards -> [Groups -> Row]]
  BY <1>1, WriteTyped DEF Settle, Ends, TypeInv, TypeOK
<1> QED
  BY <1>1, <1>2, <1>3, SetResultTyped DEF TypeInv

LEMMA DecideTyped ==
    ASSUME TypeInv, NEW c \in Cards, NEW g \in Groups, NEW lockdownBan \in BOOLEAN
    PROVE  Decide(c, g, lockdownBan) \in Verdict
<1>1. RecordOf(c) \in Cards
  BY RecordOfTyped
<1>2. rec[RecordOf(c)].until \in Nat /\ row[RecordOf(c)][g].prior \in TargetState \cup {Unknown}
      /\ tg[g] \in TargetState
  BY <1>1, Shapes DEF TypeInv, Record, Row
<1>3. CASE Undo(c)
  BY <1>2, <1>3, UndoVerdictTyped DEF Decide
<1>4. CASE ~Undo(c)
  <2>1. KindOf(c) \in ActionKinds
    BY <1>4, Shapes DEF KindOf, RecordOf, Undo, TypeInv, Card
  <2> QED
    BY <1>2, <1>4, <2>1, ActionVerdictTyped DEF Decide
<1> QED
  BY <1>3, <1>4

LEMMA BecomesTyped ==
    ASSUME TypeOK, NEW g \in Groups, NEW s \in TargetState, NEW by, Becomes(g, s, by)
    PROVE  /\ tg' \in [Groups -> TargetState]
           /\ overtaken' \subseteq Cards \X Groups
BY DEF TypeOK, Becomes, Overtaken

LEMMA ForgetTyped ==
    ASSUME TypeOK, NEW c \in Cards, Forget(c)
    PROVE  /\ work' \in [Cards -> [Groups -> WorkPcs]]
           /\ look' \in [Cards -> [Groups -> Look]]
           /\ reached' \in [Cards -> SUBSET Groups]
BY BlanksTyped DEF TypeOK, Forget, WorkPcs

\* A tap that goes on keeps its card.
LEMMA GoesOnCard ==
    ASSUME TypeInv, NEW t \in Taps, NEW pc \in TapPcs, tap[t].pc \in LivePcs, Goes(t, pc)
    PROVE  OnCard' /\ tap' \in [Taps -> Tapped]
BY GoesTyped DEF TypeInv, OnCard

LEMMA SetCardOfCard ==
    ASSUME TypeInv, NEW c \in Cards, NEW state \in {"running", "done", "closed", "aborted"},
           SetCard(c, state)
    PROVE  OfCard' /\ card' \in [Cards -> Card]
BY SetCardTyped DEF TypeInv, OfCard, Undo

LEMMA TypeInit == Init => TypeInv
<1> SUFFICES ASSUME Init PROVE TypeInv
  OBVIOUS
<1>1. PICK command \in Commands : card = Posted(command)
  BY DEF Init
<1>2. command \in [1 .. MaxActions -> [kind : ActionKinds, length : Nat]]
  BY StaffAssumption
<1>3. ASSUME NEW c \in Cards PROVE card[c] \in Card /\ ~Undo(c)
  <2>1. CASE c > MaxActions
    BY <1>1, <2>1, BlanksTyped DEF Posted, Undo, NoCard
  <2>2. CASE ~(c > MaxActions)
    <3>1. command[c] \in [kind : ActionKinds, length : Nat]
      BY <1>2, <2>2, StaffAssumption DEF Cards
    <3>2. card[c] = [NoCard EXCEPT !.state = "pending", !.kind = command[c].kind,
                            !.length = command[c].length]
      BY <1>1, <2>2 DEF Posted
    <3>3. card[c] = [state |-> "pending", kind |-> command[c].kind,
                     length |-> command[c].length, of |-> Nobody]
      BY <3>2 DEF NoCard
    <3> QED
      BY <3>1, <3>3, BlanksTyped DEF Card, Undo, ActionKinds
  <2> QED
    BY <2>1, <2>2
<1>4. card \in [Cards -> Card]
  BY <1>1, <1>3 DEF Posted
<1>5. OnCard
  BY DEF Init, OnCard, LivePcs
<1>6. OfCard
  BY <1>3 DEF OfCard
<1>7. TypeOK
  BY <1>4, BlanksTyped, StaffAssumption
     DEF Init, TypeOK, TapPcs, WorkPcs, NoCall
<1> QED
  BY <1>5, <1>6, <1>7 DEF TypeInv

LEMMA CardsTyped ==
    ASSUME TypeInv, PostUndoCard \/ CloseCard
    PROVE  TypeInv'
<1>1. CASE PostUndoCard
  <2>1. PICK c, a \in Cards :
            card' = [card EXCEPT ![c] = [NoCard EXCEPT !.state = "pending", !.kind = "undo", !.of = a]]
    BY <1>1 DEF PostUndoCard
  <2>2. [NoCard EXCEPT !.state = "pending", !.kind = "undo", !.of = a] \in Card
    BY CardsAreNumbers DEF NoCard, Card
  <2>3. card' \in [Cards -> Card]
    BY <2>1, <2>2 DEF TypeInv, TypeOK
  <2>4. OfCard'
    BY <2>1 DEF OfCard, Undo, TypeInv, TypeOK, NoCard
  <2> QED
    BY <1>1, <2>3, <2>4 DEF PostUndoCard, TypeInv, TypeOK, OnCard, redis, db, run, history
<1>2. CASE CloseCard
  <2>1. PICK c \in Cards : SetCard(c, "closed")
    BY <1>2 DEF CloseCard, SetCard
  <2>2. OfCard' /\ card' \in [Cards -> Card]
    BY <2>1, SetCardOfCard
  <2> QED
    BY <1>2, <2>2 DEF CloseCard, TypeInv, TypeOK, OnCard, redis, db, run, history
<1> QED
  BY <1>1, <1>2

LEMMA TapsTyped ==
    ASSUME TypeInv, NEW t \in Taps, TakeLock(t) \/ MoveCard(t) \/ ReleaseLock(t) \/ RenewLock(t)
    PROVE  TypeInv'
<1>1. CASE TakeLock(t)
  <2>1. PICK c \in Cards : /\ Takes(c)
                           /\ \/ tap' = [tap EXCEPT ![t] = [pc |-> "move", on |-> c]] /\ NoFault
                              \/ tap' = [tap EXCEPT ![t] = Over] /\ Fails
    BY <1>1 DEF TakeLock
  <2>2. tap' \in [Taps -> Tapped] /\ OnCard'
    BY <2>1, Shapes, BlanksTyped DEF TypeInv, OnCard, Tapped, TapPcs, Over, LivePcs
  <2>3. faults' \in Nat /\ lock' \in Cards
    BY <2>1, FailsTyped DEF Takes, TypeInv
  <2> QED
    BY <1>1, <2>2, <2>3 DEF TakeLock, TypeInv, TypeOK, OfCard, Undo, Tapped, redis, db, run, history
<1>2. CASE MoveCard(t)
  <2>1. tap[t].pc = "move" /\ tap[t].on \in Cards
    BY <1>2 DEF MoveCard, TypeInv, OnCard, LivePcs
  <2>2. tap' \in [Taps -> Tapped] /\ OnCard'
    BY <1>2, <2>1, GoesOnCard DEF MoveCard, TapPcs, LivePcs
  <2>3. card' \in [Cards -> Card] /\ OfCard'
    BY <1>2, <2>1, SetCardOfCard DEF MoveCard, TypeInv, TypeOK, OfCard, Undo
  <2>4. faults' \in Nat
    BY <1>2, FailsTyped DEF MoveCard, TypeInv
  <2> QED
    BY <1>2, <2>2, <2>3, <2>4 DEF MoveCard, TypeInv, TypeOK, Tapped, db, run, history
<1>3. CASE ReleaseLock(t)
  <2>1. tap' \in [Taps -> Tapped] /\ OnCard'
    BY <1>3, Shapes, BlanksTyped DEF ReleaseLock, TypeInv, OnCard, Over, LivePcs
  <2>2. faults' \in Nat /\ lock' \in Cards \cup {Nobody}
    BY <1>3, FailsTyped DEF ReleaseLock, LockWithout, TypeInv, TypeOK
  <2> QED
    BY <1>3, <2>1, <2>2 DEF ReleaseLock, TypeInv, TypeOK, OfCard, Undo, Tapped, db, run, history
<1>4. CASE RenewLock(t)
  BY <1>4 DEF RenewLock, TypeInv, TypeOK, OnCard, OfCard, Undo, db, run, history, LivePcs
<1> QED
  BY <1>1, <1>2, <1>3, <1>4

LEMMA ChecksTyped ==
    ASSUME TypeInv, NEW t \in Taps, CheckAction(t) \/ CheckUndo(t) \/ ClaimUndo(t)
    PROVE  TypeInv'
<1> DEFINE c == tap[t].on
<1>1. tap[t].pc \in LivePcs /\ c \in Cards
  BY DEF CheckAction, CheckUndo, ClaimUndo, TypeInv, OnCard, LivePcs
<1>2. \E pc \in TapPcs : Goes(t, pc)
  BY DEF CheckAction, CheckUndo, ClaimUndo, Abort, TapPcs
<1>3. tap' \in [Taps -> Tapped] /\ OnCard'
  BY <1>1, <1>2, GoesOnCard
<1>4. card' = card \/ SetCard(c, "aborted")
  BY DEF CheckAction, CheckUndo, ClaimUndo, Abort
<1>5. card' \in [Cards -> Card] /\ OfCard'
  BY <1>1, <1>4, SetCardOfCard DEF TypeInv, TypeOK, OfCard, Undo
<1>6. CASE CheckAction(t)
  <2>1. UntilOf(c) \in Nat
    BY <1>1, Shapes DEF UntilOf, TypeInv, TypeOK, Card
  <2>2. work' \in [Cards -> [Groups -> WorkPcs]]
    <3>1. work' = work \/ work' = [work EXCEPT ![c] = [g \in Groups |-> "todo"]]
      BY <1>6 DEF CheckAction
    <3>2. [g \in Groups |-> "todo"] \in [Groups -> WorkPcs]
      BY DEF WorkPcs
    <3> QED
      BY <1>1, <3>1, <3>2 DEF TypeInv, TypeOK
  <2>3. [rec[c] EXCEPT !.made = TRUE, !.until = UntilOf(c)] \in Record
    <3>1. \A r \in Record, until \in Nat : [r EXCEPT !.made = TRUE, !.until = until] \in Record
      BY DEF Record
    <3> QED
      BY <1>1, <2>1, <3>1, Shapes DEF TypeInv
  <2>4. rec' = rec \/ rec' = [rec EXCEPT ![c] = [rec[c] EXCEPT !.made = TRUE, !.until = UntilOf(c)]]
    BY <1>1, <1>6 DEF CheckAction, TypeInv, TypeOK
  <2>5. rec' \in [Cards -> Record]
    BY <1>1, <2>3, <2>4 DEF TypeInv, TypeOK
  <2> QED
    BY <1>3, <1>5, <1>6, <2>2, <2>5 DEF CheckAction, TypeInv, TypeOK, Tapped, db, run, history
<1>7. CASE CheckUndo(t)
  BY <1>3, <1>5, <1>7 DEF CheckUndo, TypeInv, TypeOK, Tapped, db, run, history
<1>8. CASE ClaimUndo(t)
  <2>1. rec' \in [Cards -> Record]
    <3> DEFINE a == card[c].of
    <3>1. rec' = rec \/ rec' = [rec EXCEPT ![a] = [rec[a] EXCEPT !.claim = c]]
      BY <1>8 DEF ClaimUndo
    <3>2. \A r \in Record : [r EXCEPT !.claim = c] \in Record
      BY <1>1, CardsAreNumbers DEF Record
    <3> HIDE DEF a
    <3>3. rec \in [Cards -> Record]
      BY DEF TypeInv, TypeOK
    <3>4. CASE a \in Cards
      BY <3>1, <3>2, <3>3, <3>4
    <3>5. CASE a \notin Cards
      BY <3>1, <3>3, <3>5
    <3> QED
      BY <3>4, <3>5
  <2>2. work' \in [Cards -> [Groups -> WorkPcs]]
    <3> DEFINE begun == [g \in Groups |-> IF g \in DoneIn(card[c].of) THEN "todo" ELSE "idle"]
    <3>1. work' = work \/ work' = [work EXCEPT ![c] = begun]
      BY <1>8 DEF ClaimUndo
    <3>2. begun \in [Groups -> WorkPcs]
      BY DEF WorkPcs
    <3> HIDE DEF begun
    <3> QED
      BY <1>1, <3>1, <3>2 DEF TypeInv, TypeOK
  <2>3. faults' \in Nat
    BY <1>8, FailsTyped DEF ClaimUndo, TypeInv
  <2> QED
    BY <1>3, <1>5, <1>8, <2>1, <2>2, <2>3 DEF ClaimUndo, TypeInv, TypeOK, Tapped, db, run, history
<1> QED
  BY <1>6, <1>7, <1>8

LEMMA LooksTyped ==
    ASSUME TypeInv, NEW t \in Taps, NEW g \in Groups, LookAtTarget(t, g) \/ SavePrior(t, g)
    PROVE  TypeInv'
<1> DEFINE c == tap[t].on
<1>1. c \in Cards
  BY DEF LookAtTarget, SavePrior, InGroup, TypeInv, OnCard, LivePcs
<1> HIDE DEF c
<1>2. UNCHANGED <<now, tg, redis, rec, tap, cut, late, history, lockLost>>
  BY DEF LookAtTarget, SavePrior
<1>3. \/ \E outcome \in {"skipped", "failed"} :
            Settle(c, g, outcome, FALSE) \/ Ends(c, g, outcome, FALSE)
      \/ \E pc \in {"looked", "saved"}, l \in Look :
            /\ work' = [work EXCEPT ![c][g] = pc] /\ look' = [look EXCEPT ![c][g] = l]
            /\ row' = row \/ row' = [row EXCEPT ![c][g].prior = look[c][g].saw]
            /\ UNCHANGED <<reached, faults>>
  <2>1. CASE LookAtTarget(t, g)
    <3>1. CASE \/ \E outcome \in {"skipped", "failed"} : Ends(c, g, outcome, FALSE)
               \/ Settle(c, g, "skipped", FALSE)
      BY <3>1
    <3>2. CASE \E lockdownBan \in {FALSE, tg[g].status = "kicked" /\ tg[g].until # 0} :
                    /\ work' = [work EXCEPT ![c][g] = IF Undo(c) THEN "saved" ELSE "looked"]
                    /\ look' = [look EXCEPT ![c][g] =
                            [saw |-> IF Undo(c) THEN Unknown ELSE tg[g],
                             verdict |-> Decide(c, g, lockdownBan),
                             at |-> IF Undo(c) THEN now ELSE 0]]
                    /\ UNCHANGED <<row, reached, faults>>
      <4>1. PICK lockdownBan \in BOOLEAN :
                    look' = [look EXCEPT ![c][g] =
                            [saw |-> IF Undo(c) THEN Unknown ELSE tg[g],
                             verdict |-> Decide(c, g, lockdownBan),
                             at |-> IF Undo(c) THEN now ELSE 0]]
        BY <3>2
      <4>2. Decide(c, g, lockdownBan) \in Verdict
        BY <1>1, DecideTyped
      <4>3. tg[g] \in TargetState /\ now \in Nat
        BY DEF TypeInv, TypeOK
      <4>4. [saw |-> IF Undo(c) THEN Unknown ELSE tg[g], verdict |-> Decide(c, g, lockdownBan),
             at |-> IF Undo(c) THEN now ELSE 0] \in Look
        BY <4>2, <4>3 DEF Look
      <4> QED
        BY <3>2, <4>1, <4>4
    <3> QED
      BY <2>1, <3>1, <3>2 DEF LookAtTarget, c
  <2>2. CASE SavePrior(t, g)
    <3>1. [look[c][g] EXCEPT !.saw = Unknown] \in Look
      BY <1>1, Shapes DEF TypeInv, Look
    <3>2. CASE /\ row' = [row EXCEPT ![c][g].prior = look[c][g].saw]
               /\ work' = [work EXCEPT ![c][g] = "saved"]
               /\ look' = [look EXCEPT ![c][g].saw = Unknown]
               /\ UNCHANGED <<reached, faults>>
      <4>1. look' = [look EXCEPT ![c][g] = [look[c][g] EXCEPT !.saw = Unknown]]
        BY <1>1, <3>2 DEF TypeInv, TypeOK
      <4> QED
        BY <3>1, <3>2, <4>1
    <3> QED
      BY <2>2, <3>2 DEF SavePrior, c
  <2> QED
    BY <2>1, <2>2
<1>4. CASE \E outcome \in {"skipped", "failed"} :
            Settle(c, g, outcome, FALSE) \/ Ends(c, g, outcome, FALSE)
  <2>1. PICK outcome \in {"skipped", "failed"} :
            Settle(c, g, outcome, FALSE) \/ Ends(c, g, outcome, FALSE)
    BY <1>4
  <2>2. /\ work' \in [Cards -> [Groups -> WorkPcs]]
        /\ look' \in [Cards -> [Groups -> Look]]
        /\ reached' \in [Cards -> SUBSET Groups]
        /\ row' \in [Cards -> [Groups -> Row]]
        /\ faults' \in Nat
    BY <1>1, <2>1, SettleTyped
  <2> QED
    BY <1>2, <2>2 DEF TypeInv, TypeOK, OnCard, OfCard, Undo, redis, history
<1>5. CASE \E pc \in {"looked", "saved"}, l \in Look :
            /\ work' = [work EXCEPT ![c][g] = pc] /\ look' = [look EXCEPT ![c][g] = l]
            /\ row' = row \/ row' = [row EXCEPT ![c][g].prior = look[c][g].saw]
            /\ UNCHANGED <<reached, faults>>
  <2>1. work' \in [Cards -> [Groups -> WorkPcs]] /\ look' \in [Cards -> [Groups -> Look]]
    BY <1>1, <1>5 DEF TypeInv, TypeOK, WorkPcs
  <2>2. [row[c][g] EXCEPT !.prior = look[c][g].saw] \in Row
    <3>1. \A r \in Row, s \in TargetState \cup {Unknown} : [r EXCEPT !.prior = s] \in Row
      BY DEF Row
    <3>2. row[c][g] \in Row /\ look[c][g].saw \in TargetState \cup {Unknown}
      BY <1>1, Shapes DEF TypeInv, Look
    <3> QED
      BY <3>1, <3>2
  <2>3. row' \in [Cards -> [Groups -> Row]]
    <3>1. row' = row \/ row' = [row EXCEPT ![c][g] = [row[c][g] EXCEPT !.prior = look[c][g].saw]]
      BY <1>1, <1>5 DEF TypeInv, TypeOK
    <3>2. PICK r \in Row : row' = row \/ row' = [row EXCEPT ![c][g] = r]
      BY <2>2, <3>1
    <3>3. row \in [Cards -> [Groups -> Row]] /\ row[c] \in [Groups -> Row]
      BY <1>1 DEF TypeInv, TypeOK
    <3> QED
      BY <1>1, <3>2, <3>3
  <2>4. reached' = reached /\ faults' = faults
    BY <1>5
  <2> QED
    BY <1>2, <2>1, <2>3, <2>4 DEF TypeInv, TypeOK, OnCard, OfCard, Undo, redis, history
<1> QED
  BY <1>3, <1>4, <1>5

LEMMA CallsTyped ==
    ASSUME TypeInv, NEW t \in Taps, NEW g \in Groups, CallTelegram(t, g)
    PROVE  TypeInv'
<1> DEFINE c == tap[t].on
<1>1. c \in Cards
  BY DEF CallTelegram, InGroup, TypeInv, OnCard, LivePcs
<1>2. /\ UNCHANGED <<now, redis, db, tap, cut, look, reached, lockLost>>
      /\ \E pc \in {"landed", "refused"} : work' = [work EXCEPT ![c][g] = pc]
      /\ late' = late \/ late' = late \cup {[card |-> c, group |-> g, verdict |-> look[c][g].verdict]}
      /\ Fails \/ NoFault
      /\ \/ Lands(c, g)
         \/ CallMade(c, g, Unknown) /\ UNCHANGED <<tg, overtaken>>
  BY DEF CallTelegram
<1> HIDE DEF c
<1>3. look[c][g].verdict \in Verdict /\ tg[g] \in TargetState /\ now \in Nat
  BY <1>1, Shapes DEF TypeInv, TypeOK, Look
<1>4. Applied(look[c][g].verdict, tg[g], now) \in TargetState
  BY <1>3, AppliedTyped
<1>5. tg' \in [Groups -> TargetState] /\ overtaken' \subseteq Cards \X Groups
  BY <1>2, <1>4, BecomesTyped DEF Lands, TypeInv, TypeOK
<1>6. \E left \in TargetState \cup {Unknown} : CallMade(c, g, left)
  BY <1>2, <1>4 DEF Lands
<1>7. hist' \in [Cards -> [Groups -> [before : TargetState \cup {Unknown},
                                      left : TargetState \cup {Unknown}]]]
  BY <1>1, <1>3, <1>6 DEF CallMade, TypeInv, TypeOK
<1>8. work' \in [Cards -> [Groups -> WorkPcs]]
  BY <1>1, <1>2 DEF TypeInv, TypeOK, WorkPcs
<1>9. late' \subseteq [card : Cards, group : Groups, verdict : Verdict]
  BY <1>1, <1>2, <1>3 DEF TypeInv, TypeOK
<1>10. faults' \in Nat
  BY <1>2, FailsTyped DEF TypeInv
<1> QED
  BY <1>2, <1>5, <1>7, <1>8, <1>9, <1>10 DEF TypeInv, TypeOK, OnCard, OfCard, Undo, redis, db

LEMMA AnswersTyped ==
    ASSUME TypeInv, NEW t \in Taps, NEW g \in Groups,
           CutOff(t, g) \/ Answer(t, g) \/ Panic(t, g)
    PROVE  TypeInv'
<1> DEFINE c == tap[t].on
<1>1. c \in Cards
  BY DEF CutOff, Answer, Panic, InGroup, TypeInv, OnCard, LivePcs
<1>2. CASE CutOff(t, g) \/ Answer(t, g)
  <2>1. /\ UNCHANGED <<now, tg, redis, rec, tap, cut, late, history, lockLost>>
        /\ \E outcome \in {"done", "failed"}, called \in BOOLEAN :
                Settle(c, g, outcome, called) \/ Ends(c, g, outcome, called)
    BY <1>2 DEF CutOff, Answer, Counts, Undo
  <2> QED
    BY <1>1, <2>1, SettleTyped DEF TypeInv, TypeOK, OnCard, OfCard, Undo, redis, history
<1>3. CASE Panic(t, g)
  <2>1. faults' \in Nat
    BY <1>3, FailsTyped DEF Panic, TypeInv
  <2>2. work' \in [Cards -> [Groups -> WorkPcs]] /\ look' \in [Cards -> [Groups -> Look]]
    BY <1>1, <1>3, BlanksTyped DEF Panic, TypeInv, TypeOK, WorkPcs, Settled
  <2> QED
    BY <1>3, <2>1, <2>2 DEF Panic, TypeInv, TypeOK, OnCard, OfCard, Undo, redis, db, history
<1> QED
  BY <1>2, <1>3

LEMMA AllResultsTyped ==
    ASSUME TypeInv, NEW c \in Cards, \A g \in Groups : work[c][g] \in Settled \cup {"idle"}
    PROVE  AllResults(c) \in [Groups -> Row]
<1> SUFFICES ASSUME NEW g \in Groups PROVE AllResults(c)[g] \in Row
  BY DEF AllResults
<1>1. row[RecordOf(c)][g] \in Row
  BY RecordOfTyped, Shapes DEF TypeInv
<1>2. work[c][g] # "idle" => Swept(work[c][g]) \in Outcomes
  BY DEF Swept, Settled, Outcomes
<1> QED
  BY <1>1, <1>2, ResultTyped DEF AllResults, TypeInv

LEMMA UndoRowTyped ==
    ASSUME NEW r \in Row
    PROVE  /\ UndoRow(r) \in Row
           /\ UndoRow(r).outcome = r.outcome /\ UndoRow(r).prior = r.prior
           /\ UndoRow(r).applied = r.applied
BY DEF UndoRow, Row, Outcomes

\* The steps that end a run.
Finishes(t) == Finish(t) \/ LoseRelease(t) \/ FinalizeReleased(t)

\* What they do to the records, and what they leave alone.
LEMMA FinishIs ==
    ASSUME NEW t \in Taps, Finishes(t), NEW c, c = tap[t].on
    PROVE  /\ tap[t].pc \in {"run", "finalize"}
           /\ \A g \in Groups : work[c][g] \in Settled \cup {"idle"}
           /\ \/ Goes(t, "deliver")
              \/ tap[t].pc = "run" /\ Goes(t, "finalize")
           /\ \/ tap[t].pc = "run" /\ ~Undo(c) /\ FinalizeAction(c)
              \/ Undo(c) /\ FinalizeUndo(c)
              \/ tap[t].pc = "run" /\ Undo(c) /\ ~AnyReached(c) /\ ReleaseUndo(c)
              \/ UNCHANGED db
           /\ UNCHANGED <<now, tg, redis, cut, run, late, history, lockLost>>
           /\ Fails \/ NoFault
BY DEF Finishes, Finish, LoseRelease, FinalizeReleased, GroupsEnded

LEMMA RunEndTyped ==
    ASSUME TypeInv, NEW t \in Taps, Finishes(t) \/ Deliver(t)
    PROVE  TypeInv'
<1> DEFINE c == tap[t].on
<1>1. c \in Cards /\ tap[t].pc \in LivePcs
  BY FinishIs DEF Deliver, TypeInv, OnCard, LivePcs
<1>2. tap' \in [Taps -> Tapped] /\ OnCard'
  BY <1>1, GoesOnCard, FinishIs DEF Deliver, TapPcs
<1>3. CASE Finishes(t)
  <2> HIDE DEF c
  <2>1. /\ \A g \in Groups : work[c][g] \in Settled \cup {"idle"}
        /\ \/ FinalizeAction(c) \/ (Undo(c) /\ FinalizeUndo(c))
           \/ (Undo(c) /\ ReleaseUndo(c)) \/ UNCHANGED db
        /\ UNCHANGED <<now, tg, redis, cut, run, late, history, lockLost>>
        /\ Fails \/ NoFault
    BY <1>3, FinishIs DEF c
  <2>2. AllResults(c) \in [Groups -> Row]
    BY <1>1, <2>1, AllResultsTyped
  <2>3. row' \in [Cards -> [Groups -> Row]] /\ rec' \in [Cards -> Record]
    <3>1. \A r \in Record : /\ [r EXCEPT !.finished = TRUE] \in Record
                            /\ [r EXCEPT !.undone = TRUE] \in Record
                            /\ [r EXCEPT !.claim = Nobody] \in Record
      BY DEF Record, Nobody
    <3>2. CASE FinalizeAction(c)
      BY <1>1, <2>2, <3>1, <3>2 DEF FinalizeAction, TypeInv, TypeOK
    <3>3. CASE Undo(c) /\ FinalizeUndo(c)
      <4>1. card[c].of \in Cards
        BY <1>1, <3>3 DEF TypeInv, OfCard
      <4>2. [g \in Groups |-> UndoRow(AllResults(c)[g])] \in [Groups -> Row]
        BY <2>2, UndoRowTyped
      <4> QED
        BY <3>1, <3>3, <4>1, <4>2 DEF FinalizeUndo, TypeInv, TypeOK
    <3>4. CASE Undo(c) /\ ReleaseUndo(c)
      <4> DEFINE a == card[c].of
      <4>1. a \in Cards
        BY <1>1, <3>4 DEF TypeInv, OfCard
      <4>2. \A r \in Row : [r EXCEPT !.undo = ""] \in Row
        BY DEF Row
      <4>3. [g \in Groups |-> [row[a][g] EXCEPT !.undo = ""]] \in [Groups -> Row]
        BY <4>1, <4>2, Shapes DEF TypeInv
      <4>4. /\ rec' = [rec EXCEPT ![a] = [rec[a] EXCEPT !.claim = Nobody]]
            /\ row' = [row EXCEPT ![a] = [g \in Groups |-> [row[a][g] EXCEPT !.undo = ""]]]
        BY <3>4 DEF ReleaseUndo
      <4> HIDE DEF a
      <4> QED
        BY <3>1, <4>1, <4>3, <4>4 DEF TypeInv, TypeOK
    <3>5. CASE UNCHANGED db
      BY <3>5 DEF db, TypeInv, TypeOK
    <3> QED
      BY <2>1, <3>2, <3>3, <3>4, <3>5
  <2>4. faults' \in Nat
    BY <2>1, FailsTyped DEF TypeInv
  <2> QED
    BY <1>2, <2>1, <2>3, <2>4 DEF TypeInv, TypeOK, OfCard, Undo, Tapped, redis, run, history
<1>4. CASE Deliver(t)
  <2>1. card' \in [Cards -> Card] /\ OfCard'
    BY <1>1, <1>4, SetCardOfCard DEF Deliver
  <2>2. /\ work' \in [Cards -> [Groups -> WorkPcs]]
        /\ look' \in [Cards -> [Groups -> Look]]
        /\ reached' \in [Cards -> SUBSET Groups]
    BY <1>1, <1>4, ForgetTyped DEF Deliver, TypeInv
  <2> QED
    BY <1>2, <1>4, <2>1, <2>2 DEF Deliver, TypeInv, TypeOK, Tapped, db, history
<1> QED
  BY <1>3, <1>4

LEMMA OthersTyped ==
    ASSUME TypeInv, LockExpires \/ LoseLock \/ LateCall \/ SomebodyElse \/ Tick
    PROVE  TypeInv'
<1>1. CASE LockExpires \/ LoseLock
  BY <1>1, FailsTyped
     DEF LockExpires, LoseLock, TypeInv, TypeOK, OnCard, OfCard, Undo, db, run, history
<1>2. CASE LateCall
  <2>1. PICK l \in late :
            /\ late' = late \ {l}
            /\ Becomes(l.group, Applied(l.verdict, tg[l.group], now), {l.card})
            /\ hist' = [hist EXCEPT ![l.card][l.group] =
                    [before |-> tg[l.group], left |-> Applied(l.verdict, tg[l.group], now)]]
    BY <1>2 DEF LateCall
  <2>2. l.card \in Cards /\ l.group \in Groups /\ l.verdict \in Verdict
    BY DEF TypeInv, TypeOK
  <2>3. tg[l.group] \in TargetState /\ Applied(l.verdict, tg[l.group], now) \in TargetState
    BY <2>2, AppliedTyped, Shapes DEF TypeInv, TypeOK
  <2>4. tg' \in [Groups -> TargetState] /\ overtaken' \subseteq Cards \X Groups
    BY <2>1, <2>2, <2>3, BecomesTyped DEF TypeInv
  <2>5. hist' \in [Cards -> [Groups -> [before : TargetState \cup {Unknown},
                                        left : TargetState \cup {Unknown}]]]
    BY <2>1, <2>2, <2>3 DEF TypeInv, TypeOK
  <2> QED
    BY <1>2, <2>1, <2>4, <2>5 DEF LateCall, TypeInv, TypeOK, OnCard, OfCard, Undo, redis, db, run
<1>3. CASE SomebodyElse
  <2>1. PICK g \in Groups : \E s \in Decided \cup Moves(tg[g]) : Becomes(g, s, {})
    BY <1>3 DEF SomebodyElse
  <2>2. PICK s \in TargetState : Becomes(g, s, {})
    BY <2>1, DecidedTyped, MovesTyped, Shapes DEF TypeInv, TypeOK
  <2>3. tg' \in [Groups -> TargetState] /\ overtaken' \subseteq Cards \X Groups
    BY <2>2, BecomesTyped DEF TypeInv
  <2>4. faults' \in Nat
    BY <1>3, FailsTyped DEF SomebodyElse, TypeInv
  <2> QED
    BY <1>3, <2>3, <2>4 DEF SomebodyElse, TypeInv, TypeOK, OnCard, OfCard, Undo, redis, db, run
<1>4. CASE Tick
  <2>1. now' \in Nat /\ now + 1 \in Nat
    BY <1>4 DEF Tick, TypeInv, TypeOK
  <2>2. tg' \in [Groups -> TargetState]
    BY <1>4, <2>1, AfterEndTyped, Shapes DEF Tick, TypeInv
  <2>3. overtaken' \subseteq Cards \X Groups
    BY <1>4 DEF Tick, Overtaken, TypeInv, TypeOK
  <2> QED
    BY <1>4, <2>1, <2>2, <2>3 DEF Tick, TypeInv, TypeOK, OnCard, OfCard, Undo, redis, db, run
<1> QED
  BY <1>1, <1>2, <1>3, <1>4

LEMMA StopsTyped ==
    ASSUME TypeInv, NEW t \in Taps, Stop(t) \/ Shutdown(t)
    PROVE  TypeInv'
<1>1. tap[t].on \in Cards
  BY DEF Stop, Shutdown, TypeInv, OnCard, LivePcs
<1>2. CASE Stop(t)
  <2>1. tap' \in [Taps -> Tapped] /\ OnCard'
    BY <1>2, Shapes, BlanksTyped DEF Stop, TypeInv, OnCard, Over, LivePcs
  <2>2. /\ work' \in [Cards -> [Groups -> WorkPcs]]
        /\ look' \in [Cards -> [Groups -> Look]]
        /\ reached' \in [Cards -> SUBSET Groups]
    BY <1>1, <1>2, ForgetTyped DEF Stop, TypeInv, TypeOK, run
  <2>3. faults' \in Nat
    BY <1>2, FailsTyped DEF Stop, TypeInv
  <2> QED
    BY <1>2, <2>1, <2>2, <2>3 DEF Stop, TypeInv, TypeOK, OfCard, Undo, Tapped, redis, db, history
<1>3. CASE Shutdown(t)
  <2>1. cut' \in [Cards -> BOOLEAN] /\ faults' \in Nat
    BY <1>3, FailsTyped DEF Shutdown, TypeInv, TypeOK
  <2> QED
    BY <1>3, <2>1 DEF Shutdown, TypeInv, TypeOK, OnCard, OfCard, Undo, redis, db, run, history
<1> QED
  BY <1>2, <1>3

LEMMA StutterTyped == TypeInv /\ UNCHANGED vars => TypeInv'
BY DEF vars, TypeInv, TypeOK, OnCard, OfCard, Undo, redis, db, run, history

LEMMA TypeStep == TypeInv /\ [Next]_vars => TypeInv'
BY CardsTyped, TapsTyped, ChecksTyped, LooksTyped, CallsTyped, AnswersTyped, RunEndTyped,
   OthersTyped, StopsTyped, StutterTyped
   DEF Next, Handler, Finishes, Group

LEMMA TypesHold == Spec => []TypeInv
BY TypeInit, TypeStep, PTL DEF Spec

\* In every instance every variable keeps its type: the cards and the lock in Redis,
\* the record, and what the run knows of each group.
THEOREM TypeCorrect == Spec => []TypeOK
<1>1. TypeInv => TypeOK
  BY DEF TypeInv
<1> QED
  BY <1>1, TypesHold, PTL

-----------------------------------------------------------------------------
\* What a run does in a group comes to one of these.

Turns(c, g, from, to) == work[c][g] = from /\ work' = [work EXCEPT ![c][g] = to]

SawStep(c, g) ==
    /\ Turns(c, g, "todo", IF Undo(c) THEN "saved" ELSE "looked")
    /\ \E lockdownBan \in BOOLEAN :
            /\ Decide(c, g, lockdownBan) # Skip
            /\ look' = [look EXCEPT ![c][g] = [saw |-> IF Undo(c) THEN Unknown ELSE tg[g],
                                               verdict |-> Decide(c, g, lockdownBan),
                                               at |-> IF Undo(c) THEN now ELSE 0]]
    /\ UNCHANGED <<tg, row, reached, late, hist, overtaken>>

SaveStep(c, g) ==
    /\ Turns(c, g, "looked", "saved")
    /\ row' = [row EXCEPT ![c][g].prior = look[c][g].saw]
    /\ look' = [look EXCEPT ![c][g].saw = Unknown]
    /\ UNCHANGED <<tg, reached, late, hist, overtaken>>

LandStep(c, g) ==
    /\ Turns(c, g, "saved", "landed")
    /\ Lands(c, g)
    /\ UNCHANGED <<row, look, reached, late>>

RefuseStep(c, g) ==
    /\ Turns(c, g, "saved", "refused")
    /\ CallMade(c, g, Unknown)
    /\ \/ late' = late
       \/ late' = late \cup {[card |-> c, group |-> g, verdict |-> look[c][g].verdict]}
    /\ UNCHANGED <<tg, row, look, reached, overtaken>>

\* A group that was called on is done or failed, and an undo has reached it.
SettleStep(c, g) ==
    /\ \E outcome \in {"done", "skipped", "failed"}, called \in BOOLEAN :
        /\ SetResult(c, g, outcome, called)
        /\ \/ row' = row
           \/ row' = [row EXCEPT ![RecordOf(c)][g] = Result(row[RecordOf(c)][g], c, outcome)]
        /\ outcome = "done" => work[c][g] = "landed"
        /\ outcome = "skipped" => work[c][g] = "todo"
        /\ Undo(c) /\ work[c][g] \in {"landed", "refused"} => called
    /\ work[c][g] \in {"todo", "looked", "saved", "landed", "refused"}
    /\ UNCHANGED <<tg, late, hist, overtaken>>

LostStep(c, g) ==
    /\ work' = [work EXCEPT ![c][g] = "lost"]
    /\ look' = [look EXCEPT ![c][g] = NoLook]
    /\ UNCHANGED <<tg, row, reached, late, hist, overtaken>>

LEMMA GroupSteps ==
    ASSUME TypeInv, NEW t \in Taps, NEW g \in Groups, Group(t, g) \/ Panic(t, g),
           NEW c, c = tap[t].on
    PROVE  /\ c \in Cards /\ tap[t].pc = "run"
           /\ UNCHANGED <<now, card, lock, rec, tap, cut, lockLost>>
           /\ \/ SawStep(c, g) \/ SaveStep(c, g) \/ LandStep(c, g) \/ RefuseStep(c, g)
              \/ SettleStep(c, g) \/ LostStep(c, g)
<1>1. tap[t].pc = "run"
  BY DEF Group, LookAtTarget, SavePrior, CallTelegram, CutOff, Answer, Panic, InGroup
<1>2. c \in Cards
  BY <1>1 DEF TypeInv, OnCard, LivePcs
<1>3. UNCHANGED <<now, card, lock, rec, tap, cut, lockLost>>
  BY DEF Group, LookAtTarget, SavePrior, CallTelegram, CutOff, Answer, Panic, redis, db
<1>4. ASSUME NEW outcome \in {"done", "skipped", "failed"}, NEW called \in BOOLEAN,
             Settle(c, g, outcome, called) \/ Ends(c, g, outcome, called),
             outcome = "done" => work[c][g] = "landed",
             outcome = "skipped" => work[c][g] = "todo",
             Undo(c) /\ work[c][g] \in {"landed", "refused"} => called,
             work[c][g] \in {"todo", "looked", "saved", "landed", "refused"},
             UNCHANGED <<tg, late, history>>
      PROVE  SettleStep(c, g)
  BY <1>4 DEF SettleStep, Settle, Ends, history
<1>5. CASE LookAtTarget(t, g)
  <2>1. work[c][g] = "todo" /\ UNCHANGED <<tg, late, history>>
    BY <1>5 DEF LookAtTarget, InGroup
  <2>2. ASSUME NEW outcome \in {"skipped", "failed"},
               Settle(c, g, outcome, FALSE) \/ Ends(c, g, outcome, FALSE)
        PROVE  SettleStep(c, g)
    BY <1>4, <2>1, <2>2
  <2>3. CASE \E lockdownBan \in {FALSE, tg[g].status = "kicked" /\ tg[g].until # 0} :
                /\ Decide(c, g, lockdownBan) # Skip
                /\ work' = [work EXCEPT ![c][g] = IF Undo(c) THEN "saved" ELSE "looked"]
                /\ look' = [look EXCEPT ![c][g] = [saw |-> IF Undo(c) THEN Unknown ELSE tg[g],
                                                   verdict |-> Decide(c, g, lockdownBan),
                                                   at |-> IF Undo(c) THEN now ELSE 0]]
                /\ UNCHANGED <<row, reached, faults>>
    <3>1. PICK lockdownBan \in BOOLEAN :
                /\ Decide(c, g, lockdownBan) # Skip
                /\ look' = [look EXCEPT ![c][g] = [saw |-> IF Undo(c) THEN Unknown ELSE tg[g],
                                                   verdict |-> Decide(c, g, lockdownBan),
                                                   at |-> IF Undo(c) THEN now ELSE 0]]
      BY <2>3
    <3> QED
      <4>1. /\ work' = [work EXCEPT ![c][g] = IF Undo(c) THEN "saved" ELSE "looked"]
            /\ row' = row /\ reached' = reached
        BY <2>3
      <4>2. Turns(c, g, "todo", IF Undo(c) THEN "saved" ELSE "looked")
        BY <2>1, <4>1 DEF Turns
      <4> QED
        BY <1>1, <1>2, <1>3, <2>1, <3>1, <4>1, <4>2 DEF SawStep, history
  <2> QED
    BY <1>1, <1>2, <1>3, <1>5, <2>2, <2>3 DEF LookAtTarget
<1>6. CASE SavePrior(t, g)
  <2>1. work[c][g] = "looked" /\ UNCHANGED <<tg, late, history>>
    BY <1>6 DEF SavePrior, InGroup
  <2>2. Ends(c, g, "failed", FALSE) => SettleStep(c, g)
    BY <1>4, <2>1
  <2> QED
    BY <1>1, <1>2, <1>3, <1>6, <2>1, <2>2 DEF SavePrior, SaveStep, Turns, history
<1>7. CASE CallTelegram(t, g)
  <2>1. work[c][g] = "saved" /\ UNCHANGED <<row, look, reached>>
    BY <1>7 DEF CallTelegram, InGroup, db
  <2>2. \/ /\ Lands(c, g) /\ work' = [work EXCEPT ![c][g] = "landed"] /\ UNCHANGED late
        \/ /\ CallMade(c, g, Unknown) /\ work' = [work EXCEPT ![c][g] = "refused"]
           /\ UNCHANGED <<tg, overtaken>>
           /\ \/ late' = late
              \/ late' = late \cup {[card |-> c, group |-> g, verdict |-> look[c][g].verdict]}
    BY <1>7 DEF CallTelegram
  <2> QED
    BY <1>1, <1>2, <1>3, <2>1, <2>2 DEF LandStep, RefuseStep, Turns
<1>8. CASE CutOff(t, g)
  <2>1. /\ work[c][g] = "saved" /\ UNCHANGED <<tg, late, history>>
        /\ \E called \in BOOLEAN : Settle(c, g, "failed", called)
    BY <1>8 DEF CutOff, InGroup, Counts, Undo
  <2> QED
    BY <1>1, <1>2, <1>3, <1>4, <2>1
<1>9. CASE Answer(t, g)
  <2>1. work[c][g] \in {"landed", "refused"} /\ UNCHANGED <<tg, late, history>>
    BY <1>9 DEF Answer, InGroup
  <2>2. /\ Counts(c, "done") = Undo(c) /\ Counts(c, "failed") = Undo(c)
        /\ Undo(c) \in BOOLEAN
    BY DEF Counts, Undo
  <2>3. \E outcome \in {"done", "failed"} :
            /\ outcome = "done" => work[c][g] = "landed"
            /\ Settle(c, g, outcome, Undo(c)) \/ Ends(c, g, outcome, Undo(c))
    BY <1>9, <2>2 DEF Answer
  <2> QED
    BY <1>1, <1>2, <1>3, <1>4, <2>1, <2>2, <2>3
<1>10. CASE Panic(t, g)
  BY <1>1, <1>2, <1>3, <1>10 DEF Panic, LostStep, history, db
<1> QED
  BY <1>5, <1>6, <1>7, <1>8, <1>9, <1>10 DEF Group

-----------------------------------------------------------------------------
\* The hands a card is in: the taps that got it past its compare-and-set.

Busy == {"check", "claim", "run", "finalize", "deliver"}

RunningCard == \A t \in Taps : tap[t].pc \in Busy => card[tap[t].on].state = "running"

OneHandler ==
    \A s, t \in Taps :
        tap[s].pc \in Busy /\ tap[t].pc \in Busy /\ tap[s].on = tap[t].on => s = t

TapsInv == RunningCard /\ OneHandler

\* Steps that leave every tap and card as they are.
LEMMA HandsKept ==
    ASSUME TypeInv,
           \/ \E t \in Taps : RenewLock(t) \/ Shutdown(t) \/ \E g \in Groups : Group(t, g) \/ Panic(t, g)
           \/ LockExpires \/ LoseLock \/ LateCall \/ SomebodyElse \/ Tick \/ UNCHANGED vars
    PROVE  UNCHANGED <<tap, card>>
BY GroupSteps DEF RenewLock, Shutdown, LockExpires, LoseLock, LateCall, SomebodyElse, Tick, vars,
   redis

\* A busy tap that stays busy, or becomes idle, with its card.
LEMMA GoesOn ==
    ASSUME TypeInv, TapsInv, NEW t \in Taps, NEW pc \in TapPcs,
           tap[t].pc \in LivePcs, pc \in Busy => tap[t].pc \in Busy, Goes(t, pc),
           pc \in Busy => card' = card,
           card' = card \/ \E state \in {"running", "done", "closed", "aborted"} :
                                SetCard(tap[t].on, state) /\ tap[t].pc \in Busy
    PROVE  TapsInv'
<1>1. tap[t].on \in Cards
  BY DEF TypeInv, OnCard
<1>2. /\ tap'[t].pc = pc
      /\ \A s \in Taps : s # t => tap'[s] = tap[s]
      /\ \A s \in Taps : tap'[s].on = tap[s].on
  BY GoesTyped DEF TypeInv
<1>3. OneHandler'
  BY <1>2 DEF TapsInv, OneHandler
<1>4. ASSUME NEW s \in Taps, tap'[s].pc \in Busy PROVE card'[tap'[s].on].state = "running"
  <2>1. tap[s].pc \in Busy /\ tap[s].on \in Cards /\ card[tap[s].on].state = "running"
    BY <1>2, <1>4 DEF TapsInv, RunningCard, TypeInv, OnCard, LivePcs, Busy
  <2>2. card' = card \/ tap[s].on # tap[t].on
    BY <1>2, <1>4, <2>1 DEF TapsInv, OneHandler
  <2> QED
    BY <1>1, <1>2, <2>1, <2>2, SetCardTyped DEF TypeInv
<1> QED
  BY <1>3, <1>4 DEF TapsInv, RunningCard

LEMMA HandsStep ==
    ASSUME TypeInv, TapsInv, [Next]_vars
    PROVE  TapsInv'
<1>1. CASE PostUndoCard
  <2>1. PICK c \in Cards : card[c] = NoCard /\ \A d \in Cards : d # c => card'[d] = card[d]
    BY <1>1 DEF PostUndoCard, TypeInv, TypeOK
  <2>2. card[c].state = "none" /\ tap' = tap
    BY <1>1, <2>1 DEF NoCard, PostUndoCard
  <2> QED
    BY <2>1, <2>2 DEF TapsInv, RunningCard, OneHandler, TypeInv, OnCard, LivePcs, Busy
<1>2. CASE CloseCard
  <2>1. PICK c \in Cards : card[c].state = "pending" /\ \A d \in Cards : d # c => card'[d] = card[d]
    BY <1>2 DEF CloseCard, TypeInv, TypeOK
  <2>2. tap' = tap
    BY <1>2 DEF CloseCard
  <2> QED
    BY <2>1, <2>2 DEF TapsInv, RunningCard, OneHandler, TypeInv, OnCard, LivePcs, Busy
<1>3. ASSUME NEW t \in Taps, TakeLock(t) \/ ReleaseLock(t) PROVE TapsInv'
  <2>1. card' = card /\ tap'[t].pc \notin Busy /\ \A s \in Taps : s # t => tap'[s] = tap[s]
    BY <1>3, Shapes DEF TakeLock, ReleaseLock, TypeInv, Over, Busy, db
  <2> QED
    BY <2>1 DEF TapsInv, RunningCard, OneHandler
<1>4. ASSUME NEW t \in Taps, MoveCard(t) PROVE TapsInv'
  <2> DEFINE c == tap[t].on
  <2>1. tap[t].pc = "move" /\ c \in Cards
    BY <1>4 DEF MoveCard, TypeInv, OnCard, LivePcs
  <2>2. CASE card[c].state = "pending" /\ SetCard(c, "running")
    <3>1. PICK pc \in {"check", "release"} : Goes(t, pc)
      BY <1>4, <2>2 DEF MoveCard
    <3>2. /\ tap'[t].pc = pc /\ tap'[t].on = c
          /\ \A s \in Taps : s # t => tap'[s] = tap[s]
      BY <3>1, GoesTyped DEF TypeInv, TapPcs
    <3>3. \A s \in Taps : tap[s].pc \in Busy => tap[s].on # c
      BY <2>2 DEF TapsInv, RunningCard
    <3>4. card'[c].state = "running" /\ \A d \in Cards : d # c => card'[d] = card[d]
      BY <2>1, <2>2, SetCardTyped DEF TypeInv
    <3>5. RunningCard'
      BY <2>1, <3>2, <3>3, <3>4 DEF TapsInv, RunningCard, TypeInv, OnCard, LivePcs, Busy
    <3>6. OneHandler'
      BY <3>2, <3>3 DEF TapsInv, OneHandler
    <3> QED
      BY <3>5, <3>6 DEF TapsInv
  <2>3. CASE card' = card /\ Goes(t, "release")
    BY <2>1, <2>3, GoesOn DEF LivePcs, TapPcs, Busy
  <2> QED
    BY <1>4, <2>2, <2>3 DEF MoveCard
<1>5. ASSUME NEW t \in Taps,
             CheckAction(t) \/ CheckUndo(t) \/ ClaimUndo(t) \/ Finishes(t) \/ Deliver(t)
      PROVE  TapsInv'
  <2>1. \E pc \in TapPcs :
            /\ Goes(t, pc) /\ tap[t].pc \in Busy
            /\ pc \in Busy => card' = card
            /\ card' = card \/ \E state \in {"running", "done", "closed", "aborted"} :
                                    SetCard(tap[t].on, state)
    BY <1>5, FinishIs DEF CheckAction, CheckUndo, ClaimUndo, Deliver, Abort, TapPcs, Busy, redis
  <2>2. tap[t].pc \in LivePcs
    BY <2>1 DEF Busy, LivePcs
  <2> QED
    BY <2>1, <2>2, GoesOn
<1>6. ASSUME NEW t \in Taps, Stop(t) PROVE TapsInv'
  <2>1. card' = card /\ tap'[t].pc \notin Busy /\ \A s \in Taps : s # t => tap'[s] = tap[s]
    BY <1>6, Shapes DEF Stop, TypeInv, Over, Busy, redis
  <2> QED
    BY <2>1 DEF TapsInv, RunningCard, OneHandler
<1>7. CASE UNCHANGED <<tap, card>>
  BY <1>7 DEF TapsInv, RunningCard, OneHandler
<1> QED
  BY <1>1, <1>2, <1>3, <1>4, <1>5, <1>6, <1>7, HandsKept DEF Next, Handler, Finishes

-----------------------------------------------------------------------------
\* Only a run has work under way.

Runs(t, c) == tap[t].on = c /\ tap[t].pc \in {"run", "finalize", "deliver"}

NoRunNoWork ==
    \A c \in Cards : (\A t \in Taps : ~Runs(t, c)) =>
        /\ \A g \in Groups : work[c][g] = "idle"
        /\ reached[c] = {}

LEMMA ForgetIdle ==
    ASSUME TypeInv, NEW c \in Cards, Forget(c)
    PROVE  /\ \A g \in Groups : work'[c][g] = "idle"
           /\ reached'[c] = {}
           /\ \A d \in Cards : d # c =>
                work'[d] = work[d] /\ look'[d] = look[d] /\ reached'[d] = reached[d]
BY DEF Forget, TypeInv, TypeOK

LEMMA SetResultKeeps ==
    ASSUME TypeInv, NEW c \in Cards, NEW g \in Groups, NEW outcome, NEW called,
           SetResult(c, g, outcome, called)
    PROVE  /\ work'[c][g] = outcome
           /\ \A d \in Cards, h \in Groups : d # c \/ h # g =>
                work'[d][h] = work[d][h] /\ look'[d][h] = look[d][h]
           /\ reached[c] \subseteq reached'[c]
           /\ called => g \in reached'[c]
           /\ \A d \in Cards : d # c => reached'[d] = reached[d]
BY DEF SetResult, TypeInv, TypeOK

\* The other groups of a run, and the other cards, keep what they have.
LEMMA GroupKeeps ==
    ASSUME TypeInv, NEW c \in Cards, NEW g \in Groups,
           \/ SawStep(c, g) \/ SaveStep(c, g) \/ LandStep(c, g) \/ RefuseStep(c, g)
           \/ SettleStep(c, g) \/ LostStep(c, g)
    PROVE  /\ \A d \in Cards, h \in Groups : d # c \/ h # g =>
                /\ work'[d][h] = work[d][h] /\ look'[d][h] = look[d][h]
                /\ hist'[d][h] = hist[d][h]
           /\ reached[c] \subseteq reached'[c]
           /\ \A d \in Cards : d # c => reached'[d] = reached[d]
           /\ work'[c][g] # "idle"
<1>1. /\ work \in [Cards -> [Groups -> WorkPcs]] /\ look \in [Cards -> [Groups -> Look]]
      /\ \A d \in Cards : work[d] \in [Groups -> WorkPcs] /\ look[d] \in [Groups -> Look]
  BY DEF TypeInv, TypeOK
<1>2. CASE SawStep(c, g)
  BY <1>1, <1>2 DEF SawStep, Turns
<1>3. CASE SaveStep(c, g)
  BY <1>1, <1>3 DEF SaveStep, Turns
<1>4. CASE LandStep(c, g) \/ RefuseStep(c, g)
  BY <1>1, <1>4 DEF LandStep, RefuseStep, Turns, Lands, CallMade, TypeInv, TypeOK
<1>5. CASE SettleStep(c, g)
  BY <1>5, SetResultKeeps DEF SettleStep
<1>6. CASE LostStep(c, g)
  BY <1>1, <1>6 DEF LostStep
<1> QED
  BY <1>2, <1>3, <1>4, <1>5, <1>6

LEMMA WorkInit == Init => TapsInv /\ NoRunNoWork
BY DEF Init, TapsInv, RunningCard, OneHandler, Busy, NoRunNoWork

\* Steps outside the runs.
LEMMA WorkKept ==
    ASSUME TypeInv,
           \/ PostUndoCard \/ CloseCard \/ LockExpires \/ LoseLock \/ LateCall \/ SomebodyElse
           \/ Tick \/ UNCHANGED vars
           \/ \E t \in Taps : \/ TakeLock(t) \/ MoveCard(t) \/ CheckUndo(t) \/ ReleaseLock(t)
                              \/ RenewLock(t) \/ Shutdown(t)
    PROVE  UNCHANGED <<work, look, reached>>
BY DEF PostUndoCard, CloseCard, LockExpires, LoseLock, LateCall, SomebodyElse, Tick, vars, TakeLock,
   MoveCard, CheckUndo, ReleaseLock, RenewLock, Shutdown, run

LEMMA WorkStep ==
    ASSUME TypeInv, TapsInv, NoRunNoWork, [Next]_vars
    PROVE  NoRunNoWork'
<1>1. CASE UNCHANGED <<work, reached>> /\ \A t \in Taps, c \in Cards : Runs(t, c) => Runs(t, c)'
  BY <1>1 DEF NoRunNoWork
<1>2. CASE UNCHANGED <<tap, work, reached>>
  BY <1>1, <1>2 DEF Runs
<1>3. CASE PostUndoCard \/ CloseCard
  BY <1>2, <1>3, WorkKept DEF PostUndoCard, CloseCard
<1>4. ASSUME NEW t \in Taps, TakeLock(t) \/ MoveCard(t) \/ CheckUndo(t) \/ ReleaseLock(t)
      PROVE  NoRunNoWork'
  <2>1. tap[t].pc \notin {"run", "finalize", "deliver"} /\ \A s \in Taps : s # t => tap'[s] = tap[s]
    BY <1>4, Shapes DEF TakeLock, MoveCard, CheckUndo, ReleaseLock, TypeInv, Goes, Abort
  <2> QED
    BY <1>1, <1>4, <2>1, WorkKept DEF Runs
<1>5. ASSUME NEW t \in Taps, CheckAction(t) \/ ClaimUndo(t) PROVE NoRunNoWork'
  <2>0. tap[t].on \in Cards
    BY <1>5 DEF CheckAction, ClaimUndo, TypeInv, OnCard, LivePcs
  <2> PICK c \in Cards : c = tap[t].on
    BY <2>0
  <2>1. tap[t].pc \in {"check", "claim"}
    BY <1>5 DEF CheckAction, ClaimUndo
  <2>2. /\ \A d \in Cards : d # c => work'[d] = work[d]
        /\ reached' = reached
        /\ work' = work \/ Goes(t, "run")
        /\ \E pc \in TapPcs : Goes(t, pc)
    BY <1>5, <2>1 DEF CheckAction, ClaimUndo, TypeInv, TypeOK, Abort, TapPcs
  <2>3. \A s \in Taps : s # t => tap'[s] = tap[s]
    BY <2>2, GoesTyped DEF TypeInv
  <2>4. \A s \in Taps, d \in Cards : Runs(s, d) => Runs(s, d)'
    BY <2>1, <2>3 DEF Runs
  <2>5. CASE work' = work
    BY <1>1, <2>2, <2>4, <2>5
  <2>6. CASE Goes(t, "run")
    <3>1. Runs(t, c)'
      BY <2>6, GoesTyped DEF Runs, TypeInv, TapPcs
    <3> QED
      BY <2>2, <2>4, <3>1 DEF NoRunNoWork
  <2> QED
    BY <2>2, <2>5, <2>6
<1>6. ASSUME NEW t \in Taps, Finishes(t) PROVE NoRunNoWork'
  <2>1. UNCHANGED <<work, reached>> /\ (Goes(t, "deliver") \/ Goes(t, "finalize"))
    BY <1>6, FinishIs DEF run
  <2>2. /\ tap'[t].pc \in {"deliver", "finalize"} /\ tap'[t].on = tap[t].on
        /\ \A s \in Taps : s # t => tap'[s] = tap[s]
    BY <2>1, GoesTyped DEF TypeInv, TapPcs
  <2> QED
    BY <1>1, <2>1, <2>2 DEF Runs
<1>7. ASSUME NEW t \in Taps, Deliver(t) \/ Stop(t) PROVE NoRunNoWork'
  <2> DEFINE c == tap[t].on
  <2>1. c \in Cards /\ \A s \in Taps : s # t => tap'[s] = tap[s]
    BY <1>7, Shapes DEF Deliver, Stop, Goes, TypeInv, OnCard, LivePcs
  <2>2. CASE Forget(c)
    BY <2>1, <2>2, ForgetIdle DEF NoRunNoWork, Runs
  <2>3. CASE UNCHANGED run /\ tap[t].pc \notin {"run", "finalize", "deliver"}
    BY <1>1, <2>1, <2>3 DEF run, Runs
  <2> QED
    BY <1>7, <2>2, <2>3 DEF Deliver, Stop
<1>8. ASSUME NEW t \in Taps, NEW g \in Groups, Group(t, g) \/ Panic(t, g) PROVE NoRunNoWork'
  <2> DEFINE c == tap[t].on
  <2>1. c \in Cards /\ tap[t].pc = "run" /\ tap' = tap
    BY <1>8, GroupSteps
  <2>2. /\ \A d \in Cards, h \in Groups : d # c => work'[d][h] = work[d][h]
        /\ \A d \in Cards : d # c => reached'[d] = reached[d]
    BY <1>8, <2>1, GroupSteps, GroupKeeps
  <2>3. Runs(t, c)'
    BY <2>1 DEF Runs
  <2> QED
    BY <2>1, <2>2, <2>3 DEF NoRunNoWork, Runs
<1>9. CASE \/ LockExpires \/ LoseLock \/ LateCall \/ SomebodyElse \/ Tick \/ UNCHANGED vars
           \/ \E t \in Taps : RenewLock(t) \/ Shutdown(t)
  BY <1>2, <1>9, WorkKept, HandsKept
<1> QED
  BY <1>3, <1>4, <1>5, <1>6, <1>7, <1>8, <1>9 DEF Next, Handler, Finishes

-----------------------------------------------------------------------------
\* The target lock.  While Redis keeps it, whoever handles a card has it.

HeldLock ==
    ~lockLost =>
        /\ \A t \in Taps : tap[t].pc \in LivePcs => lock = tap[t].on
        /\ \A s, t \in Taps : tap[s].pc \in LivePcs /\ tap[t].pc \in LivePcs => s = t

LEMMA LockInit == Init => HeldLock
BY DEF Init, HeldLock, LivePcs

LEMMA LockStep ==
    ASSUME TypeInv, HeldLock, [Next]_vars
    PROVE  HeldLock'
<1>1. CASE UNCHANGED <<tap, lock>> /\ (lockLost' = lockLost \/ lockLost')
  BY <1>1 DEF HeldLock
<1>2. ASSUME NEW t \in Taps, tap[t].pc \in LivePcs,
             \/ \E pc \in TapPcs : Goes(t, pc) /\ lock' = lock
             \/ tap' = [tap EXCEPT ![t] = Over],
             lockLost' = lockLost
      PROVE  HeldLock'
  <2>1. /\ \A s \in Taps : s # t => tap'[s] = tap[s]
        /\ tap'[t].pc \notin LivePcs \/ (tap'[t].on = tap[t].on /\ lock' = lock)
    BY <1>2, Shapes, GoesTyped DEF TypeInv, Over, LivePcs
  <2> QED
    BY <1>2, <2>1 DEF HeldLock
<1>3. ASSUME NEW t \in Taps, TakeLock(t) PROVE HeldLock'
  <2>1. PICK c \in Cards : /\ lock = Nobody /\ lock' = c
                           /\ \/ tap' = [tap EXCEPT ![t] = [pc |-> "move", on |-> c]]
                              \/ tap' = [tap EXCEPT ![t] = Over]
    BY <1>3 DEF TakeLock, Takes
  <2>2. ~lockLost => \A s \in Taps : tap[s].pc \notin LivePcs
    BY <2>1, CardsAreNumbers DEF HeldLock, TypeInv, OnCard
  <2>3. /\ \A s \in Taps : s # t => tap'[s] = tap[s]
        /\ tap'[t].pc \notin LivePcs \/ tap'[t].on = c
    BY <2>1, Shapes DEF TypeInv, Over, LivePcs
  <2>4. lockLost' = lockLost
    BY <1>3 DEF TakeLock
  <2> QED
    BY <2>1, <2>2, <2>3, <2>4 DEF HeldLock
<1>4. ASSUME NEW t \in Taps,
             \/ MoveCard(t) \/ CheckAction(t) \/ CheckUndo(t) \/ ClaimUndo(t) \/ Finishes(t)
             \/ Deliver(t) \/ ReleaseLock(t) \/ Stop(t)
      PROVE  HeldLock'
  <2>1. tap[t].pc \in LivePcs /\ lockLost' = lockLost
    BY <1>4, FinishIs DEF MoveCard, CheckAction, CheckUndo, ClaimUndo, Deliver, ReleaseLock, Stop,
       LivePcs
  <2>2. \/ \E pc \in TapPcs : Goes(t, pc) /\ lock' = lock
        \/ tap' = [tap EXCEPT ![t] = Over]
    BY <1>4, FinishIs DEF MoveCard, CheckAction, CheckUndo, ClaimUndo, Deliver, ReleaseLock, Stop,
       Abort, TapPcs, redis
  <2> QED
    BY <1>2, <2>1, <2>2
<1>5. ASSUME NEW t \in Taps, RenewLock(t) PROVE HeldLock'
  <2>1. tap[t].pc \in LivePcs /\ lock = Nobody /\ lockLost' = lockLost
    BY <1>5 DEF RenewLock, LivePcs
  <2> QED
    BY <2>1, CardsAreNumbers DEF HeldLock, TypeInv, OnCard
<1>6. CASE LockExpires
  <2>1. tap' = tap /\ lockLost' = lockLost
        /\ \A t \in Taps : tap[t].on = lock => tap[t].pc \notin LivePcs
    BY <1>6 DEF LockExpires
  <2> QED
    BY <2>1 DEF HeldLock
<1>7. CASE LoseLock
  BY <1>7 DEF LoseLock, HeldLock
<1>8. ASSUME NEW t \in Taps, NEW g \in Groups, Group(t, g) \/ Panic(t, g) PROVE HeldLock'
  BY <1>1, <1>8, GroupSteps
<1>9. CASE \/ PostUndoCard \/ CloseCard \/ LateCall \/ SomebodyElse \/ Tick \/ UNCHANGED vars
           \/ \E t \in Taps : Shutdown(t)
  <2>1. UNCHANGED <<tap, lock, lockLost>>
    BY <1>9 DEF PostUndoCard, CloseCard, LateCall, SomebodyElse, Tick, Shutdown, vars, redis
  <2> QED
    BY <1>1, <2>1
<1> QED
  BY <1>3, <1>4, <1>5, <1>6, <1>7, <1>8, <1>9 DEF Next, Handler, Finishes

RunInv == TypeInv /\ TapsInv /\ NoRunNoWork /\ HeldLock

LEMMA RunInvHolds == Spec => []RunInv
<1>1. Init => RunInv
  BY TypeInit, WorkInit, LockInit DEF RunInv
<1>2. RunInv /\ [Next]_vars => RunInv'
  BY TypeStep, HandsStep, WorkStep, LockStep DEF RunInv
<1> QED
  BY <1>1, <1>2, PTL DEF Spec

-----------------------------------------------------------------------------
\* Which calls were made: by a run, or late, of a card that ran.

Untouched(c) == \A g \in Groups : ~Called(c, g)

CallsInRun ==
    /\ \A c \in Cards : card[c].state \in {"none", "pending"} => Untouched(c)
    /\ \A t \in Taps : tap[t].pc \in {"check", "claim"} => Untouched(tap[t].on)
    /\ \A c \in Cards, g \in Groups :
            work[c][g] \in {"todo", "looked", "saved", "skipped"} => ~Called(c, g)
    /\ \A l \in late : Called(l.card, l.group)

\* What a card is of does not change once it is posted.
LEMMA CardsKept ==
    ASSUME TypeInv, [Next]_vars
    PROVE  \/ PostUndoCard
           \/ \A c \in Cards : /\ card'[c].kind = card[c].kind /\ card'[c].of = card[c].of
                               /\ card'[c].length = card[c].length
                               /\ card'[c] = card[c] \/ card'[c].state \notin {"none", "pending"}
<1>1. CASE CloseCard
  <2>1. PICK c \in Cards : SetCard(c, "closed")
    BY <1>1 DEF CloseCard, SetCard
  <2> QED
    BY <2>1, SetCardTyped DEF TypeInv
<1>2. ASSUME NEW t \in Taps,
             \/ MoveCard(t) \/ CheckAction(t) \/ CheckUndo(t) \/ ClaimUndo(t) \/ Deliver(t)
      PROVE  \A c \in Cards : /\ card'[c].kind = card[c].kind /\ card'[c].of = card[c].of
                              /\ card'[c].length = card[c].length
                              /\ card'[c] = card[c] \/ card'[c].state \notin {"none", "pending"}
  <2>1. tap[t].on \in Cards
    BY <1>2 DEF MoveCard, CheckAction, CheckUndo, ClaimUndo, Deliver, TypeInv, OnCard, LivePcs
  <2>2. card' = card \/ \E state \in {"running", "done", "aborted"} : SetCard(tap[t].on, state)
    BY <1>2 DEF MoveCard, CheckAction, CheckUndo, ClaimUndo, Deliver, Abort
  <2> QED
    BY <2>1, <2>2, SetCardTyped DEF TypeInv
<1>3. CASE card' = card
  BY <1>3
<1>4. ASSUME NEW t \in Taps, TakeLock(t) \/ Finishes(t) \/ ReleaseLock(t) \/ Stop(t) PROVE card' = card
  BY <1>4, FinishIs DEF TakeLock, ReleaseLock, Stop, redis
<1> QED
  BY <1>1, <1>2, <1>3, <1>4, HandsKept DEF Next, Handler, Finishes

LEMMA NewCard ==
    ASSUME TypeInv, PostUndoCard
    PROVE  \E c, a \in Cards :
                /\ card[c].state = "none" /\ card[c].kind = "ban" /\ Undoable(a)
                /\ card'[c].state = "pending" /\ card'[c].kind = "undo" /\ card'[c].of = a
                /\ \A d \in Cards : d # c => card'[d] = card[d]
                /\ UNCHANGED <<now, tg, lock, db, tap, cut, run, late, history, lockLost>>
<1>1. PICK c, a \in Cards :
        /\ card[c] = NoCard /\ Undoable(a)
        /\ card' = [card EXCEPT ![c] = [NoCard EXCEPT !.state = "pending", !.kind = "undo", !.of = a]]
  BY DEF PostUndoCard
<1>2. card'[c] = [state |-> "pending", kind |-> "undo", length |-> 0, of |-> a]
  BY <1>1 DEF NoCard, TypeInv, TypeOK
<1>3. /\ card[c].state = "none" /\ card[c].kind = "ban"
      /\ card'[c].state = "pending" /\ card'[c].kind = "undo" /\ card'[c].of = a
  BY <1>1, <1>2 DEF NoCard
<1>4. \A d \in Cards : d # c => card'[d] = card[d]
  BY <1>1 DEF TypeInv, TypeOK
<1>5. UNCHANGED <<now, tg, lock, db, tap, cut, run, late, history, lockLost>>
  BY DEF PostUndoCard
<1> QED
  BY <1>1, <1>3, <1>4, <1>5

\* The calls of the other steps: a late one is of a group that was called on already.
LEMMA CallsKept ==
    ASSUME TypeInv, CallsInRun, [Next]_vars,
           \A t \in Taps, g \in Groups : ~(Group(t, g) \/ Panic(t, g))
    PROVE  /\ \A c \in Cards, g \in Groups : Called(c, g)' <=> Called(c, g)
           /\ late' \subseteq late
<1>1. CASE LateCall
  <2>1. PICK l \in late : /\ late' = late \ {l}
                          /\ hist' = [hist EXCEPT ![l.card][l.group] =
                                [before |-> tg[l.group],
                                 left |-> Applied(l.verdict, tg[l.group], now)]]
    BY <1>1 DEF LateCall
  <2>2. l.card \in Cards /\ l.group \in Groups /\ tg[l.group] \in TargetState
    BY DEF TypeInv, TypeOK
  <2>3. tg[l.group] # Unknown
    BY <2>2, PlainTyped
  <2>4. \A c \in Cards, g \in Groups :
            IF c = l.card /\ g = l.group
            THEN hist'[c][g] = [before |-> tg[l.group],
                                left |-> Applied(l.verdict, tg[l.group], now)]
            ELSE hist'[c][g] = hist[c][g]
    BY <2>1, <2>2 DEF TypeInv, TypeOK
  <2>5. Called(l.card, l.group)
    BY DEF CallsInRun
  <2>6. [before |-> tg[l.group], left |-> Applied(l.verdict, tg[l.group], now)] # NoCall
    BY <2>3 DEF NoCall
  <2> QED
    BY <2>1, <2>4, <2>5, <2>6 DEF Called
<1>2. CASE UNCHANGED <<hist, late>>
  BY <1>2 DEF Called
<1>3. CASE PostUndoCard \/ CloseCard \/ LockExpires \/ LoseLock \/ SomebodyElse \/ Tick \/ UNCHANGED vars
  <2>1. UNCHANGED <<hist, late>>
    BY <1>3 DEF PostUndoCard, CloseCard, LockExpires, LoseLock, SomebodyElse, Tick, vars, history
  <2> QED
    BY <1>2, <2>1
<1>4. ASSUME NEW t \in Taps,
             \/ TakeLock(t) \/ MoveCard(t) \/ CheckAction(t) \/ CheckUndo(t) \/ ClaimUndo(t)
             \/ Finishes(t) \/ Deliver(t) \/ ReleaseLock(t) \/ RenewLock(t) \/ Stop(t) \/ Shutdown(t)
      PROVE  UNCHANGED <<hist, late>>
  BY <1>4, FinishIs DEF TakeLock, MoveCard, CheckAction, CheckUndo, ClaimUndo, Deliver, ReleaseLock,
     RenewLock, Stop, Shutdown, history
<1> QED
  BY <1>1, <1>2, <1>3, <1>4 DEF Next, Handler, Finishes

LEMMA CallsInit == Init => CallsInRun
BY DEF Init, CallsInRun, Untouched, Called

\* A step of a run: only its own group is called on.
LEMMA CallsOfRun ==
    ASSUME TypeInv, TapsInv, CallsInRun, NEW t \in Taps, NEW g \in Groups,
           Group(t, g) \/ Panic(t, g)
    PROVE  CallsInRun'
<1>0. PICK c \in Cards : c = tap[t].on
  BY GroupSteps
<1>1. /\ tap[t].pc = "run" /\ UNCHANGED <<card, tap>>
      /\ \/ SawStep(c, g) \/ SaveStep(c, g) \/ LandStep(c, g) \/ RefuseStep(c, g)
         \/ SettleStep(c, g) \/ LostStep(c, g)
  BY <1>0, GroupSteps
<1>2. \A d \in Cards, h \in Groups : d # c \/ h # g =>
            work'[d][h] = work[d][h] /\ (Called(d, h)' <=> Called(d, h))
  BY <1>1, GroupKeeps DEF Called
<1>3. /\ work'[c][g] \in {"todo", "looked", "saved", "skipped"} => ~Called(c, g)'
      /\ Called(c, g) => Called(c, g)'
      /\ late' = late \/ (/\ \E v \in Verdict : late' = late \cup {[card |-> c, group |-> g, verdict |-> v]}
                          /\ Called(c, g)')
  <2>1. CASE SawStep(c, g) \/ SaveStep(c, g)
    <3>1. work[c][g] \in {"todo", "looked"} /\ hist' = hist /\ late' = late
      BY <2>1 DEF SawStep, SaveStep, Turns
    <3> QED
      BY <3>1 DEF CallsInRun, Called
  <2>2. CASE LandStep(c, g) \/ RefuseStep(c, g)
    <3>1. \E left : hist' = [hist EXCEPT ![c][g] = [before |-> tg[g], left |-> left]]
      BY <2>2 DEF LandStep, RefuseStep, Lands, CallMade
    <3>2. tg[g] # Unknown
      BY Shapes, PlainTyped DEF TypeInv
    <3>3. Called(c, g)'
      <4>1. PICK left : hist' = [hist EXCEPT ![c][g] = [before |-> tg[g], left |-> left]]
        BY <3>1
      <4>2. hist'[c][g] = [before |-> tg[g], left |-> left]
        BY <1>0, <4>1 DEF TypeInv, TypeOK
      <4> QED
        BY <3>2, <4>2 DEF Called, NoCall
    <3>4. work'[c][g] \in {"landed", "refused"}
      BY <2>2 DEF LandStep, RefuseStep, Turns, TypeInv, TypeOK
    <3>5. look[c][g].verdict \in Verdict
      BY Shapes DEF TypeInv, Look
    <3> QED
      BY <2>2, <3>3, <3>4, <3>5 DEF LandStep, RefuseStep
  <2>3. CASE SettleStep(c, g)
    <3>1. hist' = hist /\ late' = late
      BY <2>3 DEF SettleStep
    <3>2. work'[c][g] \in {"done", "failed"} \/ (work'[c][g] = "skipped" /\ work[c][g] = "todo")
      BY <2>3, SetResultKeeps DEF SettleStep
    <3> QED
      BY <3>1, <3>2 DEF CallsInRun, Called
  <2>4. CASE LostStep(c, g)
    BY <2>4 DEF LostStep, TypeInv, TypeOK, Called
  <2> QED
    BY <1>1, <2>1, <2>2, <2>3, <2>4
<1>4. card[c].state = "running"
  BY <1>0, <1>1 DEF TapsInv, RunningCard, Busy
<1>5. \A s \in Taps : tap[s].pc \in {"check", "claim"} => tap[s].on # c
  BY <1>0, <1>1 DEF TapsInv, OneHandler, Busy
<1>6. \A d \in Cards : card'[d].state \in {"none", "pending"} => Untouched(d)'
  BY <1>1, <1>2, <1>4 DEF CallsInRun, Untouched
<1>7. \A s \in Taps : tap'[s].pc \in {"check", "claim"} => Untouched(tap[s].on)'
  BY <1>1, <1>2, <1>5 DEF CallsInRun, Untouched, TypeInv, OnCard, LivePcs
<1>8. \A d \in Cards, h \in Groups :
            work'[d][h] \in {"todo", "looked", "saved", "skipped"} => ~Called(d, h)'
  BY <1>2, <1>3 DEF CallsInRun
<1>9. \A l \in late' : Called(l.card, l.group)'
  BY <1>2, <1>3 DEF CallsInRun, TypeInv, TypeOK
<1> QED
  BY <1>1, <1>6, <1>7, <1>8, <1>9 DEF CallsInRun

LEMMA CallsStep ==
    ASSUME TypeInv, TapsInv, CallsInRun, [Next]_vars
    PROVE  CallsInRun'
<1>1. CASE \E t \in Taps, g \in Groups : Group(t, g) \/ Panic(t, g)
  BY <1>1, CallsOfRun
<1>2. CASE \A t \in Taps, g \in Groups : ~(Group(t, g) \/ Panic(t, g))
  <2>1. /\ \A c \in Cards, g \in Groups : Called(c, g)' <=> Called(c, g)
        /\ late' \subseteq late
    BY <1>2, CallsKept
  <2>2. \A l \in late' : Called(l.card, l.group)'
    BY <2>1 DEF CallsInRun, TypeInv, TypeOK
  <2>3. \A c \in Cards : Untouched(c)' <=> Untouched(c)
    BY <2>1 DEF Untouched
  <2>4. \A c \in Cards : card'[c].state \in {"none", "pending"} => Untouched(c)'
    <3>1. CASE PostUndoCard
      BY <2>3, <3>1, NewCard DEF CallsInRun
    <3>2. CASE ~PostUndoCard
      BY <2>3, <3>2, CardsKept DEF CallsInRun
    <3> QED
      BY <3>1, <3>2
  <2>5. ASSUME NEW t \in Taps, tap'[t].pc \in {"check", "claim"} PROVE Untouched(tap[t].on)'
    <3>1. CASE tap'[t] = tap[t]
      BY <2>3, <2>5, <3>1 DEF CallsInRun, TypeInv, OnCard, LivePcs
    <3>2. CASE tap'[t] # tap[t]
      <4>1. MoveCard(t) \/ CheckUndo(t)
        <5>1. PICK s \in Taps :
                \/ TakeLock(s) \/ MoveCard(s) \/ CheckAction(s) \/ CheckUndo(s) \/ ClaimUndo(s)
                \/ Finishes(s) \/ Deliver(s) \/ ReleaseLock(s) \/ Stop(s)
          BY <1>2, <3>2, HandsKept DEF Next, Handler, Finishes, PostUndoCard, CloseCard
        <5>2. MoveCard(s) \/ CheckUndo(s) \/ tap'[s].pc \notin {"check", "claim"}
          <6>1. CASE TakeLock(s) \/ ReleaseLock(s) \/ Stop(s)
            BY <6>1, Shapes DEF TakeLock, ReleaseLock, Stop, Over, TypeInv
          <6>2. CASE CheckAction(s) \/ ClaimUndo(s) \/ Finishes(s) \/ Deliver(s)
            <7>1. \E pc \in {"run", "release", "finalize", "deliver"} : Goes(s, pc)
              BY <6>2, FinishIs DEF CheckAction, ClaimUndo, Deliver, Abort
            <7> QED
              BY <7>1, GoesTyped DEF TypeInv, TapPcs
          <6> QED
            BY <5>1, <6>1, <6>2
        <5>3. \A r \in Taps : r # s => tap'[r] = tap[r]
          BY <5>1, Shapes, FinishIs DEF TakeLock, MoveCard, CheckAction, CheckUndo, ClaimUndo,
             Deliver, ReleaseLock, Stop, Abort, Goes, TypeInv
        <5> QED
          BY <2>5, <3>2, <5>2, <5>3
      <4>2. tap[t].on \in Cards /\ tap'[t].on = tap[t].on
        BY <4>1, GoesTyped DEF MoveCard, CheckUndo, Abort, TypeInv, OnCard, LivePcs, TapPcs
      <4>3. Untouched(tap[t].on)
        <5>1. CASE MoveCard(t)
          <6>1. card[tap[t].on].state = "pending"
            BY <2>5, <5>1, GoesTyped DEF MoveCard, TypeInv, TapPcs
          <6> QED
            BY <4>2, <6>1 DEF CallsInRun
        <5>2. CASE CheckUndo(t)
          BY <5>2 DEF CallsInRun, CheckUndo
        <5> QED
          BY <4>1, <5>1, <5>2
      <4> QED
        BY <2>3, <4>2, <4>3
    <3> QED
      BY <3>1, <3>2
  <2>6. ASSUME NEW c \in Cards, NEW g \in Groups,
               work'[c][g] \in {"todo", "looked", "saved", "skipped"}
        PROVE  ~Called(c, g)
    <3>1. CASE work'[c][g] = work[c][g]
      BY <2>6, <3>1 DEF CallsInRun
    <3>2. CASE work'[c][g] # work[c][g]
      <4>1. PICK t \in Taps : CheckAction(t) \/ ClaimUndo(t) \/ Finishes(t) \/ Deliver(t) \/ Stop(t)
        BY <1>2, <3>2, WorkKept DEF Next, Handler, Finishes
      <4>2. CASE CheckAction(t) \/ ClaimUndo(t)
        <5>1. tap[t].pc \in {"check", "claim"} /\ tap[t].on = c
          BY <3>2, <4>2 DEF CheckAction, ClaimUndo, TypeInv, TypeOK
        <5> QED
          BY <5>1 DEF CallsInRun, Untouched
      <4>3. CASE Finishes(t)
        BY <3>2, <4>3, FinishIs DEF run
      <4>4. CASE Deliver(t) \/ Stop(t)
        <5>1. tap[t].on \in Cards /\ Forget(tap[t].on)
          BY <3>2, <4>4 DEF Deliver, Stop, TypeInv, OnCard, LivePcs, run
        <5> QED
          BY <2>6, <3>2, <5>1, ForgetIdle
      <4> QED
        BY <4>1, <4>2, <4>3, <4>4
    <3> QED
      BY <3>1, <3>2
  <2> QED
    BY <2>1, <2>2, <2>4, <2>5, <2>6 DEF CallsInRun
<1> QED
  BY <1>1, <1>2

-----------------------------------------------------------------------------
\* The one undo.  A run of an undo holds the claim, and so does a card that ran one
\* and made a call.

ClaimedByRun ==
    /\ \A t \in Taps : tap[t].pc = "run" /\ Undo(tap[t].on) =>
            rec[card[tap[t].on].of].claim = tap[t].on
    /\ \A c \in Cards, g \in Groups :
            Undo(c) /\ Called(c, g) => rec[card[c].of].claim = c

\* What a run of an undo called on it has reached, or will have.
ReachedIsKept ==
    \A t \in Taps, c \in Cards, g \in Groups :
        tap[t] = [pc |-> "run", on |-> c] /\ Undo(c) /\ Called(c, g) =>
            work[c][g] \in {"landed", "refused", "lost"} \/ g \in reached[c]

ClaimInv == ClaimedByRun /\ ReachedIsKept

LEMMA ClaimInit == Init => ClaimInv
BY DEF Init, ClaimInv, ClaimedByRun, ReachedIsKept, Called

\* A tap is its card and where it is.
LEMMA TapIs ==
    ASSUME TypeInv, NEW t \in Taps, NEW pc, NEW c
    PROVE  tap[t] = [pc |-> pc, on |-> c] <=> tap[t].pc = pc /\ tap[t].on = c
BY Shapes DEF TypeInv, Tapped

GivesBack(t) ==
    /\ Finishes(t) /\ tap[t].pc = "run" /\ Undo(tap[t].on)
    /\ ~AnyReached(tap[t].on) /\ ReleaseUndo(tap[t].on)

LEMMA ClaimsKept ==
    ASSUME TypeInv, [Next]_vars
    PROVE  \/ \A a \in Cards : rec'[a].claim = rec[a].claim
           \/ \E t \in Taps : ClaimUndo(t)
           \/ \E t \in Taps : GivesBack(t)
<1>0. rec \in [Cards -> Record] /\ \A a \in Cards : rec[a] \in Record
  BY DEF TypeInv, TypeOK
<1>1. ASSUME NEW t \in Taps, CheckAction(t) PROVE \A a \in Cards : rec'[a].claim = rec[a].claim
  <2>1. PICK c \in Cards : c = tap[t].on
    BY <1>1 DEF CheckAction, TypeInv, OnCard, LivePcs
  <2>2. \/ rec' = rec
        \/ rec' = [rec EXCEPT ![c] = [rec[c] EXCEPT !.made = TRUE, !.until = UntilOf(c)]]
    BY <1>0, <1>1, <2>1 DEF CheckAction
  <2>3. [rec[c] EXCEPT !.made = TRUE, !.until = UntilOf(c)].claim = rec[c].claim
    BY <1>0 DEF Record
  <2> QED
    BY <1>0, <2>2, <2>3
<1>2. ASSUME NEW t \in Taps, Finishes(t), ~GivesBack(t)
      PROVE  \A a \in Cards : rec'[a].claim = rec[a].claim
  <2>0. PICK c : c = tap[t].on
    OBVIOUS
  <2>1. FinalizeAction(c) \/ FinalizeUndo(c) \/ UNCHANGED db
    BY <1>2, <2>0, FinishIs DEF GivesBack
  <2>2. \/ rec' = rec
        \/ \E a : rec' = [rec EXCEPT ![a] = [rec[a] EXCEPT !.finished = TRUE]]
        \/ \E a : rec' = [rec EXCEPT ![a] = [rec[a] EXCEPT !.undone = TRUE]]
    BY <2>1 DEF FinalizeAction, FinalizeUndo, db
  <2>3. \A r \in Record : /\ [r EXCEPT !.finished = TRUE].claim = r.claim
                          /\ [r EXCEPT !.undone = TRUE].claim = r.claim
    BY DEF Record
  <2> QED
    BY <1>0, <2>2, <2>3
<1>3. CASE rec' = rec
  BY <1>3
<1>4. ASSUME NEW t \in Taps,
             \/ TakeLock(t) \/ MoveCard(t) \/ CheckUndo(t) \/ Deliver(t) \/ ReleaseLock(t)
             \/ RenewLock(t) \/ Stop(t) \/ Shutdown(t)
             \/ \E g \in Groups : Group(t, g) \/ Panic(t, g)
      PROVE  rec' = rec
  BY <1>4, GroupSteps DEF TakeLock, MoveCard, CheckUndo, Deliver, ReleaseLock, RenewLock, Stop,
     Shutdown, db
<1>5. CASE \/ PostUndoCard \/ CloseCard \/ LockExpires \/ LoseLock \/ LateCall \/ SomebodyElse
           \/ Tick \/ UNCHANGED vars
  BY <1>5 DEF PostUndoCard, CloseCard, LockExpires, LoseLock, LateCall, SomebodyElse, Tick, vars, db
<1> QED
  BY <1>1, <1>2, <1>3, <1>4, <1>5 DEF Next, Handler, Finishes

\* Which tap starts to run, and of which cards something is called on.
LEMMA RunsStart ==
    ASSUME TypeInv, [Next]_vars, NEW t \in Taps, tap'[t].pc = "run"
    PROVE  tap'[t] = tap[t] \/ CheckAction(t) \/ ClaimUndo(t)
<1>1. CASE tap' = tap
  BY <1>1
<1>2. CASE PostUndoCard \/ CloseCard
  BY <1>2 DEF PostUndoCard, CloseCard
<1>3. ASSUME NEW s \in Taps, TakeLock(s) \/ ReleaseLock(s) \/ Stop(s) PROVE tap'[t] = tap[t]
  BY <1>3, Shapes DEF TakeLock, ReleaseLock, Stop, Over, TypeInv
<1>4. ASSUME NEW s \in Taps, MoveCard(s) \/ CheckUndo(s) \/ Finishes(s) \/ Deliver(s)
      PROVE  tap'[t] = tap[t]
  <2>1. \E pc \in TapPcs : pc # "run" /\ Goes(s, pc)
    BY <1>4, FinishIs DEF MoveCard, CheckUndo, Deliver, Abort, TapPcs
  <2> QED
    BY <2>1, GoesTyped DEF TypeInv
<1>5. ASSUME NEW s \in Taps, CheckAction(s) \/ ClaimUndo(s)
      PROVE  tap'[t] = tap[t] \/ s = t
  <2>1. \E pc \in TapPcs : Goes(s, pc)
    BY <1>5 DEF CheckAction, ClaimUndo, Abort, TapPcs
  <2> QED
    BY <2>1, GoesTyped DEF TypeInv
<1> QED
  BY <1>1, <1>2, <1>3, <1>4, <1>5, HandsKept DEF Next, Handler, Finishes

LEMMA CallersRun ==
    ASSUME TypeInv, CallsInRun, [Next]_vars, NEW c \in Cards, NEW g \in Groups, Called(c, g)'
    PROVE  Called(c, g) \/ \E t \in Taps : /\ Group(t, g) \/ Panic(t, g)
                                           /\ tap[t].pc = "run" /\ tap[t].on = c
<1>1. CASE \E t \in Taps, h \in Groups : Group(t, h) \/ Panic(t, h)
  <2>1. PICK t \in Taps, h \in Groups : Group(t, h) \/ Panic(t, h)
    BY <1>1
  <2>2. PICK d \in Cards : d = tap[t].on
    BY <2>1, GroupSteps
  <2>3. CASE d = c /\ h = g
    BY <2>1, <2>2, <2>3, GroupSteps
  <2>4. CASE d # c \/ h # g
    <3>1. hist'[c][g] = hist[c][g]
      BY <2>1, <2>2, <2>4, GroupSteps, GroupKeeps
    <3> QED
      BY <3>1 DEF Called
  <2> QED
    BY <2>3, <2>4
<1>2. CASE ~ \E t \in Taps, h \in Groups : Group(t, h) \/ Panic(t, h)
  BY <1>2, CallsKept
<1> QED
  BY <1>1, <1>2

\* An undo of before the step is one of the same record after it; a new card has made
\* no call and no tap is busy with it.
LEMMA UndosKept ==
    ASSUME TypeInv, TapsInv, CallsInRun, [Next]_vars, NEW c \in Cards, Undo(c)',
           (\E g \in Groups : Called(c, g)) \/ \E t \in Taps : tap[t].pc \in Busy /\ tap[t].on = c
    PROVE  Undo(c) /\ card'[c].of = card[c].of
<1>1. CASE PostUndoCard
  <2>1. card[c].state # "none"
    BY DEF CallsInRun, Untouched, TapsInv, RunningCard
  <2> QED
    BY <1>1, <2>1, NewCard DEF Undo
<1>2. CASE ~PostUndoCard
  BY <1>2, CardsKept DEF Undo
<1> QED
  BY <1>1, <1>2

\* What the run of a tap that goes on knows changes in its own steps alone.
LEMMA RunKept ==
    ASSUME TypeInv, TapsInv, [Next]_vars, NEW t \in Taps, NEW c \in Cards,
           tap[t] = [pc |-> "run", on |-> c], tap'[t] = tap[t],
           \A u \in Taps, g \in Groups : ~(Group(u, g) \/ Panic(u, g))
    PROVE  work'[c] = work[c] /\ look'[c] = look[c] /\ reached'[c] = reached[c]
<1>1. CASE UNCHANGED <<work, look, reached>>
  BY <1>1
<1>2. ASSUME NEW u \in Taps, CheckAction(u) \/ ClaimUndo(u) \/ Deliver(u) \/ Stop(u)
      PROVE  work'[c] = work[c] /\ look'[c] = look[c] /\ reached'[c] = reached[c]
  <2>0. PICK d \in Cards : d = tap[u].on
    BY <1>2 DEF CheckAction, ClaimUndo, Deliver, Stop, TypeInv, OnCard, LivePcs
  <2>1. u # t
    <3>1. \/ tap'[u] = Over
          \/ \E pc \in {"run", "release"} : Goes(u, pc) /\ tap[u].pc # "run"
      BY <1>2, Shapes DEF CheckAction, ClaimUndo, Deliver, Stop, Abort, TypeInv
    <3> QED
      BY <3>1 DEF Over
  <2>2. \/ tap[u].pc \in Busy \/ UNCHANGED <<work, look, reached>>
    BY <1>2 DEF CheckAction, ClaimUndo, Deliver, Stop, Busy, run
  <2>3. CASE tap[u].pc \in Busy
    <3>1. d # c
      BY <2>0, <2>1, <2>3 DEF TapsInv, OneHandler, Busy
    <3>2. CASE CheckAction(u) \/ ClaimUndo(u)
      BY <2>0, <3>1, <3>2 DEF CheckAction, ClaimUndo, TypeInv, TypeOK
    <3>3. CASE Forget(d)
      BY <3>1, <3>3, ForgetIdle
    <3>4. CASE UNCHANGED run
      BY <3>4 DEF run
    <3> QED
      BY <1>2, <2>0, <3>2, <3>3, <3>4 DEF Deliver, Stop
  <2> QED
    BY <2>2, <2>3
<1>3. ASSUME NEW u \in Taps, Finishes(u) PROVE UNCHANGED <<work, look, reached>>
  BY <1>3, FinishIs DEF run
<1> QED
  BY <1>1, <1>2, <1>3, WorkKept DEF Next, Handler, Finishes

LEMMA ClaimEffect ==
    ASSUME TypeInv, NEW u \in Taps, ClaimUndo(u), NEW c, c = tap[u].on
    PROVE  /\ c \in Cards /\ tap[u].pc = "claim"
           /\ tap'[u].on = c /\ tap'[u].pc \in {"run", "release"}
           /\ \A s \in Taps : s # u => tap'[s] = tap[s]
           /\ \A a \in Cards : \/ rec'[a].claim = rec[a].claim
                              \/ (a = card[c].of /\ rec[a].claim = Nobody)
           /\ card[c].of \in Cards /\ tap'[u].pc = "run" => rec'[card[c].of].claim = c
           /\ \A s \in Taps, g \in Groups : ~(Group(s, g) \/ Panic(s, g))
<1>1. tap[u].pc = "claim" /\ c \in Cards
  BY DEF ClaimUndo, TypeInv, OnCard, LivePcs
<1>2. \E pc \in {"run", "release"} : Goes(u, pc)
  BY DEF ClaimUndo, Abort
<1>3. /\ tap'[u].on = c /\ tap'[u].pc \in {"run", "release"}
      /\ \A s \in Taps : s # u => tap'[s] = tap[s]
  BY <1>2, GoesTyped DEF TypeInv, TapPcs
<1> DEFINE a == card[c].of
<1>4. \/ /\ rec[a].claim = Nobody /\ rec' = [rec EXCEPT ![a].claim = c]
      \/ rec' = rec /\ Goes(u, "release")
  BY DEF ClaimUndo, Unclaimed, Abort
<1>5. Goes(u, "release") => tap'[u].pc = "release"
  BY GoesTyped DEF TypeInv, TapPcs
<1> HIDE DEF a
<1>6. rec \in [Cards -> Record] /\ \A d \in Cards : rec[d] \in Record
  BY DEF TypeInv, TypeOK
<1>7. \A d \in Cards : rec'[d].claim = rec[d].claim \/ (d = a /\ rec[d].claim = Nobody)
  BY <1>4, <1>6 DEF Record
<1>8. a \in Cards /\ tap'[u].pc = "run" => rec'[a].claim = c
  BY <1>4, <1>5, <1>6 DEF Record
<1>9. tap' # tap
  BY <1>1, <1>3
<1>10. \A s \in Taps, g \in Groups : ~(Group(s, g) \/ Panic(s, g))
  BY <1>9, GroupSteps
<1> QED
  BY <1>1, <1>3, <1>7, <1>8, <1>10 DEF a

LEMMA BackEffect ==
    ASSUME TypeInv, ClaimInv, NEW u \in Taps, GivesBack(u), NEW c, c = tap[u].on
    PROVE  /\ c \in Cards /\ tap[u].pc = "run" /\ Undo(c) /\ card' = card
           /\ tap'[u].pc \in {"deliver", "finalize"}
           /\ \A s \in Taps : s # u => tap'[s] = tap[s]
           /\ \A a \in Cards : \/ rec'[a].claim = rec[a].claim
                              \/ (a = card[c].of /\ rec[a].claim = c)
           /\ \A g \in Groups : ~Called(c, g)
           /\ \A s \in Taps, g \in Groups : ~(Group(s, g) \/ Panic(s, g))
<1>1. /\ tap[u].pc = "run" /\ c \in Cards /\ Undo(c) /\ card' = card
      /\ Goes(u, "deliver") \/ Goes(u, "finalize")
  BY FinishIs DEF GivesBack, TypeInv, OnCard, LivePcs, redis
<1>2. /\ tap'[u].pc \in {"deliver", "finalize"}
      /\ \A s \in Taps : s # u => tap'[s] = tap[s]
  BY <1>1, GoesTyped DEF TypeInv, TapPcs
<1>3. \A g \in Groups : work[c][g] \in Settled \cup {"idle"} /\ work[c][g] # "lost" /\ g \notin reached[c]
  BY FinishIs DEF GivesBack, AnyReached, Lost
<1>4. \A g \in Groups : work[c][g] \notin {"landed", "refused", "lost"}
  BY <1>3 DEF Settled
<1>5. tap[u] = [pc |-> "run", on |-> c]
  BY <1>1, TapIs
<1>6. \A g \in Groups : ~Called(c, g)
  BY <1>1, <1>3, <1>4, <1>5 DEF ClaimInv, ReachedIsKept
<1>7. rec[card[c].of].claim = c /\ rec' = [rec EXCEPT ![card[c].of].claim = Nobody]
  BY DEF GivesBack, ReleaseUndo, StillClaimed
<1>8. \A a \in Cards : rec'[a].claim = rec[a].claim \/ (a = card[c].of /\ rec[a].claim = c)
  BY <1>7 DEF TypeInv, TypeOK
<1>9. \A s \in Taps, g \in Groups : ~(Group(s, g) \/ Panic(s, g))
  BY <1>1, <1>2, GroupSteps
<1> QED
  BY <1>1, <1>2, <1>6, <1>8, <1>9

LEMMA ClaimedStep ==
    ASSUME TypeInv, TapsInv, CallsInRun, ClaimInv, [Next]_vars
    PROVE  ClaimedByRun'
<1>1. ASSUME NEW t \in Taps, NEW c \in Cards, c = tap'[t].on, tap'[t].pc = "run", Undo(c)'
      PROVE  rec'[card'[c].of].claim = c
  <2>1. tap[t].on = c /\ tap[t].pc \in Busy
    BY <1>1, RunsStart, ClaimEffect, GoesTyped
       DEF CheckAction, Abort, TypeInv, OnCard, LivePcs, TapPcs, Busy
  <2>2. Undo(c) /\ card'[c].of = card[c].of /\ card[c].of \in Cards
    BY <1>1, <2>1, UndosKept DEF TypeInv, OfCard
  <2>3. CASE ClaimUndo(t)
    BY <1>1, <2>1, <2>2, <2>3, ClaimEffect
  <2>4. CASE ~ClaimUndo(t)
    <3>1. tap'[t] = tap[t] /\ rec[card[c].of].claim = c
      BY <1>1, <2>1, <2>2, <2>4, RunsStart DEF CheckAction, ClaimInv, ClaimedByRun
    <3>2. CASE \A a \in Cards : rec'[a].claim = rec[a].claim
      BY <2>2, <3>1, <3>2
    <3>3. ASSUME NEW u \in Taps, ClaimUndo(u) PROVE rec'[card'[c].of].claim = c
      BY <2>2, <3>1, <3>3, ClaimEffect, CardsAreNumbers
    <3>4. ASSUME NEW u \in Taps, GivesBack(u) PROVE rec'[card'[c].of].claim = c
      <4>1. u # t
        BY <1>1, <3>4, BackEffect
      <4>2. tap[u].on # c
        BY <1>1, <2>1, <3>4, <4>1, BackEffect DEF TapsInv, OneHandler, Busy
      <4> QED
        BY <2>2, <3>1, <3>4, <4>2, BackEffect
    <3> QED
      BY <3>2, <3>3, <3>4, ClaimsKept
  <2> QED
    BY <2>3, <2>4
<1>2. ASSUME NEW c \in Cards, NEW g \in Groups, Undo(c)', Called(c, g)'
      PROVE  rec'[card'[c].of].claim = c
  <2>1. Called(c, g) \/ \E t \in Taps : /\ Group(t, g) \/ Panic(t, g)
                                       /\ tap[t].pc = "run" /\ tap[t].on = c
    BY <1>2, CallersRun
  <2>2. Undo(c) /\ card'[c].of = card[c].of /\ card[c].of \in Cards
    BY <1>2, <2>1, UndosKept DEF TypeInv, OfCard, Busy
  <2>3. rec[card[c].of].claim = c
    BY <2>1, <2>2 DEF ClaimInv, ClaimedByRun
  <2>4. CASE \A a \in Cards : rec'[a].claim = rec[a].claim
    BY <2>2, <2>3, <2>4
  <2>5. ASSUME NEW u \in Taps, ClaimUndo(u) PROVE rec'[card'[c].of].claim = c
    BY <2>2, <2>3, <2>5, ClaimEffect, CardsAreNumbers
  <2>6. ASSUME NEW u \in Taps, GivesBack(u) PROVE rec'[card'[c].of].claim = c
    <3>1. Called(c, g)
      BY <2>1, <2>6, BackEffect
    <3>2. tap[u].on # c
      BY <2>6, <3>1, BackEffect
    <3> QED
      BY <2>2, <2>3, <2>6, <3>2, BackEffect
  <2> QED
    BY <2>4, <2>5, <2>6, ClaimsKept
<1>3. OnCard'
  BY TypeStep DEF TypeInv
<1> QED
  BY <1>1, <1>2, <1>3 DEF ClaimedByRun, OnCard, LivePcs

LEMMA ReachedStep ==
    ASSUME TypeInv, TapsInv, CallsInRun, ClaimInv, [Next]_vars
    PROVE  ReachedIsKept'
<1> SUFFICES ASSUME NEW t \in Taps, NEW c \in Cards, NEW g \in Groups,
                    tap'[t] = [pc |-> "run", on |-> c], Undo(c)', Called(c, g)'
             PROVE  work'[c][g] \in {"landed", "refused", "lost"} \/ g \in reached'[c]
  BY DEF ReachedIsKept
<1>0. tap'[t].pc = "run" /\ tap'[t].on = c
  OBVIOUS
<1>1. tap[t].on = c /\ tap[t].pc \in Busy
  BY <1>0, RunsStart, ClaimEffect, GoesTyped
     DEF CheckAction, Abort, TypeInv, OnCard, LivePcs, TapPcs, Busy
<1>2. Undo(c)
  BY <1>1, UndosKept
<1>3. \A u \in Taps : tap[u].pc \in Busy /\ tap[u].on = c => u = t
  BY <1>1 DEF TapsInv, OneHandler
<1>4. CASE ClaimUndo(t)
  <2>1. Untouched(c)
    BY <1>1, <1>4 DEF CallsInRun, ClaimUndo
  <2> QED
    BY <1>4, <2>1, ClaimEffect, CallersRun DEF Untouched
<1>5. CASE tap'[t] = tap[t]
  <2>1. CASE \A u \in Taps, h \in Groups : ~(Group(u, h) \/ Panic(u, h))
    <3>1. Called(c, g)
      BY <2>1, CallsKept
    <3>2. work'[c] = work[c] /\ reached'[c] = reached[c]
      BY <1>5, <2>1, RunKept
    <3> QED
      BY <1>2, <1>5, <3>1, <3>2 DEF ClaimInv, ReachedIsKept
  <2>2. ASSUME NEW u \in Taps, NEW h \in Groups, Group(u, h) \/ Panic(u, h)
        PROVE  work'[c][g] \in {"landed", "refused", "lost"} \/ g \in reached'[c]
    <3>0. PICK d \in Cards : d = tap[u].on
      BY <2>2, GroupSteps
    <3>1. /\ tap[u].pc = "run"
          /\ \/ SawStep(d, h) \/ SaveStep(d, h) \/ LandStep(d, h) \/ RefuseStep(d, h)
             \/ SettleStep(d, h) \/ LostStep(d, h)
      BY <2>2, <3>0, GroupSteps
    <3>2. CASE d # c \/ h # g
      <4>1. /\ work'[c][g] = work[c][g] /\ hist'[c][g] = hist[c][g]
            /\ reached[c] \subseteq reached'[c]
        BY <3>1, <3>2, GroupKeeps
      <4> QED
        BY <1>2, <1>5, <4>1 DEF ClaimInv, ReachedIsKept, Called
    <3>3. CASE d = c /\ h = g
      <4>1. CASE SawStep(c, g) \/ SaveStep(c, g)
        BY <4>1 DEF SawStep, SaveStep, Turns, CallsInRun, Called
      <4>2. CASE LandStep(c, g) \/ RefuseStep(c, g)
        BY <4>2 DEF LandStep, RefuseStep, Turns, TypeInv, TypeOK
      <4>3. CASE SettleStep(c, g)
        <5>1. work[c][g] \in {"todo", "looked", "saved"} => ~Called(c, g)
          BY DEF CallsInRun
        <5>2. Called(c, g) /\ reached[c] \subseteq reached'[c]
          BY <4>3, GroupKeeps DEF SettleStep, Called
        <5> QED
          BY <1>2, <4>3, <5>1, <5>2, SetResultKeeps DEF SettleStep
      <4>4. CASE LostStep(c, g)
        BY <4>4 DEF LostStep, TypeInv, TypeOK
      <4> QED
        BY <3>1, <3>3, <4>1, <4>2, <4>3, <4>4
    <3> QED
      BY <3>2, <3>3
  <2> QED
    BY <2>1, <2>2
<1>6. ~CheckAction(t)
  BY <1>1, <1>2 DEF CheckAction
<1> QED
  BY <1>4, <1>5, <1>6, RunsStart

ClaimsHold == RunInv /\ CallsInRun /\ ClaimInv

LEMMA ClaimsAlwaysHold == Spec => []ClaimsHold
<1>1. Init => ClaimsHold
  BY TypeInit, WorkInit, LockInit, CallsInit, ClaimInit DEF ClaimsHold, RunInv
<1>2. ClaimsHold /\ [Next]_vars => ClaimsHold'
  BY TypeStep, HandsStep, WorkStep, LockStep, CallsStep, ClaimedStep, ReachedStep
     DEF ClaimsHold, RunInv, ClaimInv
<1> QED
  BY <1>1, <1>2, PTL DEF Spec

\* In every instance, of all the undo cards of an action one makes calls at most, also
\* where a claim was given back in between (ClaimUndo, ReleaseUndo).
THEOREM OneUndoCalls == Spec => []OneUndo
<1>1. ClaimsHold => OneUndo
  BY DEF ClaimsHold, ClaimInv, ClaimedByRun, OneUndo
<1> QED
  BY <1>1, ClaimsAlwaysHold, PTL

-----------------------------------------------------------------------------
\* The record.  Only the card's own run writes what became of the action in a group,
\* and what it saw there.

LEMMA AllResultsKeep ==
    ASSUME TypeInv, NEW c \in Cards, \A g \in Groups : work[c][g] \in Settled \cup {"idle"},
           NEW g \in Groups
    PROVE  /\ AllResults(c)[g].prior = row[RecordOf(c)][g].prior
           /\ Undo(c) => /\ AllResults(c)[g].outcome = row[RecordOf(c)][g].outcome
                         /\ AllResults(c)[g].applied = row[RecordOf(c)][g].applied
           /\ ~Undo(c) /\ work[c][g] # "idle" => AllResults(c)[g].outcome = Swept(work[c][g])
<1>1. row[RecordOf(c)][g] \in Row
  BY RecordOfTyped, Shapes DEF TypeInv
<1>2. work[c][g] # "idle" => Swept(work[c][g]) \in Outcomes
  BY DEF Swept, Settled, Outcomes
<1> QED
  BY <1>1, <1>2, ResultTyped DEF AllResults, TypeInv

\* What a write of a group's result changes.
LEMMA WriteKeeps ==
    ASSUME TypeInv, NEW c \in Cards, NEW g \in Groups, NEW outcome \in Outcomes,
           row' = [row EXCEPT ![RecordOf(c)][g] = Result(row[RecordOf(c)][g], c, outcome)],
           NEW d \in Cards, NEW h \in Groups
    PROVE  /\ row'[d][h].prior = row[d][h].prior
           /\ Undo(c) \/ d # c => /\ row'[d][h].outcome = row[d][h].outcome
                                  /\ row'[d][h].applied = row[d][h].applied
<1>1. RecordOf(c) \in Cards
  BY RecordOfTyped
<1>2. row[RecordOf(c)][g] \in Row /\ row \in [Cards -> [Groups -> Row]]
      /\ row[RecordOf(c)] \in [Groups -> Row]
  BY <1>1, Shapes DEF TypeInv, TypeOK
<1>3. PICK r : r = Result(row[RecordOf(c)][g], c, outcome)
  OBVIOUS
<1>4. /\ r.prior = row[RecordOf(c)][g].prior
      /\ Undo(c) => /\ r.outcome = row[RecordOf(c)][g].outcome
                    /\ r.applied = row[RecordOf(c)][g].applied
  BY <1>2, <1>3, ResultTyped DEF TypeInv
<1>5. row'[d][h] = IF d = RecordOf(c) /\ h = g THEN r ELSE row[d][h]
  BY <1>1, <1>2, <1>3
<1>6. ~Undo(c) => RecordOf(c) = c
  BY DEF RecordOf
<1> QED
  BY <1>4, <1>5, <1>6

LEMMA RowsOfRun ==
    ASSUME TypeInv, NEW t \in Taps, NEW h \in Groups, Group(t, h) \/ Panic(t, h),
           NEW c \in Cards, NEW g \in Groups
    PROVE  /\ row'[c][g].prior = row[c][g].prior \/ (tap[t].on = c /\ h = g /\ SaveStep(c, g))
           /\ \/ /\ row'[c][g].outcome = row[c][g].outcome
                 /\ row'[c][g].applied = row[c][g].applied
              \/ ~Undo(c) /\ tap[t].pc = "run" /\ tap[t].on = c
<1>0. PICK d \in Cards : d = tap[t].on
  BY GroupSteps
<1>1. /\ tap[t].pc = "run"
      /\ \/ SawStep(d, h) \/ SaveStep(d, h) \/ LandStep(d, h) \/ RefuseStep(d, h)
         \/ SettleStep(d, h) \/ LostStep(d, h)
  BY <1>0, GroupSteps
<1>2. CASE SaveStep(d, h)
  <2>1. row' = [row EXCEPT ![d][h].prior = look[d][h].saw]
    BY <1>2 DEF SaveStep
  <2>2. row' = [row EXCEPT ![d][h] = [row[d][h] EXCEPT !.prior = look[d][h].saw]]
    BY <2>1 DEF TypeInv, TypeOK
  <2>3. /\ [row[d][h] EXCEPT !.prior = look[d][h].saw].outcome = row[d][h].outcome
        /\ [row[d][h] EXCEPT !.prior = look[d][h].saw].applied = row[d][h].applied
    <3>1. row[d][h] \in Row
      BY Shapes DEF TypeInv
    <3> QED
      BY <3>1 DEF Row
  <2>4. row'[c][g] = IF c = d /\ g = h THEN [row[d][h] EXCEPT !.prior = look[d][h].saw] ELSE row[c][g]
    BY <2>2 DEF TypeInv, TypeOK
  <2> QED
    BY <1>0, <1>2, <2>3, <2>4
<1>3. CASE SettleStep(d, h)
  <2>1. PICK outcome \in {"done", "skipped", "failed"} :
            \/ row' = row
            \/ row' = [row EXCEPT ![RecordOf(d)][h] = Result(row[RecordOf(d)][h], d, outcome)]
    BY <1>3 DEF SettleStep
  <2>2. outcome \in Outcomes
    BY DEF Outcomes
  <2> QED
    BY <1>0, <1>1, <2>1, <2>2, WriteKeeps
<1>4. CASE SawStep(d, h) \/ LandStep(d, h) \/ RefuseStep(d, h) \/ LostStep(d, h)
  BY <1>4 DEF SawStep, LandStep, RefuseStep, LostStep
<1> QED
  BY <1>1, <1>2, <1>3, <1>4

LEMMA RowsOfEnd ==
    ASSUME TypeInv, NEW t \in Taps, Finishes(t), NEW c \in Cards, NEW g \in Groups
    PROVE  /\ row'[c][g].prior = row[c][g].prior
           /\ \/ /\ row'[c][g].outcome = row[c][g].outcome
                 /\ row'[c][g].applied = row[c][g].applied
              \/ ~Undo(c) /\ tap[t].pc = "run" /\ tap[t].on = c
<1>0. PICK d \in Cards : d = tap[t].on
  BY FinishIs DEF TypeInv, OnCard, LivePcs
<1>1. /\ \A h \in Groups : work[d][h] \in Settled \cup {"idle"}
      /\ \/ tap[t].pc = "run" /\ ~Undo(d) /\ FinalizeAction(d)
         \/ Undo(d) /\ FinalizeUndo(d)
         \/ Undo(d) /\ ReleaseUndo(d)
         \/ UNCHANGED db
  BY <1>0, FinishIs
<1>2. /\ AllResults(d)[g].prior = row[RecordOf(d)][g].prior
      /\ Undo(d) => /\ AllResults(d)[g].outcome = row[RecordOf(d)][g].outcome
                    /\ AllResults(d)[g].applied = row[RecordOf(d)][g].applied
      /\ AllResults(d)[g] \in Row
  BY <1>1, AllResultsKeep, AllResultsTyped
<1>3. CASE tap[t].pc = "run" /\ ~Undo(d) /\ FinalizeAction(d)
  <2>1. RecordOf(d) = d /\ row'[c][g] = IF c = d THEN AllResults(d)[g] ELSE row[c][g]
    BY <1>3 DEF FinalizeAction, RecordOf, TypeInv, TypeOK
  <2> QED
    BY <1>0, <1>1, <1>2, <1>3, <2>1
<1>4. CASE Undo(d) /\ FinalizeUndo(d)
  <2>1. /\ RecordOf(d) = card[d].of
        /\ row'[c][g] = IF c = card[d].of THEN UndoRow(AllResults(d)[g]) ELSE row[c][g]
    BY <1>4 DEF FinalizeUndo, RecordOf, TypeInv, TypeOK
  <2> QED
    BY <1>2, <1>4, <2>1, UndoRowTyped
<1>5. CASE Undo(d) /\ ReleaseUndo(d)
  <2>1. row'[c][g] = IF c = card[d].of THEN [row[c][g] EXCEPT !.undo = ""] ELSE row[c][g]
    BY <1>5 DEF ReleaseUndo, TypeInv, TypeOK
  <2>2. \A r \in Row : /\ [r EXCEPT !.undo = ""].prior = r.prior
                       /\ [r EXCEPT !.undo = ""].outcome = r.outcome
                       /\ [r EXCEPT !.undo = ""].applied = r.applied
    BY DEF Row
  <2> QED
    BY <2>1, <2>2, Shapes DEF TypeInv
<1>6. CASE UNCHANGED db
  BY <1>6 DEF db
<1> QED
  BY <1>1, <1>3, <1>4, <1>5, <1>6

LEMMA RowsKept ==
    ASSUME TypeInv, [Next]_vars, NEW c \in Cards, NEW g \in Groups
    PROVE  /\ \/ row'[c][g].prior = row[c][g].prior
              \/ \E t \in Taps : /\ Group(t, g) \/ Panic(t, g)
                                 /\ tap[t].on = c /\ SaveStep(c, g)
           /\ \/ /\ row'[c][g].outcome = row[c][g].outcome
                 /\ row'[c][g].applied = row[c][g].applied
              \/ ~Undo(c) /\ \E t \in Taps : tap[t].pc = "run" /\ tap[t].on = c
<1>1. CASE row' = row
  BY <1>1
<1>2. ASSUME NEW t \in Taps,
             \/ TakeLock(t) \/ MoveCard(t) \/ CheckAction(t) \/ CheckUndo(t) \/ ClaimUndo(t)
             \/ Deliver(t) \/ ReleaseLock(t) \/ RenewLock(t) \/ Stop(t) \/ Shutdown(t)
      PROVE  row' = row
  BY <1>2 DEF TakeLock, MoveCard, CheckAction, CheckUndo, ClaimUndo, Deliver, ReleaseLock, RenewLock,
     Stop, Shutdown, db
<1>3. CASE \/ PostUndoCard \/ CloseCard \/ LockExpires \/ LoseLock \/ LateCall \/ SomebodyElse
           \/ Tick \/ UNCHANGED vars
  BY <1>3 DEF PostUndoCard, CloseCard, LockExpires, LoseLock, LateCall, SomebodyElse, Tick, vars, db
<1>4. ASSUME NEW t \in Taps, Finishes(t)
      PROVE  /\ row'[c][g].prior = row[c][g].prior
             /\ \/ /\ row'[c][g].outcome = row[c][g].outcome
                   /\ row'[c][g].applied = row[c][g].applied
                \/ ~Undo(c) /\ tap[t].pc = "run" /\ tap[t].on = c
  BY <1>4, RowsOfEnd
<1>5. ASSUME NEW t \in Taps, NEW h \in Groups, Group(t, h) \/ Panic(t, h)
      PROVE  /\ \/ row'[c][g].prior = row[c][g].prior
                \/ tap[t].on = c /\ h = g /\ SaveStep(c, g)
             /\ \/ /\ row'[c][g].outcome = row[c][g].outcome
                   /\ row'[c][g].applied = row[c][g].applied
                \/ ~Undo(c) /\ tap[t].pc = "run" /\ tap[t].on = c
  BY <1>5, RowsOfRun
<1> QED
  BY <1>1, <1>2, <1>3, <1>4, <1>5 DEF Next, Handler, Finishes

\* Who closes a record: the run of its own card.
LEMMA FinishedKept ==
    ASSUME TypeInv, [Next]_vars, NEW c \in Cards
    PROVE  \/ rec'[c].finished = rec[c].finished
           \/ \E t \in Taps : Finish(t) /\ tap[t].on = c /\ ~Undo(c) /\ FinalizeAction(c)
<1>0. rec \in [Cards -> Record] /\ \A a \in Cards : rec[a] \in Record
  BY DEF TypeInv, TypeOK
<1>1. ASSUME NEW t \in Taps, CheckAction(t) PROVE rec'[c].finished = rec[c].finished
  <2>1. PICK d \in Cards : d = tap[t].on
    BY <1>1 DEF CheckAction, TypeInv, OnCard, LivePcs
  <2>2. \/ rec' = rec
        \/ rec' = [rec EXCEPT ![d] = [rec[d] EXCEPT !.made = TRUE, !.until = UntilOf(d)]]
    BY <1>0, <1>1, <2>1 DEF CheckAction
  <2>3. [rec[d] EXCEPT !.made = TRUE, !.until = UntilOf(d)].finished = rec[d].finished
    BY <1>0 DEF Record
  <2> QED
    BY <1>0, <2>2, <2>3
<1>2. ASSUME NEW t \in Taps, ClaimUndo(t) \/ Finishes(t)
      PROVE  \/ rec'[c].finished = rec[c].finished
             \/ Finish(t) /\ tap[t].on = c /\ ~Undo(c) /\ FinalizeAction(c)
  <2>0. PICK d \in Cards : d = tap[t].on
    BY <1>2, FinishIs DEF ClaimUndo, TypeInv, OnCard, LivePcs
  <2>1. \/ rec' = rec
        \/ Finish(t) /\ ~Undo(d) /\ FinalizeAction(d)
        \/ \E a, claim : rec' = [rec EXCEPT ![a] = [rec[a] EXCEPT !.claim = claim]]
        \/ \E a : rec' = [rec EXCEPT ![a] = [rec[a] EXCEPT !.undone = TRUE]]
    BY <1>2, <2>0 DEF ClaimUndo, Finishes, Finish, LoseRelease, FinalizeReleased, FinalizeUndo,
       ReleaseUndo, db
  <2>2. \A r \in Record : /\ \A claim : [r EXCEPT !.claim = claim].finished = r.finished
                          /\ [r EXCEPT !.undone = TRUE].finished = r.finished
    BY DEF Record
  <2>3. CASE Finish(t) /\ ~Undo(d) /\ FinalizeAction(d)
    BY <1>0, <2>0, <2>3 DEF FinalizeAction
  <2>4. ASSUME NEW a, NEW claim, rec' = [rec EXCEPT ![a] = [rec[a] EXCEPT !.claim = claim]]
        PROVE  rec'[c].finished = rec[c].finished
    BY <1>0, <2>2, <2>4
  <2>5. ASSUME NEW a, rec' = [rec EXCEPT ![a] = [rec[a] EXCEPT !.undone = TRUE]]
        PROVE  rec'[c].finished = rec[c].finished
    BY <1>0, <2>2, <2>5
  <2> QED
    BY <2>1, <2>3, <2>4, <2>5
<1>3. CASE rec' = rec
  BY <1>3
<1>4. ASSUME NEW t \in Taps,
             \/ TakeLock(t) \/ MoveCard(t) \/ CheckUndo(t) \/ Deliver(t) \/ ReleaseLock(t)
             \/ RenewLock(t) \/ Stop(t) \/ Shutdown(t)
             \/ \E g \in Groups : Group(t, g) \/ Panic(t, g)
      PROVE  rec' = rec
  BY <1>4, GroupSteps DEF TakeLock, MoveCard, CheckUndo, Deliver, ReleaseLock, RenewLock, Stop,
     Shutdown, db
<1>5. CASE \/ PostUndoCard \/ CloseCard \/ LockExpires \/ LoseLock \/ LateCall \/ SomebodyElse
           \/ Tick \/ UNCHANGED vars
  BY <1>5 DEF PostUndoCard, CloseCard, LockExpires, LoseLock, LateCall, SomebodyElse, Tick, vars, db
<1> QED
  BY <1>1, <1>2, <1>3, <1>4, <1>5 DEF Next, Handler, Finishes

\* A tap moves in its own steps alone.
LEMMA TapMoves ==
    ASSUME TypeInv, [Next]_vars, NEW t \in Taps, tap'[t] # tap[t]
    PROVE  /\ \/ TakeLock(t) \/ MoveCard(t) \/ CheckAction(t) \/ CheckUndo(t) \/ ClaimUndo(t)
              \/ Finishes(t) \/ Deliver(t) \/ ReleaseLock(t) \/ Stop(t)
           /\ \A u \in Taps, g \in Groups : ~(Group(u, g) \/ Panic(u, g))
           /\ ~PostUndoCard
<1>1. tap' # tap
  OBVIOUS
<1>2. ~PostUndoCard /\ ~CloseCard
  BY <1>1 DEF PostUndoCard, CloseCard
<1>3. PICK s \in Taps :
        \/ TakeLock(s) \/ MoveCard(s) \/ CheckAction(s) \/ CheckUndo(s) \/ ClaimUndo(s)
        \/ Finishes(s) \/ Deliver(s) \/ ReleaseLock(s) \/ Stop(s)
  BY <1>1, <1>2, HandsKept DEF Next, Handler, Finishes
<1>4. \A r \in Taps : r # s => tap'[r] = tap[r]
  BY <1>3, Shapes, FinishIs DEF TakeLock, MoveCard, CheckAction, CheckUndo, ClaimUndo, Deliver,
     ReleaseLock, Stop, Abort, Goes, TypeInv
<1> QED
  BY <1>1, <1>2, <1>3, <1>4, HandsKept

\* A record is closed once, after the run.
OpenInRun ==
    /\ \A c \in Cards : rec[c].finished => card[c].state \notin {"none", "pending"} /\ ~Undo(c)
    /\ \A t \in Taps : tap[t].pc \in {"check", "claim", "run"} => ~rec[tap[t].on].finished
    /\ \A t \in Taps : tap[t].pc = "claim" => Undo(tap[t].on)
    /\ \A t \in Taps, c \in Cards, g \in Groups :
            tap[t] = [pc |-> "run", on |-> c] /\ ~Undo(c) => work[c][g] # "idle"

\* The run of an action knows, and stores, the state its call replaces, unless it was
\* overtaken.
SeenInRun ==
    \A c \in Cards, g \in Groups : ~Undo(c) =>
        /\ work[c][g] = "looked" => look[c][g].saw = tg[g] \/ <<c, g>> \in overtaken
        /\ work[c][g] = "saved" => row[c][g].prior = tg[g] \/ <<c, g>> \in overtaken
        /\ work[c][g] \in {"landed", "done"} =>
                /\ Called(c, g)
                /\ row[c][g].prior = hist[c][g].before \/ <<c, g>> \in overtaken

\* A call that is late has failed in the record.
LateFailed ==
    \A l \in late :
        /\ work[l.card][l.group] \in {"refused", "failed", "lost", "idle"}
        /\ rec[l.card].finished => row[l.card][l.group].outcome = "failed"

RecordInv == OpenInRun /\ SeenInRun /\ LateFailed /\ RecordIsTrue

LEMMA RecordInit == Init => RecordInv
BY DEF Init, RecordInv, OpenInRun, SeenInRun, LateFailed, RecordIsTrue, NoRecord, Called

\* A card that is no undo after a step was none before it.
LEMMA ActionsKept ==
    ASSUME TypeInv, [Next]_vars, NEW c \in Cards
    PROVE  /\ ~Undo(c)' => ~Undo(c)
           /\ card[c].state # "none" => (Undo(c)' <=> Undo(c))
<1>1. CASE PostUndoCard
  BY <1>1, NewCard DEF Undo
<1>2. CASE ~PostUndoCard
  BY <1>2, CardsKept DEF Undo
<1> QED
  BY <1>1, <1>2

LEMMA OpenStep ==
    ASSUME TypeInv, TapsInv, RecordInv, [Next]_vars
    PROVE  OpenInRun'
<1>1. ASSUME NEW c \in Cards, rec'[c].finished
      PROVE  card'[c].state \notin {"none", "pending"} /\ ~Undo(c)'
  <2>1. card[c].state \notin {"none", "pending"} /\ ~Undo(c)
    <3>1. CASE rec[c].finished
      BY <3>1 DEF RecordInv, OpenInRun
    <3>2. CASE \E t \in Taps : Finish(t) /\ tap[t].on = c /\ ~Undo(c)
      BY <3>2 DEF Finish, TapsInv, RunningCard, Busy
    <3> QED
      BY <1>1, <3>1, <3>2, FinishedKept
  <2>2. ~Undo(c)'
    BY <2>1, ActionsKept
  <2>3. card'[c].state \notin {"none", "pending"}
    BY <2>1, CardsKept, NewCard
  <2> QED
    BY <2>2, <2>3
<1>2. ASSUME NEW t \in Taps, NEW c \in Cards, c = tap'[t].on, tap'[t].pc \in {"check", "claim", "run"}
      PROVE  /\ ~rec'[c].finished
             /\ tap'[t].pc = "claim" => Undo(c)'
             /\ tap'[t].pc = "run" /\ ~Undo(c)' => \A g \in Groups : work'[c][g] # "idle"
  <2>1. CASE tap'[t] = tap[t]
    <3>1. ~rec[c].finished /\ card[c].state # "none" /\ (tap[t].pc = "claim" => Undo(c))
      BY <1>2, <2>1 DEF RecordInv, OpenInRun, TapsInv, RunningCard, Busy
    <3>2. ASSUME NEW u \in Taps, Finish(u), tap[u].on = c PROVE FALSE
      <4>1. u = t
        BY <1>2, <2>1, <3>2 DEF Finish, TapsInv, OneHandler, Busy
      <4>2. Goes(u, "deliver")
        BY <3>2 DEF Finish
      <4> QED
        BY <1>2, <4>1, <4>2, GoesTyped DEF TypeInv, TapPcs
    <3>3. ~rec'[c].finished
      BY <3>1, <3>2, FinishedKept
    <3>4. Undo(c)' <=> Undo(c)
      BY <3>1, ActionsKept
    <3>5. ASSUME tap'[t].pc = "run", ~Undo(c), NEW g \in Groups PROVE work'[c][g] # "idle"
      <4>1. tap[t] = [pc |-> "run", on |-> c]
        BY <1>2, <2>1, <3>5, TapIs
      <4>2. work[c][g] # "idle"
        BY <3>5, <4>1 DEF RecordInv, OpenInRun
      <4>3. CASE \A u \in Taps, h \in Groups : ~(Group(u, h) \/ Panic(u, h))
        BY <2>1, <4>1, <4>2, <4>3, RunKept
      <4>4. ASSUME NEW u \in Taps, NEW h \in Groups, Group(u, h) \/ Panic(u, h)
            PROVE  work'[c][g] # "idle"
        <5>1. PICK d \in Cards : d = tap[u].on
          BY <4>4, GroupSteps
        <5>2. \/ SawStep(d, h) \/ SaveStep(d, h) \/ LandStep(d, h) \/ RefuseStep(d, h)
              \/ SettleStep(d, h) \/ LostStep(d, h)
          BY <4>4, <5>1, GroupSteps
        <5>3. work'[d][h] # "idle" /\ (d # c \/ h # g => work'[c][g] = work[c][g])
          BY <5>2, GroupKeeps
        <5> QED
          BY <4>2, <5>3
      <4> QED
        BY <4>3, <4>4
    <3> QED
      BY <2>1, <3>1, <3>3, <3>4, <3>5
  <2>2. CASE tap'[t] # tap[t]
    <3>1. /\ MoveCard(t) \/ CheckAction(t) \/ CheckUndo(t) \/ ClaimUndo(t)
          /\ \E pc \in TapPcs : Goes(t, pc)
          /\ \A u \in Taps : ~Finish(u) \/ tap'[u] # tap[u]
      <4>1. CASE TakeLock(t) \/ ReleaseLock(t) \/ Stop(t)
        BY <1>2, <4>1, Shapes DEF TakeLock, ReleaseLock, Stop, Over, TypeInv
      <4>2. CASE Finishes(t) \/ Deliver(t)
        BY <1>2, <4>2, GoesTyped, FinishIs DEF Deliver, TypeInv, TapPcs
      <4>3. \A u \in Taps : ~Finish(u) \/ tap'[u] # tap[u]
        BY GoesTyped DEF Finish, TypeInv, TapPcs
      <4>4. MoveCard(t) \/ CheckAction(t) \/ CheckUndo(t) \/ ClaimUndo(t)
        BY <2>2, <4>1, <4>2, TapMoves
      <4> QED
        BY <4>3, <4>4 DEF MoveCard, CheckAction, CheckUndo, ClaimUndo, Abort, TapPcs
    <3>2. c = tap[t].on /\ \A u \in Taps : u # t => tap'[u] = tap[u]
      BY <1>2, <3>1, GoesTyped DEF TypeInv
    <3>3. rec'[c].finished = rec[c].finished
      <4>1. ~Finish(t)
        BY <1>2, GoesTyped DEF Finish, TypeInv, TapPcs
      <4> QED
        BY <3>1, <3>2, <4>1, FinishedKept
    <3>4. CASE MoveCard(t)
      <4>1. Goes(t, "check") /\ card[c].state = "pending"
        BY <1>2, <3>2, <3>4, GoesTyped DEF MoveCard, TypeInv, TapPcs
      <4>2. tap'[t].pc = "check"
        BY <4>1, GoesTyped DEF TypeInv, TapPcs
      <4> QED
        BY <3>3, <4>1, <4>2 DEF RecordInv, OpenInRun
    <3>5. CASE CheckAction(t)
      <4>1. Goes(t, "run") /\ work' = [work EXCEPT ![c] = [g \in Groups |-> "todo"]]
        BY <1>2, <3>2, <3>5, GoesTyped DEF CheckAction, Abort, TypeInv, TapPcs
      <4>2. tap'[t].pc = "run" /\ tap[t].pc = "check" /\ \A g \in Groups : work'[c][g] = "todo"
        BY <3>5, <4>1, GoesTyped DEF CheckAction, TypeInv, TypeOK, TapPcs
      <4> QED
        BY <3>2, <3>3, <4>2 DEF RecordInv, OpenInRun
    <3>6. CASE CheckUndo(t) \/ ClaimUndo(t)
      <4>1. Undo(c) /\ tap[t].pc \in {"check", "claim"}
        BY <3>2, <3>6 DEF CheckUndo, ClaimUndo, RecordInv, OpenInRun
      <4>2. Undo(c)'
        BY <3>2, <4>1, ActionsKept DEF TapsInv, RunningCard, Busy
      <4> QED
        BY <3>2, <3>3, <4>1, <4>2 DEF RecordInv, OpenInRun
    <3> QED
      BY <3>1, <3>4, <3>5, <3>6
  <2> QED
    BY <2>1, <2>2
<1>3. \A t \in Taps : tap'[t].pc \in {"check", "claim", "run"} => tap'[t].on \in Cards
  BY TypeStep DEF TypeInv, OnCard, LivePcs
<1>4. \A c \in Cards : rec'[c].finished => card'[c].state \notin {"none", "pending"} /\ ~Undo(c)'
  BY <1>1
<1>5. \A t \in Taps : tap'[t].pc \in {"check", "claim", "run"} => ~rec'[tap'[t].on].finished
  BY <1>2, <1>3
<1>6. \A t \in Taps : tap'[t].pc = "claim" => Undo(tap[t].on)'
  BY <1>2, <1>3 DEF Undo
<1>7. \A t \in Taps, c \in Cards, g \in Groups :
            tap'[t] = [pc |-> "run", on |-> c] /\ ~Undo(c)' => work'[c][g] # "idle"
  BY <1>2
<1> QED
  BY <1>4, <1>5, <1>6, <1>7 DEF OpenInRun

\* Work that is on its way outside the steps of a run was so before.
LEMMA WorkOnItsWay ==
    ASSUME TypeInv, [Next]_vars, NEW c \in Cards, NEW g \in Groups,
           \A u \in Taps, h \in Groups : ~(Group(u, h) \/ Panic(u, h)),
           work'[c][g] \notin {"todo", "idle"}
    PROVE  work'[c][g] = work[c][g] /\ look'[c][g] = look[c][g]
<1>1. ASSUME NEW u \in Taps, CheckAction(u) \/ ClaimUndo(u)
      PROVE  work'[c][g] = work[c][g] /\ look'[c][g] = look[c][g]
  <2>1. look' = look /\ \/ work' = work
                        \/ \E f \in [Groups -> {"todo", "idle"}] : work' = [work EXCEPT ![tap[u].on] = f]
    BY <1>1 DEF CheckAction, ClaimUndo
  <2> QED
    BY <2>1 DEF TypeInv, TypeOK
<1>2. ASSUME NEW u \in Taps, Deliver(u) \/ Stop(u)
      PROVE  work'[c][g] = work[c][g] /\ look'[c][g] = look[c][g]
  <2>1. tap[u].on \in Cards
    BY <1>2 DEF Deliver, Stop, TypeInv, OnCard, LivePcs
  <2>2. Forget(tap[u].on) \/ UNCHANGED run
    BY <1>2 DEF Deliver, Stop
  <2> QED
    BY <2>1, <2>2, ForgetIdle DEF run
<1>3. ASSUME NEW u \in Taps, Finishes(u) PROVE UNCHANGED <<work, look, reached>>
  BY <1>3, FinishIs DEF run
<1>4. CASE UNCHANGED <<work, look, reached>>
  BY <1>4
<1> QED
  BY <1>1, <1>2, <1>3, <1>4, WorkKept DEF Next, Handler, Finishes

\* What changes a target overtakes whoever looked at it, but for the run itself.
LEMMA TargetMoves ==
    ASSUME TypeInv, [Next]_vars, NEW c \in Cards, NEW g \in Groups
    PROVE  /\ overtaken \subseteq overtaken'
           /\ \/ tg'[g] = tg[g]
              \/ <<c, g>> \in overtaken'
              \/ work[c][g] \notin {"looked", "saved"}
              \/ \E t \in Taps : (Group(t, g) \/ Panic(t, g)) /\ tap[t].on = c /\ LandStep(c, g)
              \/ \E l \in late : l.card = c /\ l.group = g
<1> DEFINE Moves0 ==
        /\ overtaken \subseteq overtaken'
        /\ \/ tg'[g] = tg[g] \/ <<c, g>> \in overtaken' \/ work[c][g] \notin {"looked", "saved"}
<1>1. ASSUME NEW h \in Groups, NEW s, NEW by, c \notin by, Becomes(h, s, by) PROVE Moves0
  BY <1>1 DEF Becomes, Overtaken, TypeInv, TypeOK
<1>2. ASSUME NEW h \in Groups, NEW s, NEW by, Becomes(h, s, by)
      PROVE  /\ overtaken \subseteq overtaken'
             /\ h # g => tg'[g] = tg[g]
  BY <1>2 DEF Becomes, TypeInv, TypeOK
<1>3. CASE LateCall
  <2>1. PICK l \in late : Becomes(l.group, Applied(l.verdict, tg[l.group], now), {l.card})
    BY <1>3 DEF LateCall
  <2>2. l.group \in Groups
    BY DEF TypeInv, TypeOK
  <2>3. CASE l.card # c
    BY <1>1, <2>1, <2>2, <2>3
  <2>4. CASE l.card = c
    BY <1>2, <2>1, <2>2, <2>4
  <2> QED
    BY <2>3, <2>4
<1>4. CASE SomebodyElse
  <2>1. PICK h \in Groups : \E s : Becomes(h, s, {})
    BY <1>4 DEF SomebodyElse
  <2> QED
    BY <1>1, <2>1
<1>5. CASE Tick
  <2>1. /\ tg'[g] = AfterEnd(tg[g], now + 1)
        /\ overtaken' = overtaken \cup
            UNION {Overtaken(h, {}) : h \in {k \in Groups : AfterEnd(tg[k], now + 1) # tg[k]}}
    BY <1>5 DEF Tick
  <2>2. tg'[g] # tg[g] => Overtaken(g, {}) \subseteq overtaken'
    BY <2>1
  <2>3. work[c][g] \in {"looked", "saved"} => <<c, g>> \in Overtaken(g, {})
    BY DEF Overtaken
  <2> QED
    BY <2>1, <2>2, <2>3
<1>6. ASSUME NEW t \in Taps, NEW h \in Groups, Group(t, h) \/ Panic(t, h)
      PROVE  /\ overtaken \subseteq overtaken'
             /\ Moves0 \/ (h = g /\ tap[t].on = c /\ LandStep(c, g))
  <2>0. PICK d \in Cards : d = tap[t].on
    BY <1>6, GroupSteps
  <2>1. \/ LandStep(d, h) \/ UNCHANGED <<tg, overtaken>>
    BY <1>6, <2>0, GroupSteps DEF SawStep, SaveStep, RefuseStep, SettleStep, LostStep
  <2>2. CASE LandStep(d, h)
    <3>1. \E s : Becomes(h, s, {d})
      BY <2>2 DEF LandStep, Lands
    <3>2. CASE d # c
      BY <1>1, <3>1, <3>2
    <3>3. CASE d = c
      BY <1>2, <2>0, <2>2, <3>1, <3>3
    <3> QED
      BY <3>2, <3>3
  <2> QED
    BY <2>1, <2>2
<1>7. CASE UNCHANGED <<tg, overtaken>>
  BY <1>7
<1>8. CASE PostUndoCard \/ CloseCard \/ LockExpires \/ LoseLock \/ UNCHANGED vars
  BY <1>8 DEF PostUndoCard, CloseCard, LockExpires, LoseLock, vars, history
<1>9. ASSUME NEW t \in Taps,
             \/ TakeLock(t) \/ MoveCard(t) \/ CheckAction(t) \/ CheckUndo(t) \/ ClaimUndo(t)
             \/ Finishes(t) \/ Deliver(t) \/ ReleaseLock(t) \/ RenewLock(t) \/ Stop(t) \/ Shutdown(t)
      PROVE  UNCHANGED <<tg, overtaken>>
  BY <1>9, FinishIs DEF TakeLock, MoveCard, CheckAction, CheckUndo, ClaimUndo, Deliver, ReleaseLock,
     RenewLock, Stop, Shutdown, history
<1> QED
  BY <1>3, <1>4, <1>5, <1>6, <1>7, <1>8, <1>9 DEF Next, Handler, Finishes

\* A call's history changes when the run calls, or late.
LEMMA HistoryMoves ==
    ASSUME TypeInv, [Next]_vars, NEW c \in Cards, NEW g \in Groups
    PROVE  \/ hist'[c][g] = hist[c][g]
           \/ \E t \in Taps : /\ Group(t, g) /\ tap[t].on = c /\ tap[t].pc = "run"
                              /\ LandStep(c, g) \/ RefuseStep(c, g)
           \/ \E l \in late : l.card = c /\ l.group = g
<1>1. CASE LateCall
  <2>1. PICK l \in late : \E call : hist' = [hist EXCEPT ![l.card][l.group] = call]
    BY <1>1 DEF LateCall
  <2> QED
    BY <2>1 DEF TypeInv, TypeOK
<1>2. ASSUME NEW t \in Taps, NEW h \in Groups, Group(t, h) \/ Panic(t, h)
      PROVE  \/ hist'[c][g] = hist[c][g]
             \/ /\ Group(t, g) /\ tap[t].on = c /\ tap[t].pc = "run"
                /\ LandStep(c, g) \/ RefuseStep(c, g)
  <2>0. PICK d \in Cards : d = tap[t].on
    BY <1>2, GroupSteps
  <2>1. /\ tap[t].pc = "run"
        /\ \/ SawStep(d, h) \/ SaveStep(d, h) \/ LandStep(d, h) \/ RefuseStep(d, h)
           \/ SettleStep(d, h) \/ LostStep(d, h)
    BY <1>2, <2>0, GroupSteps
  <2>2. CASE d = c /\ h = g
    <3>1. CASE LandStep(d, h) \/ RefuseStep(d, h)
      <4>1. ~Panic(t, h)
        BY <2>0, <3>1 DEF LandStep, RefuseStep, Turns, Panic, TypeInv, TypeOK
      <4> QED
        BY <1>2, <2>0, <2>1, <2>2, <3>1, <4>1
    <3>2. CASE SawStep(d, h) \/ SaveStep(d, h) \/ SettleStep(d, h) \/ LostStep(d, h)
      BY <3>2 DEF SawStep, SaveStep, SettleStep, LostStep
    <3> QED
      BY <2>1, <3>1, <3>2
  <2>3. CASE d # c \/ h # g
    BY <2>1, <2>3, GroupKeeps
  <2> QED
    BY <2>2, <2>3
<1>3. CASE hist' = hist
  BY <1>3
<1>4. CASE PostUndoCard \/ CloseCard \/ LockExpires \/ LoseLock \/ SomebodyElse \/ Tick \/ UNCHANGED vars
  BY <1>4 DEF PostUndoCard, CloseCard, LockExpires, LoseLock, SomebodyElse, Tick, vars, history
<1>5. ASSUME NEW t \in Taps,
             \/ TakeLock(t) \/ MoveCard(t) \/ CheckAction(t) \/ CheckUndo(t) \/ ClaimUndo(t)
             \/ Finishes(t) \/ Deliver(t) \/ ReleaseLock(t) \/ RenewLock(t) \/ Stop(t) \/ Shutdown(t)
      PROVE  hist' = hist
  BY <1>5, FinishIs DEF TakeLock, MoveCard, CheckAction, CheckUndo, ClaimUndo, Deliver, ReleaseLock,
     RenewLock, Stop, Shutdown, history
<1> QED
  BY <1>1, <1>2, <1>3, <1>4, <1>5 DEF Next, Handler, Finishes

\* What a landing leaves in the history.
LEMMA LandingTold ==
    ASSUME TypeInv, NEW c \in Cards, NEW g \in Groups, LandStep(c, g) \/ RefuseStep(c, g)
    PROVE  /\ hist'[c][g].before = tg[g]
           /\ Called(c, g)'
           /\ work[c][g] = "saved"
           /\ LandStep(c, g) => /\ work'[c][g] = "landed"
                                /\ tg'[g] = Applied(look[c][g].verdict, tg[g], now)
                                /\ hist'[c][g].left = tg'[g]
           /\ RefuseStep(c, g) => work'[c][g] = "refused"
<1>1. PICK left : hist' = [hist EXCEPT ![c][g] = [before |-> tg[g], left |-> left]]
  BY DEF LandStep, RefuseStep, Lands, CallMade
<1>2. hist'[c][g] = [before |-> tg[g], left |-> left]
  BY <1>1 DEF TypeInv, TypeOK
<1>3. tg[g] # Unknown
  BY Shapes, PlainTyped DEF TypeInv
<1>4. Called(c, g)'
  BY <1>2, <1>3 DEF Called, NoCall
<1>5. /\ work[c][g] = "saved"
      /\ LandStep(c, g) => work'[c][g] = "landed"
      /\ RefuseStep(c, g) => work'[c][g] = "refused"
  BY DEF LandStep, RefuseStep, Turns, TypeInv, TypeOK
<1>6. ASSUME LandStep(c, g)
      PROVE  tg'[g] = Applied(look[c][g].verdict, tg[g], now) /\ hist'[c][g].left = tg'[g]
  <2>1. PICK s : /\ s = Applied(look[c][g].verdict, tg[g], now)
                 /\ tg' = [tg EXCEPT ![g] = s]
                 /\ hist' = [hist EXCEPT ![c][g] = [before |-> tg[g], left |-> s]]
    BY <1>6 DEF LandStep, Lands, Becomes, CallMade
  <2>2. hist'[c][g] = [before |-> tg[g], left |-> s]
    BY <2>1 DEF TypeInv, TypeOK
  <2> QED
    BY <2>1, <2>2 DEF TypeInv, TypeOK
<1> QED
  BY <1>2, <1>4, <1>5, <1>6

LEMMA SeenStep ==
    ASSUME TypeInv, TapsInv, CallsInRun, RecordInv, [Next]_vars
    PROVE  SeenInRun'
<1> SUFFICES ASSUME NEW c \in Cards, NEW g \in Groups, ~Undo(c)'
             PROVE  /\ work'[c][g] = "looked" => look'[c][g].saw = tg'[g] \/ <<c, g>> \in overtaken'
                    /\ work'[c][g] = "saved" => row'[c][g].prior = tg'[g] \/ <<c, g>> \in overtaken'
                    /\ work'[c][g] \in {"landed", "done"} =>
                         /\ Called(c, g)'
                         /\ row'[c][g].prior = hist'[c][g].before \/ <<c, g>> \in overtaken'
  BY DEF SeenInRun
<1>1. ~Undo(c)
  BY ActionsKept
<1>2. overtaken \subseteq overtaken'
  BY TargetMoves
<1>3. /\ work[c][g] = "looked" => look[c][g].saw = tg[g] \/ <<c, g>> \in overtaken
      /\ work[c][g] = "saved" => row[c][g].prior = tg[g] \/ <<c, g>> \in overtaken
      /\ work[c][g] \in {"landed", "done"} =>
            /\ Called(c, g)
            /\ row[c][g].prior = hist[c][g].before \/ <<c, g>> \in overtaken
  BY <1>1 DEF RecordInv, SeenInRun
<1>4. ASSUME NEW t \in Taps, Group(t, g) \/ Panic(t, g), tap[t].on = c
      PROVE  /\ work'[c][g] = "looked" => look'[c][g].saw = tg'[g] \/ <<c, g>> \in overtaken'
             /\ work'[c][g] = "saved" => row'[c][g].prior = tg'[g] \/ <<c, g>> \in overtaken'
             /\ work'[c][g] \in {"landed", "done"} =>
                  /\ Called(c, g)'
                  /\ row'[c][g].prior = hist'[c][g].before \/ <<c, g>> \in overtaken'
  <2>1. \/ SawStep(c, g) \/ SaveStep(c, g) \/ LandStep(c, g) \/ RefuseStep(c, g)
        \/ SettleStep(c, g) \/ LostStep(c, g)
    BY <1>4, GroupSteps
  <2>2. CASE SawStep(c, g)
    <3>1. work'[c][g] = "looked" /\ tg' = tg
      BY <1>1, <2>2 DEF SawStep, Turns, TypeInv, TypeOK
    <3>2. PICK verdict, at : look' = [look EXCEPT ![c][g] = [saw |-> tg[g], verdict |-> verdict, at |-> at]]
      BY <1>1, <2>2 DEF SawStep
    <3>3. look'[c][g] = [saw |-> tg[g], verdict |-> verdict, at |-> at]
      BY <3>2 DEF TypeInv, TypeOK
    <3> QED
      BY <3>1, <3>3
  <2>3. CASE SaveStep(c, g)
    <3>1. work[c][g] = "looked" /\ work'[c][g] = "saved" /\ tg' = tg
      BY <2>3 DEF SaveStep, Turns, TypeInv, TypeOK
    <3>2. row' = [row EXCEPT ![c][g] = [row[c][g] EXCEPT !.prior = look[c][g].saw]]
      BY <2>3 DEF SaveStep, TypeInv, TypeOK
    <3>3. row'[c][g] = [row[c][g] EXCEPT !.prior = look[c][g].saw] /\ row[c][g] \in Row
      BY <3>2, Shapes DEF TypeInv, TypeOK
    <3>4. row'[c][g].prior = look[c][g].saw
      BY <3>3 DEF Row
    <3> QED
      BY <1>2, <1>3, <3>1, <3>4
  <2>4. CASE LandStep(c, g)
    <3>1. row' = row
      BY <2>4 DEF LandStep
    <3> QED
      BY <1>2, <1>3, <2>4, <3>1, LandingTold
  <2>5. CASE RefuseStep(c, g)
    BY <2>5, LandingTold
  <2>6. CASE SettleStep(c, g)
    <3>1. hist' = hist /\ (work'[c][g] \in {"skipped", "failed"}
                                \/ (work'[c][g] = "done" /\ work[c][g] = "landed"))
      BY <2>6, SetResultKeeps DEF SettleStep
    <3>2. PICK outcome \in {"done", "skipped", "failed"} :
            \/ row' = row
            \/ row' = [row EXCEPT ![RecordOf(c)][g] = Result(row[RecordOf(c)][g], c, outcome)]
      BY <2>6 DEF SettleStep
    <3>3. row'[c][g].prior = row[c][g].prior
      BY <3>2, WriteKeeps DEF Outcomes
    <3> QED
      BY <1>2, <1>3, <3>1, <3>3 DEF Called
  <2>7. CASE LostStep(c, g)
    BY <2>7 DEF LostStep, TypeInv, TypeOK
  <2> QED
    BY <2>1, <2>2, <2>3, <2>4, <2>5, <2>6, <2>7
<1>5. CASE /\ \A t \in Taps : Group(t, g) \/ Panic(t, g) => tap[t].on # c
           /\ work'[c][g] \in {"looked", "saved", "landed", "done"}
  <2>1. work'[c][g] = work[c][g] /\ look'[c][g] = look[c][g]
    <3>1. ASSUME NEW t \in Taps, NEW h \in Groups, Group(t, h) \/ Panic(t, h)
          PROVE  work'[c][g] = work[c][g] /\ look'[c][g] = look[c][g]
      <4>1. PICK d \in Cards : d = tap[t].on
        BY <3>1, GroupSteps
      <4>2. /\ \/ SawStep(d, h) \/ SaveStep(d, h) \/ LandStep(d, h) \/ RefuseStep(d, h)
               \/ SettleStep(d, h) \/ LostStep(d, h)
            /\ d # c \/ h # g
        BY <1>5, <3>1, <4>1, GroupSteps
      <4> QED
        BY <4>2, GroupKeeps
    <3> QED
      BY <1>5, <3>1, WorkOnItsWay
  <2>2. row'[c][g].prior = row[c][g].prior
    BY <1>5, RowsKept
  <2>3. work[c][g] \in {"looked", "saved", "landed", "done"} => \A l \in late : ~(l.card = c /\ l.group = g)
    BY DEF RecordInv, LateFailed
  <2>4. hist'[c][g] = hist[c][g]
    BY <1>5, <2>1, <2>3, HistoryMoves
  <2>5. work[c][g] \in {"looked", "saved"} => tg'[g] = tg[g] \/ <<c, g>> \in overtaken'
    BY <1>5, <2>1, <2>3, TargetMoves
  <2> QED
    BY <1>2, <1>3, <2>1, <2>2, <2>4, <2>5 DEF Called
<1> QED
  BY <1>4, <1>5

LEMMA LateStep ==
    ASSUME TypeInv, TapsInv, CallsInRun, RecordInv, [Next]_vars
    PROVE  LateFailed'
<1> SUFFICES ASSUME NEW l \in late'
             PROVE  /\ work'[l.card][l.group] \in {"refused", "failed", "lost", "idle"}
                    /\ rec'[l.card].finished => row'[l.card][l.group].outcome = "failed"
  BY DEF LateFailed
<1>0. PICK c \in Cards, g \in Groups : c = l.card /\ g = l.group
  BY TypeStep DEF TypeInv, TypeOK
<1>1. CASE l \notin late
  <2>1. PICK t \in Taps, h \in Groups : Group(t, h) \/ Panic(t, h)
    BY <1>1, CallsKept
  <2>2. PICK d \in Cards : d = tap[t].on
    BY <2>1, GroupSteps
  <2>3. RefuseStep(d, h) /\ tap[t].pc = "run" /\ rec' = rec
    BY <1>1, <2>1, <2>2, GroupSteps DEF SawStep, SaveStep, LandStep, SettleStep, LostStep
  <2>4. d = c /\ h = g
    BY <1>0, <1>1, <2>3 DEF RefuseStep
  <2>5. work'[c][g] = "refused"
    BY <2>3, <2>4, LandingTold
  <2>6. ~rec'[c].finished
    BY <2>2, <2>3, <2>4 DEF RecordInv, OpenInRun
  <2> QED
    BY <1>0, <2>5, <2>6
<1>2. CASE l \in late
  <2>1. /\ work[c][g] \in {"refused", "failed", "lost", "idle"}
        /\ rec[c].finished => row[c][g].outcome = "failed"
        /\ Called(c, g)
    BY <1>0, <1>2 DEF RecordInv, LateFailed, CallsInRun
  <2>2. work'[c][g] \in {"refused", "failed", "lost", "idle"}
    <3>1. ASSUME NEW t \in Taps, NEW h \in Groups, Group(t, h) \/ Panic(t, h)
          PROVE  work'[c][g] \in {"refused", "failed", "lost", "idle"}
      <4>1. PICK d \in Cards : d = tap[t].on
        BY <3>1, GroupSteps
      <4>2. \/ SawStep(d, h) \/ SaveStep(d, h) \/ LandStep(d, h) \/ RefuseStep(d, h)
            \/ SettleStep(d, h) \/ LostStep(d, h)
        BY <3>1, <4>1, GroupSteps
      <4>3. CASE d # c \/ h # g
        BY <2>1, <4>2, <4>3, GroupKeeps
      <4>4. CASE d = c /\ h = g
        <5>1. SettleStep(c, g) \/ LostStep(c, g)
          BY <2>1, <4>2, <4>4 DEF SawStep, SaveStep, LandStep, RefuseStep, Turns
        <5>2. CASE SettleStep(c, g)
          BY <2>1, <5>2, SetResultKeeps DEF SettleStep
        <5>3. CASE LostStep(c, g)
          BY <5>3 DEF LostStep, TypeInv, TypeOK
        <5> QED
          BY <5>1, <5>2, <5>3
      <4> QED
        BY <4>3, <4>4
    <3>2. CASE \A t \in Taps, h \in Groups : ~(Group(t, h) \/ Panic(t, h))
      <4>1. Called(c, g)'
        BY <2>1, <3>2, CallsKept
      <4>2. work'[c][g] # "todo"
        BY <4>1, CallsStep DEF CallsInRun
      <4> QED
        BY <2>1, <3>2, <4>2, WorkOnItsWay
    <3> QED
      BY <3>1, <3>2
  <2>3. ASSUME rec'[c].finished PROVE row'[c][g].outcome = "failed"
    <3>1. CASE rec[c].finished
      <4>1. \A t \in Taps : ~(tap[t].pc = "run" /\ tap[t].on = c)
        BY <3>1 DEF RecordInv, OpenInRun
      <4> QED
        BY <2>1, <3>1, <4>1, RowsKept
    <3>2. CASE ~rec[c].finished
      <4>1. PICK t \in Taps : Finish(t) /\ tap[t].on = c /\ ~Undo(c) /\ FinalizeAction(c)
        BY <2>3, <3>2, FinishedKept
      <4>2. /\ tap[t].pc = "run"
            /\ \A h \in Groups : work[c][h] \in Settled \cup {"idle"}
        BY <4>1 DEF Finish, GroupsEnded
      <4>3. work[c][g] # "idle"
        <5>1. tap[t] = [pc |-> "run", on |-> c]
          BY <4>1, <4>2, TapIs
        <5> QED
          BY <4>1, <5>1 DEF RecordInv, OpenInRun
      <4>4. row'[c][g] = AllResults(c)[g]
        BY <4>1 DEF FinalizeAction, TypeInv, TypeOK
      <4>5. row'[c][g].outcome = Swept(work[c][g])
        BY <4>1, <4>2, <4>3, <4>4, AllResultsKeep
      <4> QED
        BY <2>1, <4>2, <4>3, <4>5 DEF Swept, Settled
    <3> QED
      BY <3>1, <3>2
  <2> QED
    BY <1>0, <2>2, <2>3
<1> QED
  BY <1>1, <1>2

LEMMA TrueStep ==
    ASSUME TypeInv, TapsInv, CallsInRun, RecordInv, [Next]_vars
    PROVE  RecordIsTrue'
<1> SUFFICES ASSUME NEW c \in Cards, NEW g \in Groups, rec'[c].finished
             PROVE  /\ row'[c][g].outcome # "pending"
                    /\ row'[c][g].outcome = "done" =>
                        /\ Called(c, g)'
                        /\ <<c, g>> \in overtaken' \/ row'[c][g].prior = hist'[c][g].before
                    /\ row'[c][g].outcome = "skipped" => ~Called(c, g)'
  BY DEF RecordIsTrue
<1>1. overtaken \subseteq overtaken'
  BY TargetMoves
<1>2. CASE rec[c].finished
  <2>1. /\ row[c][g].outcome # "pending"
        /\ row[c][g].outcome = "done" =>
            Called(c, g) /\ (<<c, g>> \in overtaken \/ row[c][g].prior = hist[c][g].before)
        /\ row[c][g].outcome = "skipped" => ~Called(c, g)
    BY <1>2 DEF RecordInv, RecordIsTrue
  <2>2. \A t \in Taps : ~(tap[t].pc = "run" /\ tap[t].on = c)
    BY <1>2 DEF RecordInv, OpenInRun
  <2>3. row'[c][g].outcome = row[c][g].outcome /\ row'[c][g].prior = row[c][g].prior
    BY <2>2, RowsKept, GroupSteps
  <2>4. CASE \E l \in late : l.card = c /\ l.group = g
    <3>1. row[c][g].outcome = "failed"
      BY <1>2, <2>4 DEF RecordInv, LateFailed
    <3> QED
      BY <2>3, <3>1
  <2>5. CASE hist'[c][g] = hist[c][g]
    BY <1>1, <2>1, <2>3, <2>5 DEF Called
  <2> QED
    BY <2>2, <2>4, <2>5, HistoryMoves
<1>3. CASE ~rec[c].finished
  <2>1. PICK t \in Taps : Finish(t) /\ tap[t].on = c /\ ~Undo(c) /\ FinalizeAction(c)
    BY <1>3, FinishedKept
  <2>2. /\ tap[t].pc = "run" /\ hist' = hist
        /\ \A h \in Groups : work[c][h] \in Settled \cup {"idle"}
    BY <2>1 DEF Finish, GroupsEnded, history
  <2>3. work[c][g] # "idle"
    <3>1. tap[t] = [pc |-> "run", on |-> c]
      BY <2>1, <2>2, TapIs
    <3> QED
      BY <2>1, <3>1 DEF RecordInv, OpenInRun
  <2>4. row'[c][g] = AllResults(c)[g] /\ RecordOf(c) = c
    BY <2>1 DEF FinalizeAction, RecordOf, TypeInv, TypeOK
  <2>5. row'[c][g].outcome = Swept(work[c][g]) /\ row'[c][g].prior = row[c][g].prior
    BY <2>1, <2>2, <2>3, <2>4, AllResultsKeep
  <2>6. CASE work[c][g] = "done"
    BY <1>1, <2>1, <2>2, <2>5, <2>6 DEF RecordInv, SeenInRun, Called, Swept
  <2>7. CASE work[c][g] = "skipped"
    BY <2>2, <2>5, <2>7 DEF CallsInRun, Called, Swept
  <2>8. CASE work[c][g] \in {"failed", "lost"}
    BY <2>5, <2>8 DEF Swept
  <2> QED
    BY <2>2, <2>3, <2>6, <2>7, <2>8 DEF Settled
<1> QED
  BY <1>2, <1>3

RecordHolds == RunInv /\ CallsInRun /\ RecordInv

LEMMA RecordAlwaysHolds == Spec => []RecordHolds
<1>1. Init => RecordHolds
  BY TypeInit, WorkInit, LockInit, CallsInit, RecordInit DEF RecordHolds, RunInv
<1>2. RecordHolds /\ [Next]_vars => RecordHolds'
  BY TypeStep, HandsStep, WorkStep, LockStep, CallsStep, OpenStep, SeenStep, LateStep, TrueStep
     DEF RecordHolds, RunInv, RecordInv
<1> QED
  BY <1>1, <1>2, PTL DEF Spec

\* In every instance, while Redis keeps the lock, a call of another card that changes the
\* target of a group between a run's look and its call is one that its run gave up on,
\* and of which no closed record says that it was made.
THEOREM RunsStayApart == Spec => RunsDoNotOvertake
<1>1. ASSUME RunInv, NEW c \in Cards, NEW d \in Cards, NEW g \in Groups,
             ~lockLost, c # d, LandsNow(c, g), work[d][g] \in {"looked", "saved"}
      PROVE  FALSE
  <2>1. work[c][g] = "saved"
    BY <1>1 DEF LandsNow
  <2>2. PICK s \in Taps : Runs(s, c)
    BY <1>1, <2>1 DEF RunInv, NoRunNoWork
  <2>3. PICK t \in Taps : Runs(t, d)
    BY <1>1 DEF RunInv, NoRunNoWork
  <2> QED
    BY <1>1, <2>2, <2>3 DEF RunInv, HeldLock, Runs, LivePcs
<1>2. ASSUME RecordInv, NEW c \in Cards, NEW g \in Groups, LandsLate(c, g)
      PROVE  GaveUpOn(c, g)
  BY <1>2 DEF RecordInv, LateFailed, LandsLate, GaveUpOn
<1>3. RecordHolds /\ [Next]_vars =>
        [\A c, d \in Cards, g \in Groups :
            ~lockLost /\ c # d /\ work[d][g] \in {"looked", "saved"}
                /\ (LandsNow(c, g) \/ LandsLate(c, g))
                => tg[g] = tg'[g] \/ (LandsLate(c, g) /\ GaveUpOn(c, g))]_vars
  BY <1>1, <1>2 DEF RecordHolds
<1> QED
  BY <1>3, RecordAlwaysHolds, PTL DEF Spec, RunsDoNotOvertake

\* In every instance a closed record tells of every group what happened there: a group
\* that is done was called on and has the state it replaced, and one that is skipped
\* was left alone, also after a crash of another run, a panic or a call that was late.
THEOREM RecordsAreTrue == Spec => []RecordIsTrue
<1>1. RecordHolds => RecordIsTrue
  BY DEF RecordHolds, RecordInv
<1> QED
  BY <1>1, RecordAlwaysHolds, PTL

-----------------------------------------------------------------------------
\* Where the end of a restriction comes from: what it was, none, or one that is not near.

LEMMA AppliedShape ==
    ASSUME NEW v \in Verdict, NEW s \in TargetState, NEW at \in Nat, Shaped(s)
    PROVE  /\ Shaped(Applied(v, s, at))
           /\ \/ Applied(v, s, at).until \in {s.until, 0}
              \/ Applied(v, s, at).until >= at + MinTerm
<1>1. v.until \in Nat
  BY DEF Verdict
<1>2. EndAt(v.until, at) = 0 \/ EndAt(v.until, at) >= at + MinTerm
  BY <1>1, TermsAssumption DEF EndAt
<1> QED
  BY <1>2 DEF Applied, Shaped, Kicked, Restricted, Left, Free, Member, Plain

LEMMA OtherShapes ==
    ASSUME NEW s \in TargetState, NEW at, Shaped(s)
    PROVE  /\ Shaped(AfterEnd(s, at)) /\ AfterEnd(s, at).until \in {s.until, 0}
           /\ \A m \in Moves(s) : Shaped(m) /\ m.until \in {s.until, 0}
<1>1. Shaped(AfterEnd(s, at)) /\ AfterEnd(s, at).until \in {s.until, 0}
  BY DEF AfterEnd, Shaped, Free, Member, Left, Plain
<1>2. /\ [s EXCEPT !.in = ~s.in].status = s.status
      /\ [s EXCEPT !.in = ~s.in].muted = s.muted
      /\ [s EXCEPT !.in = ~s.in].until = s.until
  BY DEF TargetState
<1>3. ASSUME NEW m \in Moves(s) PROVE Shaped(m) /\ m.until \in {s.until, 0}
  <2>1. CASE s.status = "restricted"
    BY <1>2, <1>3, <2>1 DEF Moves, Shaped
  <2>2. CASE s.status # "restricted"
    BY <1>3, <2>2 DEF Moves, Shaped, Free, Member, Left, Plain
  <2> QED
    BY <2>1, <2>2
<1> QED
  BY <1>1, <1>3

\* What a step may make of a target.
LEMMA TargetBecomes ==
    ASSUME TypeInv, [Next]_vars, NEW g \in Groups, Shaped(tg[g])
    PROVE  /\ Shaped(tg'[g])
           /\ tg'[g].until \in {tg[g].until, 0} \/ tg'[g].until >= now + MinTerm
<1> DEFINE Fits(s) == Shaped(s) /\ (s.until \in {tg[g].until, 0} \/ s.until >= now + MinTerm)
<1> SUFFICES Fits(tg'[g])
  OBVIOUS
<1>0. tg[g] \in TargetState /\ now \in Nat /\ tg \in [Groups -> TargetState]
  BY DEF TypeInv, TypeOK
<1>1. ASSUME NEW h \in Groups, NEW v \in Verdict, tg' = [tg EXCEPT ![h] = Applied(v, tg[h], now)]
      PROVE  Fits(tg'[g])
  <2>1. Fits(Applied(v, tg[g], now)) /\ Fits(tg[g])
    BY <1>0, AppliedShape
  <2>2. tg'[g] = IF h = g THEN Applied(v, tg[g], now) ELSE tg[g]
    BY <1>0, <1>1
  <2> QED
    BY <2>1, <2>2
<1>2. CASE LateCall
  <2>1. PICK l \in late : Becomes(l.group, Applied(l.verdict, tg[l.group], now), {l.card})
    BY <1>2 DEF LateCall
  <2>2. l.group \in Groups /\ l.verdict \in Verdict
    BY DEF TypeInv, TypeOK
  <2> QED
    BY <1>1, <2>1, <2>2 DEF Becomes
<1>3. CASE SomebodyElse
  <2>1. PICK h \in Groups : \E s \in Decided \cup Moves(tg[h]) : tg' = [tg EXCEPT ![h] = s]
    BY <1>3 DEF SomebodyElse, Becomes
  <2> PICK s \in Decided \cup Moves(tg[h]) : tg' = [tg EXCEPT ![h] = s]
    BY <2>1
  <2>2. tg'[g] = IF h = g THEN s ELSE tg[g]
    BY <1>0, <2>1
  <2>3. h = g => Fits(s)
    BY <1>0, DecidedTyped, OtherShapes
  <2> QED
    BY <1>0, <2>2, <2>3
<1>4. CASE Tick
  <2>1. tg'[g] = AfterEnd(tg[g], now + 1)
    BY <1>4 DEF Tick
  <2> QED
    BY <1>0, <2>1, OtherShapes
<1>5. ASSUME NEW t \in Taps, NEW h \in Groups, Group(t, h) \/ Panic(t, h) PROVE Fits(tg'[g])
  <2>0. PICK d \in Cards : d = tap[t].on
    BY <1>5, GroupSteps
  <2>1. LandStep(d, h) \/ tg' = tg
    BY <1>5, <2>0, GroupSteps DEF SawStep, SaveStep, RefuseStep, SettleStep, LostStep
  <2>2. look[d][h].verdict \in Verdict
    BY Shapes DEF TypeInv, Look
  <2>3. LandStep(d, h) => tg' = [tg EXCEPT ![h] = Applied(look[d][h].verdict, tg[h], now)]
    BY DEF LandStep, Lands, Becomes
  <2> QED
    BY <1>0, <1>1, <2>1, <2>2, <2>3
<1>6. CASE tg' = tg
  BY <1>0, <1>6
<1>7. CASE PostUndoCard \/ CloseCard \/ LockExpires \/ LoseLock \/ UNCHANGED vars
  BY <1>6, <1>7 DEF PostUndoCard, CloseCard, LockExpires, LoseLock, vars
<1>8. ASSUME NEW t \in Taps,
             \/ TakeLock(t) \/ MoveCard(t) \/ CheckAction(t) \/ CheckUndo(t) \/ ClaimUndo(t)
             \/ Finishes(t) \/ Deliver(t) \/ ReleaseLock(t) \/ RenewLock(t) \/ Stop(t) \/ Shutdown(t)
      PROVE  tg' = tg
  BY <1>8, FinishIs DEF TakeLock, MoveCard, CheckAction, CheckUndo, ClaimUndo, Deliver, ReleaseLock,
     RenewLock, Stop, Shutdown
<1> HIDE DEF Fits
<1> QED
  BY <1>2, <1>3, <1>4, <1>5, <1>6, <1>7, <1>8 DEF Next, Handler, Finishes

\* Time goes on in Tick alone.
LEMMA TimeMoves ==
    ASSUME TypeInv, [Next]_vars
    PROVE  now' = now \/ (Tick /\ now' = now + 1)
<1>1. CASE PostUndoCard \/ CloseCard \/ LockExpires \/ LoseLock \/ LateCall \/ SomebodyElse \/ UNCHANGED vars
  BY <1>1 DEF PostUndoCard, CloseCard, LockExpires, LoseLock, LateCall, SomebodyElse, vars
<1>2. ASSUME NEW t \in Taps,
             \/ TakeLock(t) \/ MoveCard(t) \/ CheckAction(t) \/ CheckUndo(t) \/ ClaimUndo(t)
             \/ Finishes(t) \/ Deliver(t) \/ ReleaseLock(t) \/ RenewLock(t) \/ Stop(t) \/ Shutdown(t)
      PROVE  now' = now
  BY <1>2, FinishIs DEF TakeLock, MoveCard, CheckAction, CheckUndo, ClaimUndo, Deliver, ReleaseLock,
     RenewLock, Stop, Shutdown
<1>3. ASSUME NEW t \in Taps, NEW g \in Groups, Group(t, g) \/ Panic(t, g) PROVE now' = now
  BY <1>3, GroupSteps
<1>4. CASE Tick
  BY <1>4 DEF Tick
<1> QED
  BY <1>1, <1>2, <1>3, <1>4 DEF Next, Handler, Finishes

\* The end of an action is set when its run begins.
LEMMA EndsKept ==
    ASSUME TypeInv, [Next]_vars, NEW a \in Cards
    PROVE  \/ rec'[a].until = rec[a].until
           \/ \E t \in Taps : tap[t].pc = "check" /\ tap[t].on = a
<1>0. rec \in [Cards -> Record] /\ \A d \in Cards : rec[d] \in Record
  BY DEF TypeInv, TypeOK
<1>1. ASSUME NEW t \in Taps, CheckAction(t)
      PROVE  rec'[a].until = rec[a].until \/ (tap[t].pc = "check" /\ tap[t].on = a)
  <2>1. PICK d \in Cards : d = tap[t].on
    BY <1>1 DEF CheckAction, TypeInv, OnCard, LivePcs
  <2>2. \/ rec' = rec
        \/ rec' = [rec EXCEPT ![d] = [rec[d] EXCEPT !.made = TRUE, !.until = UntilOf(d)]]
    BY <1>0, <1>1, <2>1 DEF CheckAction
  <2>3. tap[t].pc = "check"
    BY <1>1 DEF CheckAction
  <2> QED
    BY <1>0, <2>1, <2>2, <2>3
<1>2. ASSUME NEW t \in Taps, ClaimUndo(t) \/ Finishes(t) PROVE rec'[a].until = rec[a].until
  <2>0. PICK d \in Cards : d = tap[t].on
    BY <1>2, FinishIs DEF ClaimUndo, TypeInv, OnCard, LivePcs
  <2>1. \/ rec' = rec
        \/ \E b : rec' = [rec EXCEPT ![b] = [rec[b] EXCEPT !.finished = TRUE]]
        \/ \E b, claim : rec' = [rec EXCEPT ![b] = [rec[b] EXCEPT !.claim = claim]]
        \/ \E b : rec' = [rec EXCEPT ![b] = [rec[b] EXCEPT !.undone = TRUE]]
    BY <1>2, <2>0, FinishIs DEF ClaimUndo, FinalizeAction, FinalizeUndo, ReleaseUndo, db
  <2>2. \A r \in Record : /\ \A claim : [r EXCEPT !.claim = claim].until = r.until
                          /\ [r EXCEPT !.undone = TRUE].until = r.until
                          /\ [r EXCEPT !.finished = TRUE].until = r.until
    BY DEF Record
  <2>3. ASSUME NEW b, rec' = [rec EXCEPT ![b] = [rec[b] EXCEPT !.finished = TRUE]]
        PROVE  rec'[a].until = rec[a].until
    BY <1>0, <2>2, <2>3
  <2>4. ASSUME NEW b, NEW claim, rec' = [rec EXCEPT ![b] = [rec[b] EXCEPT !.claim = claim]]
        PROVE  rec'[a].until = rec[a].until
    BY <1>0, <2>2, <2>4
  <2>5. ASSUME NEW b, rec' = [rec EXCEPT ![b] = [rec[b] EXCEPT !.undone = TRUE]]
        PROVE  rec'[a].until = rec[a].until
    BY <1>0, <2>2, <2>5
  <2> QED
    BY <2>1, <2>3, <2>4, <2>5
<1>3. CASE rec' = rec
  BY <1>3
<1>4. ASSUME NEW t \in Taps,
             \/ TakeLock(t) \/ MoveCard(t) \/ CheckUndo(t) \/ Deliver(t) \/ ReleaseLock(t)
             \/ RenewLock(t) \/ Stop(t) \/ Shutdown(t)
             \/ \E g \in Groups : Group(t, g) \/ Panic(t, g)
      PROVE  rec' = rec
  BY <1>4, GroupSteps DEF TakeLock, MoveCard, CheckUndo, Deliver, ReleaseLock, RenewLock, Stop,
     Shutdown, db
<1>5. CASE \/ PostUndoCard \/ CloseCard \/ LockExpires \/ LoseLock \/ LateCall \/ SomebodyElse
           \/ Tick \/ UNCHANGED vars
  BY <1>5 DEF PostUndoCard, CloseCard, LockExpires, LoseLock, LateCall, SomebodyElse, Tick, vars, db
<1> QED
  BY <1>1, <1>2, <1>3, <1>4, <1>5 DEF Next, Handler, Finishes

-----------------------------------------------------------------------------
\* What an undo is of: an action that can be undone, whose record is closed, and in the
\* groups it works on, one that was done there.

Revocable == {"ban", "mute", "unban", "unmute"}

UndoOfDone ==
    /\ \A c \in Cards : Undo(c) =>
            rec[card[c].of].finished /\ card[card[c].of].kind \in Revocable
    /\ \A c \in Cards, g \in Groups :
            Undo(c) /\ work[c][g] # "idle" => row[card[c].of][g].outcome = "done"

\* A closed record stays as it is, but for its undo.
LEMMA ClosedKept ==
    ASSUME TypeInv, RecordInv, [Next]_vars, NEW a \in Cards, rec[a].finished
    PROVE  /\ rec'[a].finished /\ rec'[a].until = rec[a].until
           /\ card'[a].kind = card[a].kind
           /\ \A g \in Groups : /\ row'[a][g].outcome = row[a][g].outcome
                                /\ row'[a][g].prior = row[a][g].prior
                                /\ row'[a][g].applied = row[a][g].applied
<1>1. \A t \in Taps : tap[t].on = a => tap[t].pc \notin {"check", "run"}
  BY DEF RecordInv, OpenInRun
<1>2. rec'[a].finished
  BY <1>1, FinishedKept DEF Finish
<1>3. rec'[a].until = rec[a].until
  BY <1>1, EndsKept
<1>4. card[a].state # "none"
  BY DEF RecordInv, OpenInRun
<1>5. card'[a].kind = card[a].kind
  BY <1>4, CardsKept, NewCard
<1>6. ASSUME NEW g \in Groups
      PROVE  /\ row'[a][g].outcome = row[a][g].outcome
             /\ row'[a][g].prior = row[a][g].prior
             /\ row'[a][g].applied = row[a][g].applied
  BY <1>1, RowsKept, GroupSteps
<1> QED
  BY <1>2, <1>3, <1>5, <1>6

\* A card that has work under way is running, and so is not new.
LEMMA WorkIsRun ==
    ASSUME RunInv, NEW c \in Cards, NEW g \in Groups, work[c][g] # "idle"
    PROVE  /\ card[c].state = "running"
           /\ \E t \in Taps : Runs(t, c)
           /\ \A t \in Taps : tap[t].on = c => tap[t].pc # "check"
<1>1. PICK t \in Taps : Runs(t, c)
  BY DEF RunInv, NoRunNoWork
<1>2. card[c].state = "running"
  BY <1>1 DEF RunInv, TapsInv, RunningCard, Runs, Busy
<1>3. ASSUME NEW s \in Taps, tap[s].on = c, tap[s].pc = "check" PROVE FALSE
  <2>1. s = t
    BY <1>1, <1>3 DEF RunInv, TapsInv, OneHandler, Runs, Busy
  <2> QED
    BY <1>1, <1>3, <2>1 DEF Runs
<1> QED
  BY <1>1, <1>2, <1>3

\* Where work begins.
LEMMA WorkStarts ==
    ASSUME RunInv, [Next]_vars, NEW c \in Cards, NEW g \in Groups, work'[c][g] # "idle"
    PROVE  \/ work[c][g] # "idle"
           \/ ~Undo(c)
           \/ /\ row[card[c].of][g].outcome = "done"
              /\ card' = card
<1>0. TypeInv
  BY DEF RunInv
<1>1. ASSUME NEW t \in Taps, NEW h \in Groups, Group(t, h) \/ Panic(t, h)
      PROVE  work[c][g] # "idle"
  <2>0. PICK d \in Cards : d = tap[t].on
    BY <1>0, <1>1, GroupSteps
  <2>1. \/ SawStep(d, h) \/ SaveStep(d, h) \/ LandStep(d, h) \/ RefuseStep(d, h)
        \/ SettleStep(d, h) \/ LostStep(d, h)
    BY <1>0, <1>1, <2>0, GroupSteps
  <2>2. d # c \/ h # g => work'[c][g] = work[c][g]
    BY <1>0, <2>1, GroupKeeps
  <2>3. work[d][h] # "idle"
    BY <1>1, <2>0 DEF Group, Panic, LookAtTarget, SavePrior, CallTelegram, CutOff, Answer, InGroup
  <2> QED
    BY <2>2, <2>3
<1>2. ASSUME NEW t \in Taps, CheckAction(t) PROVE work[c][g] # "idle" \/ ~Undo(c)
  <2>1. ~Undo(tap[t].on) /\ (work' = work \/ \E f : work' = [work EXCEPT ![tap[t].on] = f])
    BY <1>2 DEF CheckAction
  <2> QED
    BY <1>0, <2>1 DEF TypeInv, TypeOK
<1>3. ASSUME NEW t \in Taps, ClaimUndo(t)
      PROVE  work[c][g] # "idle" \/ (row[card[c].of][g].outcome = "done" /\ card' = card)
  <2> DEFINE d == tap[t].on
  <2>1. \/ work' = work
        \/ /\ work' = [work EXCEPT ![d] =
                [h \in Groups |-> IF h \in DoneIn(card[d].of) THEN "todo" ELSE "idle"]]
           /\ card' = card
    BY <1>3 DEF ClaimUndo
  <2>2. d \in Cards
    BY <1>0, <1>3 DEF ClaimUndo, TypeInv, OnCard, LivePcs
  <2> HIDE DEF d
  <2>3. work \in [Cards -> [Groups -> WorkPcs]]
    BY <1>0 DEF TypeInv, TypeOK
  <2>4. PICK f : f = [h \in Groups |-> IF h \in DoneIn(card[d].of) THEN "todo" ELSE "idle"]
    OBVIOUS
  <2>5. CASE work' = [work EXCEPT ![d] = f] /\ card' = card
    <3>1. work'[c] = IF c = d THEN f ELSE work[c]
      BY <2>3, <2>5
    <3>2. f[g] # "idle" => g \in DoneIn(card[d].of)
      BY <2>4
    <3> QED
      BY <1>0, <2>5, <3>1, <3>2 DEF DoneIn
  <2> QED
    BY <2>1, <2>4, <2>5
<1>4. ASSUME NEW t \in Taps, Deliver(t) \/ Stop(t) PROVE work[c][g] # "idle"
  <2>1. tap[t].on \in Cards
    BY <1>0, <1>4 DEF Deliver, Stop, TypeInv, OnCard, LivePcs
  <2>2. Forget(tap[t].on) \/ UNCHANGED run
    BY <1>4 DEF Deliver, Stop
  <2> QED
    BY <1>0, <2>1, <2>2, ForgetIdle DEF run
<1>5. ASSUME NEW t \in Taps, Finishes(t) PROVE UNCHANGED <<work, look, reached>>
  BY <1>5, FinishIs DEF run
<1>6. CASE UNCHANGED <<work, look, reached>>
  BY <1>6
<1> QED
  BY <1>0, <1>1, <1>2, <1>3, <1>4, <1>5, <1>6, WorkKept DEF Next, Handler, Finishes

\* The undo cards of after a step: each is of a closed record, and a new one has no work.
LEMMA UndoCards ==
    ASSUME RunInv, RecordInv, UndoOfDone, [Next]_vars, NEW c \in Cards, Undo(c)'
    PROVE  /\ card'[c].of \in Cards
           /\ rec[card'[c].of].finished /\ card[card'[c].of].kind \in Revocable
           /\ Undo(c) => card'[c].of = card[c].of
           /\ ~Undo(c) => \A g \in Groups : work'[c][g] = "idle"
<1>0. TypeInv /\ TapsInv
  BY DEF RunInv
<1>1. CASE PostUndoCard
  <2>1. PICK b \in Cards, a \in Cards :
              /\ card[b].state = "none" /\ card[b].kind = "ban" /\ Undoable(a)
              /\ card'[b].kind = "undo" /\ card'[b].of = a
              /\ \A d \in Cards : d # b => card'[d] = card[d]
              /\ UNCHANGED run
    BY <1>0, <1>1, NewCard
  <2>2. CASE c = b
    <3>1. rec[a].finished /\ card[a].kind \in Revocable
      BY <2>1 DEF Undoable, Revocable
    <3>2. \A g \in Groups : work[c][g] = "idle"
      BY <2>1, <2>2, WorkIsRun
    <3> QED
      BY <2>1, <2>2, <3>1, <3>2 DEF run, Undo
  <2>3. CASE c # b
    <3>1. Undo(c) /\ card'[c].of = card[c].of
      BY <2>1, <2>3 DEF Undo
    <3> QED
      BY <1>0, <3>1 DEF UndoOfDone, TypeInv, OfCard
  <2> QED
    BY <2>2, <2>3
<1>2. CASE ~PostUndoCard
  <2>1. Undo(c) /\ card'[c].of = card[c].of
    BY <1>0, <1>2, CardsKept DEF Undo
  <2> QED
    BY <1>0, <2>1 DEF UndoOfDone, TypeInv, OfCard
<1> QED
  BY <1>1, <1>2

LEMMA UndoOfStep ==
    ASSUME RunInv, RecordInv, UndoOfDone, [Next]_vars
    PROVE  UndoOfDone'
<1>0. TypeInv
  BY DEF RunInv
<1>1. ASSUME NEW c \in Cards, Undo(c)'
      PROVE  rec'[card'[c].of].finished /\ card'[card'[c].of].kind \in Revocable
  BY <1>0, <1>1, UndoCards, ClosedKept
<1>2. ASSUME NEW c \in Cards, NEW g \in Groups, Undo(c)', work'[c][g] # "idle"
      PROVE  row'[card'[c].of][g].outcome = "done"
  <2>1. Undo(c) /\ card'[c].of = card[c].of
    BY <1>2, UndoCards
  <2>2. row[card[c].of][g].outcome = "done"
    BY <1>2, <2>1, WorkStarts DEF UndoOfDone
  <2> QED
    BY <1>0, <1>2, <2>1, <2>2, UndoCards, ClosedKept
<1> QED
  BY <1>1, <1>2 DEF UndoOfDone, Undo

-----------------------------------------------------------------------------
\* What Telegram tells of a target, now and when a call was made.

AllShaped ==
    \A g \in Groups : Shaped(tg[g]) /\ \A c \in Cards : Shaped(hist[c][g].before)

LEMMA ShapedInit == Init => AllShaped
<1> SUFFICES ASSUME Init, NEW g \in Groups
             PROVE  Shaped(tg[g]) /\ \A c \in Cards : Shaped(hist[c][g].before)
  BY DEF AllShaped
<1>1. Shaped(tg[g])
  BY StaffAssumption DEF Init
<1>2. \A c \in Cards : hist[c][g].before = Unknown
  BY DEF Init, NoCall
<1> QED
  BY <1>1, <1>2 DEF Shaped, Unknown, Plain

LEMMA ShapedStep ==
    ASSUME TypeInv, AllShaped, [Next]_vars
    PROVE  AllShaped'
<1>1. ASSUME NEW g \in Groups PROVE Shaped(tg'[g])
  BY TargetBecomes DEF AllShaped
<1>2. ASSUME NEW c \in Cards, NEW g \in Groups PROVE Shaped(hist'[c][g].before)
  <2>1. CASE LateCall
    <3>1. PICK l \in late : \E left : hist' = [hist EXCEPT ![l.card][l.group] =
                                                [before |-> tg[l.group], left |-> left]]
      BY <2>1 DEF LateCall
    <3>2. PICK left : hist' = [hist EXCEPT ![l.card][l.group] = [before |-> tg[l.group], left |-> left]]
      BY <3>1
    <3>3. l.card \in Cards /\ l.group \in Groups
      BY DEF TypeInv, TypeOK
    <3>4. hist'[c][g] = IF c = l.card /\ g = l.group THEN [before |-> tg[l.group], left |-> left]
                        ELSE hist[c][g]
      BY <3>2, <3>3 DEF TypeInv, TypeOK
    <3> QED
      BY <3>3, <3>4 DEF AllShaped
  <2>2. ASSUME NEW t \in Taps, NEW h \in Groups, Group(t, h) \/ Panic(t, h)
        PROVE  hist'[c][g] = hist[c][g] \/ hist'[c][g].before = tg[g]
    <3>1. PICK d \in Cards : d = tap[t].on
      BY <2>2, GroupSteps
    <3>2. \/ SawStep(d, h) \/ SaveStep(d, h) \/ LandStep(d, h) \/ RefuseStep(d, h)
          \/ SettleStep(d, h) \/ LostStep(d, h)
      BY <2>2, <3>1, GroupSteps
    <3>3. CASE d # c \/ h # g
      BY <3>2, <3>3, GroupKeeps
    <3>4. CASE d = c /\ h = g
      <4>1. CASE LandStep(c, g) \/ RefuseStep(c, g)
        BY <4>1, LandingTold
      <4>2. CASE ~(LandStep(c, g) \/ RefuseStep(c, g))
        BY <3>2, <3>4, <4>2 DEF SawStep, SaveStep, SettleStep, LostStep
      <4> QED
        BY <4>1, <4>2
    <3> QED
      BY <3>3, <3>4
  <2>3. CASE hist'[c][g] = hist[c][g] \/ hist'[c][g].before = tg[g]
    BY <2>3 DEF AllShaped
  <2>4. CASE PostUndoCard \/ CloseCard \/ LockExpires \/ LoseLock \/ SomebodyElse \/ Tick \/ UNCHANGED vars
    <3>1. hist' = hist
      BY <2>4 DEF PostUndoCard, CloseCard, LockExpires, LoseLock, SomebodyElse, Tick, vars, history
    <3> QED
      BY <2>3, <3>1
  <2>5. ASSUME NEW t \in Taps,
               \/ TakeLock(t) \/ MoveCard(t) \/ CheckAction(t) \/ CheckUndo(t) \/ ClaimUndo(t)
               \/ Finishes(t) \/ Deliver(t) \/ ReleaseLock(t) \/ RenewLock(t) \/ Stop(t) \/ Shutdown(t)
        PROVE  hist' = hist
    BY <2>5, FinishIs DEF TakeLock, MoveCard, CheckAction, CheckUndo, ClaimUndo, Deliver, ReleaseLock,
       RenewLock, Stop, Shutdown, history
  <2> QED
    BY <2>1, <2>2, <2>3, <2>4, <2>5 DEF Next, Handler, Finishes
<1> QED
  BY <1>1, <1>2 DEF AllShaped

-----------------------------------------------------------------------------
\* What the runs decided.  Until something overtakes the look, the call that a run is
\* about to make is its decision on what the target is now.

Ready(c, g) == work[c][g] \in {"looked", "saved"} /\ <<c, g>> \notin overtaken

ActionSaw ==
    \A a \in Cards, g \in Groups : ~Undo(a) /\ Ready(a, g) =>
        /\ look[a][g].verdict # Skip
        /\ \E lockdownBan \in BOOLEAN :
                look[a][g].verdict = ActionVerdict(card[a].kind, tg[g], rec[a].until, lockdownBan)

\* The undo card c is about to do what it decided on the record's part for g.
UndoDecided(c, g) ==
    LET a == card[c].of
        l == look[c][g]
    IN /\ l.verdict = UndoVerdict(card[a].kind, row[a][g].prior, rec[a].until, row[a][g].applied,
                                  tg[g], l.at)
       /\ l.verdict # Skip
       /\ l.at <= now /\ now <= l.at + MaxDelay

UndoSaw ==
    \A c \in Cards, g \in Groups : Undo(c) =>
        work[c][g] # "looked" /\ (Ready(c, g) => UndoDecided(c, g))

\* A look that is still good after a step of somebody else was so before it.
LEMMA LookKept ==
    ASSUME RunInv, RecordInv, [Next]_vars, NEW c \in Cards, NEW g \in Groups, Ready(c, g)',
           \A t \in Taps : Group(t, g) \/ Panic(t, g) => tap[t].on # c
    PROVE  /\ Ready(c, g) /\ work'[c][g] = work[c][g] /\ look'[c][g] = look[c][g]
           /\ tg'[g] = tg[g]
<1>0. TypeInv
  BY DEF RunInv
<1>1. work'[c][g] = work[c][g] /\ look'[c][g] = look[c][g]
  <2>1. ASSUME NEW t \in Taps, NEW h \in Groups, Group(t, h) \/ Panic(t, h)
        PROVE  work'[c][g] = work[c][g] /\ look'[c][g] = look[c][g]
    <3>1. PICK d \in Cards : d = tap[t].on
      BY <1>0, <2>1, GroupSteps
    <3>2. /\ \/ SawStep(d, h) \/ SaveStep(d, h) \/ LandStep(d, h) \/ RefuseStep(d, h)
             \/ SettleStep(d, h) \/ LostStep(d, h)
          /\ d # c \/ h # g
      BY <1>0, <2>1, <3>1, GroupSteps
    <3> QED
      BY <1>0, <3>2, GroupKeeps
  <2>2. work'[c][g] \notin {"todo", "idle"}
    BY DEF Ready
  <2> QED
    BY <1>0, <2>1, <2>2, WorkOnItsWay
<1>2. Ready(c, g)
  BY <1>0, <1>1, TargetMoves DEF Ready
<1>3. \A l \in late : ~(l.card = c /\ l.group = g)
  BY <1>2 DEF Ready, RecordInv, LateFailed
<1>4. tg'[g] = tg[g]
  BY <1>0, <1>2, <1>3, TargetMoves DEF Ready
<1> QED
  BY <1>1, <1>2, <1>4

\* What a step of the run itself gets ready.
LEMMA LookMade ==
    ASSUME RunInv, [Next]_vars, NEW c \in Cards, NEW g \in Groups, Ready(c, g)',
           NEW t \in Taps, Group(t, g) \/ Panic(t, g), tap[t].on = c
    PROVE  /\ UNCHANGED <<now, card, rec, tg>>
           /\ \/ SaveStep(c, g)
              \/ /\ row' = row
                 /\ work'[c][g] = IF Undo(c) THEN "saved" ELSE "looked"
                 /\ look'[c][g].at = IF Undo(c) THEN now ELSE 0
                 /\ \E lockdownBan \in BOOLEAN :
                        /\ look'[c][g].verdict = Decide(c, g, lockdownBan)
                        /\ Decide(c, g, lockdownBan) # Skip
<1>0. TypeInv
  BY DEF RunInv
<1>1. /\ UNCHANGED <<now, card, rec>>
      /\ \/ SawStep(c, g) \/ SaveStep(c, g) \/ LandStep(c, g) \/ RefuseStep(c, g)
         \/ SettleStep(c, g) \/ LostStep(c, g)
  BY <1>0, GroupSteps
<1>2. work'[c][g] \in {"looked", "saved"}
  BY DEF Ready
<1>3. ~LandStep(c, g) /\ ~RefuseStep(c, g)
  BY <1>0, <1>2, LandingTold
<1>4. ~SettleStep(c, g) /\ ~LostStep(c, g)
  BY <1>0, <1>2, SetResultKeeps DEF SettleStep, LostStep, TypeInv, TypeOK
<1>5. CASE SaveStep(c, g)
  BY <1>1, <1>5 DEF SaveStep
<1>6. CASE SawStep(c, g)
  <2>1. PICK lockdownBan \in BOOLEAN :
            /\ Decide(c, g, lockdownBan) # Skip
            /\ look' = [look EXCEPT ![c][g] = [saw |-> IF Undo(c) THEN Unknown ELSE tg[g],
                                               verdict |-> Decide(c, g, lockdownBan),
                                               at |-> IF Undo(c) THEN now ELSE 0]]
    BY <1>6 DEF SawStep
  <2>2. look'[c][g] = [saw |-> IF Undo(c) THEN Unknown ELSE tg[g],
                       verdict |-> Decide(c, g, lockdownBan),
                       at |-> IF Undo(c) THEN now ELSE 0]
    BY <1>0, <2>1 DEF TypeInv, TypeOK
  <2>3. /\ work'[c][g] = IF Undo(c) THEN "saved" ELSE "looked"
        /\ row' = row /\ tg' = tg
    BY <1>0, <1>6 DEF SawStep, Turns, TypeInv, TypeOK
  <2> QED
    BY <1>1, <2>1, <2>2, <2>3
<1> QED
  BY <1>1, <1>3, <1>4, <1>5, <1>6

LEMMA ActionSawStep ==
    ASSUME RunInv, RecordInv, ActionSaw, [Next]_vars
    PROVE  ActionSaw'
<1>0. TypeInv
  BY DEF RunInv
<1> SUFFICES ASSUME NEW a \in Cards, NEW g \in Groups, ~Undo(a)', Ready(a, g)'
             PROVE  /\ look'[a][g].verdict # Skip
                    /\ \E lockdownBan \in BOOLEAN :
                        look'[a][g].verdict = ActionVerdict(card'[a].kind, tg'[g], rec'[a].until, lockdownBan)
  BY DEF ActionSaw
<1>1. ~Undo(a)
  BY <1>0, ActionsKept
<1>2. CASE \A t \in Taps : Group(t, g) \/ Panic(t, g) => tap[t].on # a
  <2>1. /\ Ready(a, g) /\ look'[a][g] = look[a][g] /\ tg'[g] = tg[g]
    BY <1>2, LookKept
  <2>2. /\ card[a].state = "running"
        /\ \A t \in Taps : tap[t].on = a => tap[t].pc # "check"
    BY <2>1, WorkIsRun DEF Ready
  <2>3. card'[a].kind = card[a].kind
    BY <1>0, <2>2, CardsKept, NewCard
  <2>4. rec'[a].until = rec[a].until
    BY <1>0, <2>2, EndsKept
  <2> QED
    BY <1>1, <2>1, <2>3, <2>4 DEF ActionSaw
<1>3. ASSUME NEW t \in Taps, Group(t, g) \/ Panic(t, g), tap[t].on = a
      PROVE  /\ look'[a][g].verdict # Skip
             /\ \E lockdownBan \in BOOLEAN :
                  look'[a][g].verdict = ActionVerdict(card'[a].kind, tg'[g], rec'[a].until, lockdownBan)
  <2>1. UNCHANGED <<card, rec, tg>>
    BY <1>3, LookMade
  <2>2. CASE SaveStep(a, g)
    <3>1. work[a][g] = "looked" /\ overtaken' = overtaken
      BY <2>2 DEF SaveStep, Turns
    <3>2. look' = [look EXCEPT ![a][g] = [look[a][g] EXCEPT !.saw = Unknown]]
      BY <1>0, <2>2 DEF SaveStep, TypeInv, TypeOK
    <3>3. look'[a][g] = [look[a][g] EXCEPT !.saw = Unknown] /\ look[a][g] \in Look
      BY <1>0, <3>2, Shapes DEF TypeInv, TypeOK
    <3>4. look'[a][g].verdict = look[a][g].verdict
      BY <3>3 DEF Look
    <3>5. Ready(a, g)
      BY <3>1 DEF Ready
    <3> QED
      BY <1>1, <2>1, <3>4, <3>5 DEF ActionSaw
  <2>3. CASE \E lockdownBan \in BOOLEAN :
                        /\ look'[a][g].verdict = Decide(a, g, lockdownBan)
                        /\ Decide(a, g, lockdownBan) # Skip
    BY <1>1, <2>1, <2>3 DEF Decide, KindOf, RecordOf
  <2> QED
    BY <1>3, <2>2, <2>3, LookMade
<1> QED
  BY <1>2, <1>3

LEMMA UndoSawStep ==
    ASSUME RunInv, RecordInv, UndoOfDone, UndoSaw, [Next]_vars
    PROVE  UndoSaw'
<1>0. TypeInv
  BY DEF RunInv
<1>1. ASSUME NEW c \in Cards, NEW g \in Groups, Undo(c)' PROVE work'[c][g] # "looked"
  <2>1. SUFFICES ASSUME work'[c][g] = "looked" PROVE FALSE
    OBVIOUS
  <2>2. Undo(c)
    BY <1>1, <2>1, UndoCards
  <2>3. work[c][g] # "looked"
    BY <2>2 DEF UndoSaw
  <2>4. ASSUME NEW t \in Taps, NEW h \in Groups, Group(t, h) \/ Panic(t, h) PROVE FALSE
    <3>1. PICK d \in Cards : d = tap[t].on
      BY <1>0, <2>4, GroupSteps
    <3>2. \/ SawStep(d, h) \/ SaveStep(d, h) \/ LandStep(d, h) \/ RefuseStep(d, h)
          \/ SettleStep(d, h) \/ LostStep(d, h)
      BY <1>0, <2>4, <3>1, GroupSteps
    <3>3. d = c /\ h = g
      BY <1>0, <2>1, <2>3, <3>2, GroupKeeps
    <3>4. ~SawStep(c, g) /\ ~SaveStep(c, g) /\ ~LostStep(c, g)
      BY <1>0, <2>1, <2>2, <2>3 DEF SawStep, SaveStep, LostStep, Turns, TypeInv, TypeOK
    <3>5. ~LandStep(c, g) /\ ~RefuseStep(c, g)
      BY <1>0, <2>1, LandingTold
    <3>6. ~SettleStep(c, g)
      BY <1>0, <2>1, SetResultKeeps DEF SettleStep
    <3> QED
      BY <3>2, <3>3, <3>4, <3>5, <3>6
  <2> QED
    BY <1>0, <2>1, <2>3, <2>4, WorkOnItsWay
<1>2. ASSUME NEW c \in Cards, NEW g \in Groups, Undo(c)', Ready(c, g)' PROVE UndoDecided(c, g)'
  <2>1. Undo(c)
    BY <1>2, UndoCards DEF Ready
  <2>2. card'[c].of = card[c].of
    BY <1>2, <2>1, UndoCards
  <2>3. PICK a \in Cards : a = card[c].of
    BY <1>0, <2>1 DEF TypeInv, OfCard
  <2>4. rec[a].finished
    BY <2>1, <2>3 DEF UndoOfDone
  <2>5. /\ rec'[a].until = rec[a].until /\ card'[a].kind = card[a].kind
        /\ row'[a][g].prior = row[a][g].prior /\ row'[a][g].applied = row[a][g].applied
    BY <1>0, <2>4, ClosedKept
  <2>6. CASE \A t \in Taps : Group(t, g) \/ Panic(t, g) => tap[t].on # c
    <3>1. /\ Ready(c, g) /\ look'[c][g] = look[c][g] /\ tg'[g] = tg[g]
      BY <1>2, <2>6, LookKept
    <3>2. work[c][g] = "saved"
      BY <2>1, <3>1 DEF Ready, UndoSaw
    <3>3. UndoDecided(c, g)
      BY <2>1, <3>1 DEF UndoSaw
    <3>4. look[c][g].at \in Nat /\ now \in Nat
      BY <1>0, Shapes DEF TypeInv, TypeOK, Look
    <3>5. look[c][g].at <= now' /\ now' <= look[c][g].at + MaxDelay
      <4>1. CASE now' = now
        BY <3>3, <4>1 DEF UndoDecided
      <4>2. CASE Tick /\ now' = now + 1
        <5>1. now < look[c][g].at + MaxDelay
          BY <2>1, <3>2, <4>2 DEF Tick
        <5> QED
          BY <3>3, <3>4, <4>2, <5>1, StaffAssumption DEF UndoDecided
      <4> QED
        BY <1>0, <4>1, <4>2, TimeMoves
    <3> QED
      BY <2>2, <2>3, <2>5, <3>1, <3>3, <3>5 DEF UndoDecided
  <2>7. ASSUME NEW t \in Taps, Group(t, g) \/ Panic(t, g), tap[t].on = c PROVE UndoDecided(c, g)'
    <3>1. UNCHANGED <<now, card, rec, tg>>
      BY <1>2, <2>7, LookMade
    <3>2. ~SaveStep(c, g)
      BY <2>1 DEF SaveStep, Turns, UndoSaw
    <3>3. PICK lockdownBan \in BOOLEAN :
            /\ look'[c][g].verdict = Decide(c, g, lockdownBan)
            /\ Decide(c, g, lockdownBan) # Skip
            /\ look'[c][g].at = now
      BY <1>2, <2>1, <2>7, <3>2, LookMade
    <3>4. Decide(c, g, lockdownBan) =
            UndoVerdict(card[a].kind, row[a][g].prior, rec[a].until, row[a][g].applied, tg[g], now)
      BY <2>1, <2>3 DEF Decide, KindOf, RecordOf
    <3>5. now \in Nat /\ now <= now + MaxDelay
      BY <1>0, StaffAssumption DEF TypeInv, TypeOK
    <3> QED
      BY <2>2, <2>3, <2>5, <3>1, <3>3, <3>4, <3>5 DEF UndoDecided
  <2> QED
    BY <2>6, <2>7
<1>3. \A c \in Cards, g \in Groups : Undo(c)' =>
            work'[c][g] # "looked" /\ (Ready(c, g)' => UndoDecided(c, g)')
  BY <1>1, <1>2
<1> QED
  BY <1>3 DEF UndoSaw

-----------------------------------------------------------------------------
\* What a call left.  A dated ban or mute is what the record says, or it was made one
\* for good, and then nothing restores the recorded end by chance.

EndStands(end, until, s) ==
    end = until \/ (end = 0 /\ until # 0 /\ until < now + MinTerm /\ s.until # until)

LeavesBehind(kind, left, until, s) ==
    /\ kind = "ban" => left = Kicked(left.until) /\ EndStands(left.until, until, s)
    /\ kind = "mute" => left = Restricted(left.in, TRUE, left.until) /\ EndStands(left.until, until, s)
    /\ kind \in {"unban", "unmute"} => Decision(left) = Left

\* The action of card a took effect in g, in its run's memory or in its closed record.
TookEffect(a, g) ==
    work[a][g] \in {"landed", "done"} \/ (rec[a].finished /\ row[a][g].outcome = "done")

CallLeft ==
    \A a \in Cards, g \in Groups :
        ~Undo(a) /\ <<a, g>> \notin overtaken /\ TookEffect(a, g) =>
            LeavesBehind(card[a].kind, hist[a][g].left, rec[a].until, tg[g])

\* What the call of an action's decision leaves.
LEMMA DecisionLeaves ==
    ASSUME NEW kind \in ActionKinds, NEW s \in TargetState, NEW until \in Nat,
           NEW lockdownBan \in BOOLEAN, now \in Nat, NEW v, NEW left,
           v = ActionVerdict(kind, s, until, lockdownBan), v # Skip,
           left = Applied(v, s, now)
    PROVE  LeavesBehind(kind, left, until, left)
<1>1. s # Administrator
  BY DEF ActionVerdict
<1>2. EndAt(until, now) = until \/ (EndAt(until, now) = 0 /\ until # 0 /\ until < now + MinTerm)
  BY TermsAssumption DEF EndAt
<1>3. CASE kind = "ban"
  <2>1. v = Do("ban", until)
    BY <1>1, <1>3 DEF ActionVerdict, BanVerdict
  <2>2. left = Kicked(EndAt(until, now))
    BY <1>1, <2>1 DEF Applied, Do
  <2>3. left.until = EndAt(until, now)
    BY <2>2 DEF Kicked, Left, Plain
  <2> QED
    BY <1>2, <1>3, <2>2, <2>3 DEF LeavesBehind, EndStands
<1>4. CASE kind = "mute"
  <2>1. v = Do("mute", until)
    BY <1>1, <1>4 DEF ActionVerdict, MuteVerdict
  <2>2. left = Restricted(s.in, TRUE, EndAt(until, now))
    BY <1>1, <2>1 DEF Applied, Do
  <2>3. left.until = EndAt(until, now) /\ left.in = s.in
    BY <2>2 DEF Restricted
  <2> QED
    BY <1>2, <1>4, <2>2, <2>3 DEF LeavesBehind, EndStands
<1>5. CASE kind = "unban"
  <2>1. v = Do("unban", 0) /\ s.status = "kicked"
    BY <1>1, <1>5 DEF ActionVerdict, UnbanVerdict
  <2>2. left = Left
    BY <1>1, <2>1 DEF Applied, Do
  <2> QED
    BY <1>5, <2>2 DEF LeavesBehind, Decision, Left, Plain
<1>6. CASE kind = "unmute"
  <2>1. v = Do("unmute", 0)
    BY <1>1, <1>6 DEF ActionVerdict, UnmuteVerdict
  <2>2. left = Free(s.in)
    BY <1>1, <2>1 DEF Applied, Do
  <2> QED
    BY <1>6, <2>2 DEF LeavesBehind, Decision, Free, Member, Left, Plain
<1>7. CASE kind = "kick"
  BY <1>7 DEF LeavesBehind
<1> QED
  BY <1>3, <1>4, <1>5, <1>6, <1>7 DEF ActionKinds

\* A call that took effect by a step of somebody else did so before it.
LEMMA EffectKept ==
    ASSUME RunInv, RecordInv, [Next]_vars, NEW a \in Cards, NEW g \in Groups,
           ~Undo(a), TookEffect(a, g)',
           \A t \in Taps : Group(t, g) \/ Panic(t, g) => tap[t].on # a
    PROVE  TookEffect(a, g) /\ hist'[a][g] = hist[a][g]
<1>0. TypeInv
  BY DEF RunInv
<1>1. ASSUME work'[a][g] \in {"landed", "done"} PROVE TookEffect(a, g)
  <2>1. ASSUME NEW t \in Taps, NEW h \in Groups, Group(t, h) \/ Panic(t, h)
        PROVE  work'[a][g] = work[a][g]
    <3>1. PICK d \in Cards : d = tap[t].on
      BY <1>0, <2>1, GroupSteps
    <3>2. /\ \/ SawStep(d, h) \/ SaveStep(d, h) \/ LandStep(d, h) \/ RefuseStep(d, h)
             \/ SettleStep(d, h) \/ LostStep(d, h)
          /\ d # a \/ h # g
      BY <1>0, <2>1, <3>1, GroupSteps
    <3> QED
      BY <1>0, <3>2, GroupKeeps
  <2>2. work'[a][g] = work[a][g]
    BY <1>0, <1>1, <2>1, WorkOnItsWay
  <2> QED
    BY <1>1, <2>2 DEF TookEffect
<1>2. ASSUME rec'[a].finished /\ row'[a][g].outcome = "done" PROVE TookEffect(a, g)
  <2>1. CASE rec[a].finished
    BY <1>0, <1>2, <2>1, ClosedKept DEF TookEffect
  <2>2. CASE ~rec[a].finished
    <3>1. PICK t \in Taps : Finish(t) /\ tap[t].on = a /\ FinalizeAction(a)
      BY <1>0, <1>2, <2>2, FinishedKept
    <3>2. /\ tap[t].pc = "run"
          /\ \A h \in Groups : work[a][h] \in Settled \cup {"idle"}
      BY <3>1 DEF Finish, GroupsEnded
    <3>3. tap[t] = [pc |-> "run", on |-> a]
      BY <1>0, <3>1, <3>2, TapIs
    <3>4. work[a][g] # "idle"
      BY <3>3 DEF RecordInv, OpenInRun
    <3>5. row'[a][g] = AllResults(a)[g]
      BY <1>0, <3>1 DEF FinalizeAction, TypeInv, TypeOK
    <3>6. Swept(work[a][g]) = "done"
      BY <1>0, <1>2, <3>2, <3>4, <3>5, AllResultsKeep
    <3> QED
      BY <3>6 DEF Swept, TookEffect
  <2> QED
    BY <2>1, <2>2
<1>3. TookEffect(a, g)
  BY <1>1, <1>2 DEF TookEffect
<1>4. \A l \in late : ~(l.card = a /\ l.group = g)
  BY <1>3 DEF TookEffect, RecordInv, LateFailed
<1> QED
  BY <1>0, <1>3, <1>4, HistoryMoves

LEMMA CallLeftStep ==
    ASSUME RunInv, RecordInv, AllShaped, ActionSaw, CallLeft, [Next]_vars
    PROVE  CallLeft'
<1>0. TypeInv
  BY DEF RunInv
<1> SUFFICES ASSUME NEW a \in Cards, NEW g \in Groups,
                    ~Undo(a)', <<a, g>> \notin overtaken', TookEffect(a, g)'
             PROVE  LeavesBehind(card[a].kind, hist[a][g].left, rec[a].until, tg[g])'
  BY DEF CallLeft
<1>1. ~Undo(a) /\ <<a, g>> \notin overtaken
  BY <1>0, ActionsKept, TargetMoves
<1>2. CASE \A t \in Taps : Group(t, g) \/ Panic(t, g) => tap[t].on # a
  <2>1. TookEffect(a, g) /\ hist'[a][g] = hist[a][g]
    BY <1>1, <1>2, EffectKept
  <2>2. rec'[a].until = rec[a].until /\ card'[a].kind = card[a].kind
    <3>1. CASE rec[a].finished
      BY <1>0, <3>1, ClosedKept
    <3>2. CASE work[a][g] # "idle"
      <4>1. /\ card[a].state = "running"
            /\ \A t \in Taps : tap[t].on = a => tap[t].pc # "check"
        BY <3>2, WorkIsRun
      <4>2. card'[a].kind = card[a].kind
        BY <1>0, <4>1, CardsKept, NewCard
      <4> QED
        BY <1>0, <4>1, <4>2, EndsKept
    <3> QED
      BY <2>1, <3>1, <3>2 DEF TookEffect
  <2>3. LeavesBehind(card[a].kind, hist[a][g].left, rec[a].until, tg[g])
    BY <1>1, <2>1 DEF CallLeft
  <2>4. tg'[g].until \in {tg[g].until, 0} \/ tg'[g].until >= now + MinTerm
    BY <1>0, TargetBecomes DEF AllShaped
  <2>5. /\ now \in Nat /\ MinTerm \in Nat /\ rec[a].until \in Nat /\ tg'[g].until \in Nat
        /\ now' \in Nat /\ now' >= now
    <3>1. now \in Nat /\ rec[a].until \in Nat
      BY <1>0, Shapes DEF TypeInv, TypeOK, Record
    <3>2. tg'[g].until \in Nat
      BY <1>0, TypeStep, Shapes DEF TypeInv, TypeOK, TargetState
    <3>3. now' \in Nat /\ now' >= now
      BY <1>0, <3>1, TimeMoves
    <3> QED
      BY <3>1, <3>2, <3>3, TermsAssumption
  <2>6. ASSUME NEW end, EndStands(end, rec[a].until, tg[g])
        PROVE  end = rec[a].until \/ (end = 0 /\ rec[a].until # 0 /\ rec[a].until < now' + MinTerm
                                      /\ tg'[g].until # rec[a].until)
    BY <2>4, <2>5, <2>6 DEF EndStands
  <2> QED
    BY <2>1, <2>2, <2>3, <2>6 DEF LeavesBehind, EndStands
<1>3. ASSUME NEW t \in Taps, Group(t, g) \/ Panic(t, g), tap[t].on = a
      PROVE  LeavesBehind(card[a].kind, hist[a][g].left, rec[a].until, tg[g])'
  <2>1. /\ tap[t].pc = "run" /\ UNCHANGED <<now, card, rec, tap>>
        /\ \/ SawStep(a, g) \/ SaveStep(a, g) \/ LandStep(a, g) \/ RefuseStep(a, g)
           \/ SettleStep(a, g) \/ LostStep(a, g)
    BY <1>0, <1>3, GroupSteps
  <2>2. ~rec'[a].finished
    BY <1>3, <2>1 DEF RecordInv, OpenInRun
  <2>3. work'[a][g] \in {"landed", "done"}
    BY <2>2 DEF TookEffect
  <2>4. CASE LandStep(a, g)
    <3>1. /\ work[a][g] = "saved"
          /\ tg'[g] = Applied(look[a][g].verdict, tg[g], now)
          /\ hist'[a][g].left = tg'[g]
      BY <1>0, <2>4, LandingTold
    <3>2. Ready(a, g)
      BY <1>1, <3>1 DEF Ready
    <3>3. PICK lockdownBan \in BOOLEAN :
            /\ look[a][g].verdict # Skip
            /\ look[a][g].verdict = ActionVerdict(card[a].kind, tg[g], rec[a].until, lockdownBan)
      BY <1>1, <3>2 DEF ActionSaw
    <3>4. card[a].kind \in ActionKinds /\ tg[g] \in TargetState /\ rec[a].until \in Nat /\ now \in Nat
      BY <1>0, <1>1, Shapes DEF TypeInv, TypeOK, Card, Undo, Record
    <3>5. LeavesBehind(card[a].kind, tg'[g], rec[a].until, tg'[g])
      BY <3>1, <3>3, <3>4, DecisionLeaves
    <3> QED
      BY <2>1, <3>1, <3>5 DEF LeavesBehind, EndStands
  <2>5. CASE SettleStep(a, g)
    <3>1. work[a][g] = "landed" /\ hist' = hist /\ tg' = tg
      BY <1>0, <2>3, <2>5, SetResultKeeps DEF SettleStep
    <3>2. LeavesBehind(card[a].kind, hist[a][g].left, rec[a].until, tg[g])
      BY <1>1, <3>1 DEF CallLeft, TookEffect
    <3> QED
      BY <2>1, <3>1, <3>2 DEF LeavesBehind, EndStands
  <2>6. ~SawStep(a, g) /\ ~SaveStep(a, g) /\ ~LostStep(a, g)
    BY <1>0, <1>1, <2>3 DEF SawStep, SaveStep, LostStep, Turns, TypeInv, TypeOK
  <2>7. ~RefuseStep(a, g)
    BY <1>0, <2>3, LandingTold
  <2> QED
    BY <2>1, <2>4, <2>5, <2>6, <2>7
<1> QED
  BY <1>2, <1>3

-----------------------------------------------------------------------------
\* What an undo replaces and what it puts back.

\* What somebody decided is the status, the permission and the end.
LEMMA DecisionTold ==
    ASSUME NEW s \in TargetState, NEW r \in TargetState,
           s.status = r.status, s.muted = r.muted, s.until = r.until
    PROVE  Decision(s) = Decision(r)
<1> DEFINE e == [s EXCEPT !.in = FALSE]
           f == [r EXCEPT !.in = FALSE]
<1>1. e \in TargetState /\ f \in TargetState
  BY DEF TargetState
<1>2. e.status = s.status /\ e.in = FALSE /\ e.muted = s.muted /\ e.until = s.until
  BY DEF TargetState
<1>3. f.status = r.status /\ f.in = FALSE /\ f.muted = r.muted /\ f.until = r.until
  BY DEF TargetState
<1> HIDE DEF e, f
<1>4. e = f
  BY <1>1, <1>2, <1>3 DEF TargetState
<1> QED
  BY <1>4 DEF Decision, e, f

\* What looks like what the action left is that, or one for good that may be its own.
LEMMA UndoReplaces ==
    ASSUME NEW kind \in Revocable, NEW s \in TargetState, NEW left \in TargetState,
           NEW until \in Nat, NEW applied \in Nat, Shaped(s),
           LeftBehind(kind, until, applied, s), LeavesBehind(kind, left, until, s)
    PROVE  \/ Decision(s) = Decision(left)
           \/ s.until = 0 /\ until # 0 /\ until < applied + MinTerm
<1>1. CASE kind = "ban"
  <2>1. s.status = "kicked" /\ ~s.muted /\ SameUntil(s.until, until, applied)
    BY <1>1 DEF LeftBehind, Shaped, TargetState
  <2>2. left.status = "kicked" /\ ~left.muted /\ EndStands(left.until, until, s)
    BY <1>1 DEF LeavesBehind, Kicked, Left, Plain
  <2>3. CASE s.until = until
    <3>1. s.until = left.until
      BY <2>2, <2>3 DEF EndStands
    <3> QED
      BY <2>1, <2>2, <3>1, DecisionTold DEF TargetState
  <2>4. CASE s.until # until
    BY <2>1, <2>4 DEF SameUntil
  <2> QED
    BY <2>3, <2>4
<1>2. CASE kind = "mute"
  <2>1. s.status = "restricted" /\ s.muted /\ SameUntil(s.until, until, applied)
    BY <1>2 DEF LeftBehind
  <2>2. left.status = "restricted" /\ left.muted /\ EndStands(left.until, until, s)
    BY <1>2 DEF LeavesBehind, Restricted
  <2>3. CASE s.until = until
    <3>1. s.until = left.until
      BY <2>2, <2>3 DEF EndStands
    <3> QED
      BY <2>1, <2>2, <3>1, DecisionTold DEF TargetState
  <2>4. CASE s.until # until
    BY <2>1, <2>4 DEF SameUntil
  <2> QED
    BY <2>3, <2>4
<1>3. CASE kind \in {"unban", "unmute"}
  <2>1. Decision(left) = Left
    BY <1>3 DEF LeavesBehind
  <2>2. Decision(s) = Left
    BY <1>3 DEF LeftBehind, Decision
  <2> QED
    BY <2>1, <2>2
<1> QED
  BY <1>1, <1>2, <1>3 DEF Revocable

\* An end that is not near at the look is not near at the call.
LEMMA EndSurvives ==
    ASSUME NEW end \in Nat, NEW at \in Nat, now \in Nat, now <= at + MaxDelay,
           MaxDelay + MinTerm <= UndoMargin + 1, ~Ended(end, at)
    PROVE  EndAt(end, now) = end
BY StaffAssumption, TermsAssumption DEF EndAt, Ended

LEMMA LiftsLeave ==
    ASSUME NEW s, NEW at, s # Administrator
    PROVE  /\ Applied(Do("unmute", 0), s, at) = Free(s.in)
           /\ s.status = "kicked" => Applied(Do("unban", 0), s, at) = Left
BY DEF Applied, Do

LEMMA UndoLeaves ==
    ASSUME NEW kind \in Revocable, NEW prior \in TargetState, NEW s \in TargetState, NEW at \in Nat,
           now \in Nat, at <= now, now <= at + MaxDelay,
           MaxDelay + MinTerm <= UndoMargin + 1,
           Shaped(prior), s # Administrator, kind = "ban" => s.status = "kicked",
           NEW v, v = PutBack(kind, prior, at), v # Skip
    PROVE  PutsBack(prior, Applied(v, s, now))
<1> DEFINE running == ~Ended(prior.until, at)
<1>0. prior.until \in Nat /\ prior.muted \in BOOLEAN /\ s.in \in BOOLEAN
  BY DEF TargetState
<1>1. CASE kind \in {"ban", "unban"} /\ prior.status = "kicked" /\ running
  <2>1. v = Do("ban", prior.until)
    BY <1>1 DEF PutBack
  <2>2. Applied(v, s, now) = Kicked(prior.until)
    BY <1>0, <1>1, <2>1, EndSurvives DEF Applied, Do
  <2>3. prior.muted = FALSE
    BY <1>0, <1>1 DEF Shaped
  <2> QED
    BY <1>1, <2>2, <2>3 DEF PutsBack, Kicked, Left, Plain
<1>2. CASE kind \in {"ban", "mute", "unmute"} /\ prior.status = "restricted" /\ running
  <2>1. v = RestoreOf(prior)
    BY <1>2 DEF PutBack
  <2>2. Applied(v, s, now) = Restricted(s.in, prior.muted, prior.until)
    BY <1>0, <1>2, <2>1, EndSurvives DEF Applied, RestoreOf
  <2> QED
    BY <1>2, <2>2 DEF PutsBack, Restricted
<1>3. CASE \/ kind = "unban" /\ ~(prior.status = "kicked" /\ running)
           \/ kind = "unmute" /\ ~(prior.status = "restricted" /\ running)
  BY <1>3 DEF PutBack
<1>4. ASSUME ~running PROVE Ended(prior.until, now)
  BY <1>0, <1>4, TermsAssumption DEF Ended
<1>5. CASE kind = "ban" /\ ~(prior.status \in {"kicked", "restricted"} /\ running)
  <2>1. prior.status # "administrator" /\ v = Do("unban", 0)
    BY <1>5 DEF PutBack
  <2>2. Applied(v, s, now) = Left
    BY <1>5, <2>1, LiftsLeave
  <2>3. Decision(prior) = Left \/ Ended(prior.until, now)
    <3>1. CASE prior.status \in {"member", "left"}
      BY <3>1 DEF Decision
    <3>2. CASE prior.status \in {"kicked", "restricted"}
      BY <1>4, <1>5, <3>2
    <3> QED
      BY <2>1, <3>1, <3>2 DEF TargetState
  <2>4. Applied(v, s, now).status = "left"
    BY <2>2 DEF Left, Plain
  <2> QED
    BY <2>3, <2>4 DEF PutsBack
<1>6. CASE kind = "mute" /\ ~(prior.status = "restricted" /\ running)
  <2>1. prior.status \in {"member", "restricted"} /\ v = Do("unmute", 0)
    BY <1>6 DEF PutBack
  <2>2. Applied(v, s, now) = Free(s.in)
    BY <2>1, LiftsLeave
  <2>3. Decision(prior) = Left \/ Ended(prior.until, now)
    BY <1>4, <1>6, <2>1 DEF Decision
  <2>4. Free(s.in).status \in {"member", "left"}
    BY DEF Free, Member, Left, Plain
  <2> QED
    BY <2>2, <2>3, <2>4 DEF PutsBack
<1> QED
  BY <1>1, <1>2, <1>3, <1>5, <1>6 DEF Revocable

-----------------------------------------------------------------------------
UndoHolds == RecordHolds /\ AllShaped /\ UndoOfDone /\ ActionSaw /\ UndoSaw /\ CallLeft

LEMMA UndoInit == Init => UndoOfDone /\ ActionSaw /\ UndoSaw /\ CallLeft
<1> SUFFICES ASSUME Init PROVE UndoOfDone /\ ActionSaw /\ UndoSaw /\ CallLeft
  OBVIOUS
<1>1. ASSUME NEW c \in Cards PROVE ~Undo(c)
  <2>1. PICK command \in Commands : card = Posted(command)
    BY DEF Init
  <2>2. card[c].kind = "ban" \/ (c \in 1 .. MaxActions /\ card[c].kind = command[c].kind)
    <3>1. CASE c > MaxActions
      BY <2>1, <3>1 DEF Posted, NoCard
    <3>2. CASE ~(c > MaxActions)
      <4>1. card[c] = [state |-> "pending", kind |-> command[c].kind,
                       length |-> command[c].length, of |-> Nobody]
        BY <2>1, <3>2 DEF Posted, NoCard
      <4> QED
        BY <3>2, <4>1, StaffAssumption DEF Cards
    <3> QED
      BY <3>1, <3>2
  <2>3. command \in [1 .. MaxActions -> [kind : ActionKinds, length : Nat]]
    BY StaffAssumption
  <2> QED
    BY <2>2, <2>3 DEF Undo, ActionKinds
<1>2. \A c \in Cards, g \in Groups : work[c][g] = "idle"
  BY DEF Init
<1>3. \A c \in Cards : ~rec[c].finished
  BY DEF Init, NoRecord
<1> QED
  BY <1>1, <1>2, <1>3 DEF UndoOfDone, ActionSaw, UndoSaw, CallLeft, Ready, TookEffect

LEMMA UndoAlwaysHolds == Spec => []UndoHolds
<1>1. Init => UndoHolds
  BY TypeInit, WorkInit, LockInit, CallsInit, RecordInit, ShapedInit, UndoInit
     DEF UndoHolds, RecordHolds, RunInv
<1>2. RecordHolds /\ [Next]_vars => RecordHolds'
  BY TypeStep, HandsStep, WorkStep, LockStep, CallsStep, OpenStep, SeenStep, LateStep, TrueStep
     DEF RecordHolds, RunInv, RecordInv
<1>3. UndoHolds /\ [Next]_vars => UndoHolds'
  <2> SUFFICES ASSUME UndoHolds, [Next]_vars PROVE UndoHolds'
    OBVIOUS
  <2>1. RunInv /\ RecordInv /\ TypeInv
    BY DEF UndoHolds, RecordHolds, RunInv
  <2> QED
    BY <1>2, <2>1, ShapedStep, UndoOfStep, ActionSawStep, UndoSawStep, CallLeftStep DEF UndoHolds
<1> QED
  BY <1>1, <1>3, PTL DEF Spec

\* A step in which a call lands is one of the card's own run.
LEMMA LandsInStep ==
    ASSUME TypeInv, [Next]_vars, NEW c \in Cards, NEW g \in Groups, LandsNow(c, g)
    PROVE  LandStep(c, g)
<1>1. work[c][g] = "saved" /\ work'[c][g] = "landed"
  BY DEF LandsNow
<1>2. PICK t \in Taps, h \in Groups : Group(t, h) \/ Panic(t, h)
  BY <1>1, WorkOnItsWay
<1>3. PICK d \in Cards : d = tap[t].on
  BY <1>2, GroupSteps
<1>4. \/ SawStep(d, h) \/ SaveStep(d, h) \/ LandStep(d, h) \/ RefuseStep(d, h)
      \/ SettleStep(d, h) \/ LostStep(d, h)
  BY <1>2, <1>3, GroupSteps
<1>5. d = c /\ h = g
  BY <1>1, <1>4, GroupKeeps
<1>6. ~SawStep(c, g) /\ ~SaveStep(c, g) /\ ~LostStep(c, g)
  BY <1>1 DEF SawStep, SaveStep, LostStep, Turns, TypeInv, TypeOK
<1>7. ~RefuseStep(c, g) /\ ~SettleStep(c, g)
  BY <1>1, LandingTold, SetResultKeeps DEF SettleStep
<1> QED
  BY <1>4, <1>5, <1>6, <1>7

\* In every instance an undo call that lands on what the run saw, of an action whose
\* call did so too, replaces what the action left there and nobody's later decision,
\* and puts back what the action had replaced, with its own end (decideStaffUndo): as
\* long as the call comes so soon after the look that the margin covers the delay.
THEOREM UndoRestores ==
    ASSUME MaxDelay + MinTerm <= UndoMargin + 1
    PROVE  Spec => UndoPutsBack
<1>1. ASSUME UndoHolds, [Next]_vars, NEW c \in Cards, NEW g \in Groups,
             LandsNow(c, g), Undo(c), {<<c, g>>, <<card[c].of, g>>} \cap overtaken = {}
      PROVE  LET a == card[c].of
                 call == hist[a][g]
             IN /\ \/ Decision(tg[g]) = Decision(call.left)
                   \/ tg[g].until = 0 /\ MayBeForGood(a, g)
                /\ PutsBack(call.before, tg'[g])
  <2>0. RunInv /\ RecordInv /\ TypeInv
    BY <1>1 DEF UndoHolds, RecordHolds, RunInv
  <2>1. PICK a \in Cards : a = card[c].of
    BY <1>1, <2>0 DEF TypeInv, OfCard
  <2>2. work[c][g] = "saved"
    BY <1>1 DEF LandsNow
  <2>3. rec[a].finished /\ card[a].kind \in Revocable /\ row[a][g].outcome = "done"
    BY <1>1, <2>1, <2>2 DEF UndoHolds, UndoOfDone
  <2>4. row[a][g].prior = hist[a][g].before
    BY <1>1, <2>0, <2>1, <2>3 DEF RecordInv, RecordIsTrue
  <2>5. UndoDecided(c, g)
    BY <1>1, <2>2 DEF UndoHolds, UndoSaw, Ready
  <2>6. ~Undo(a)
    BY <2>3 DEF Undo, Revocable
  <2>7. LeavesBehind(card[a].kind, hist[a][g].left, rec[a].until, tg[g])
    BY <1>1, <2>1, <2>3, <2>6 DEF UndoHolds, CallLeft, TookEffect
  <2>8. PICK prior, left, s, until, applied, at :
            /\ prior = hist[a][g].before /\ left = hist[a][g].left /\ s = tg[g]
            /\ until = rec[a].until /\ applied = row[a][g].applied /\ at = look[c][g].at
    OBVIOUS
  <2>9. PICK kind \in Revocable : kind = card[a].kind
    BY <2>3
  <2>10. /\ prior \in TargetState \cup {Unknown} /\ left \in TargetState \cup {Unknown}
         /\ s \in TargetState /\ until \in Nat /\ applied \in Nat /\ at \in Nat /\ now \in Nat
    <3>1. hist[a][g] \in [before : TargetState \cup {Unknown}, left : TargetState \cup {Unknown}]
      BY <2>0 DEF TypeInv, TypeOK
    <3>2. tg[g] \in TargetState /\ now \in Nat
      BY <2>0, Shapes DEF TypeInv, TypeOK
    <3>3. rec[a].until \in Nat /\ row[a][g].applied \in Nat /\ look[c][g].at \in Nat
      BY <2>0, Shapes DEF TypeInv, Record, Row, Look
    <3> QED
      BY <2>8, <3>1, <3>2, <3>3
  <2>11. /\ s # Administrator /\ prior # Unknown /\ LeftBehind(kind, until, applied, s)
         /\ look[c][g].verdict = PutBack(kind, prior, at) /\ look[c][g].verdict # Skip
         /\ at <= now /\ now <= at + MaxDelay
    BY <2>1, <2>4, <2>5, <2>8, <2>9 DEF UndoDecided, UndoVerdict
  <2>12. Shaped(s) /\ Shaped(prior)
    BY <1>1, <2>8 DEF UndoHolds, AllShaped
  <2>13. tg'[g] = Applied(look[c][g].verdict, s, now)
    BY <1>1, <2>0, <2>8, LandsInStep, LandingTold
  <2>14. PutsBack(prior, tg'[g])
    <3>1. kind = "ban" => s.status = "kicked"
      BY <2>11 DEF LeftBehind
    <3> QED
      BY <2>10, <2>11, <2>12, <2>13, <3>1, UndoLeaves
  <2>15. \/ Decision(s) = Decision(left)
         \/ s.until = 0 /\ until # 0 /\ until < applied + MinTerm
    <3>1. LeavesBehind(kind, left, until, s)
      BY <2>7, <2>8, <2>9
    <3>2. CASE left # Unknown
      BY <2>10, <2>11, <2>12, <3>1, <3>2, UndoReplaces
    <3>3. CASE left = Unknown
      <4>1. kind \in {"unban", "unmute"}
        BY <3>1, <3>3 DEF LeavesBehind, Revocable, Kicked, Restricted, Unknown, Left, Plain
      <4>2. Decision(left) = Left
        BY <3>1, <4>1 DEF LeavesBehind
      <4>3. Decision(s) = Left
        BY <2>11, <4>1 DEF LeftBehind, Decision
      <4> QED
        BY <4>2, <4>3
    <3> QED
      BY <3>2, <3>3
  <2> QED
    BY <2>1, <2>8, <2>14, <2>15 DEF MayBeForGood
<1>2. UndoHolds /\ [Next]_vars =>
        [\A c \in Cards, g \in Groups :
            LandsNow(c, g) /\ Undo(c) /\ {<<c, g>>, <<card[c].of, g>>} \cap overtaken = {}
                => LET a == card[c].of
                       call == hist[a][g]
                   IN /\ \/ Decision(tg[g]) = Decision(call.left)
                         \/ tg[g].until = 0 /\ MayBeForGood(a, g)
                      /\ PutsBack(call.before, tg'[g])]_vars
  BY <1>1
<1> QED
  BY <1>2, UndoAlwaysHolds, PTL DEF Spec, UndoPutsBack

==============================================================================

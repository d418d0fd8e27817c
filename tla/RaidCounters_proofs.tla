------------------------- MODULE RaidCounters_proofs -------------------------
(***************************************************************************)
(* What the sets of RaidCounters have to do with what happened, for every  *)
(* instance: the join count is right up to the clocks' disagreement, and   *)
(* the flood rule is exact while the clocks agree and no cap cuts.         *)
(***************************************************************************)
EXTENDS RaidCounters, FiniteSetTheorems, TLAPS

\* A sorted set of members of S.
SortedSet(z, S) == z \in [DOMAIN z -> Int] /\ DOMAIN z \subseteq S

\* The members that score at least b.
AtLeast(z, b) == {m \in DOMAIN z : z[m] >= b}

-----------------------------------------------------------------------------
\* The constants.

LEMMA LeadBounds == Lead \in Nat /\ \A s \in Skews : s \in Nat /\ s <= Lead
<1>1. \E x \in Skews : \A y \in Skews : x >= y
  BY SkewsAssumption
<1>2. Lead \in Skews /\ \A y \in Skews : Lead >= y
  BY <1>1 DEF Lead, Max
<1> QED
  BY <1>2, SkewsAssumption

LEMMA NeverIsLongAgo ==
    /\ Never \in Int /\ Never <= 0
    /\ 0 - Never >= RecentWindow /\ 0 - Never >= FloodWindow
BY LeadBounds, WindowsAssumption DEF Never

-----------------------------------------------------------------------------
\* The operations on sorted sets.

LEMMA TrimmedIs ==
    ASSUME NEW z, NEW S, SortedSet(z, S), NEW c \in Int
    PROVE  /\ SortedSet(Trimmed(z, c), S)
           /\ DOMAIN Trimmed(z, c) = {m \in DOMAIN z : z[m] > c}
           /\ \A m \in DOMAIN Trimmed(z, c) : Trimmed(z, c)[m] = z[m]
BY DEF Trimmed, Restrict, SortedSet

LEMMA NewestIs ==
    ASSUME NEW z, NEW S, SortedSet(z, S), IsFiniteSet(S), NEW cap \in Nat,
           NEW n \in Newest(z, cap)
    PROVE  /\ SortedSet(n, S) /\ DOMAIN n \subseteq DOMAIN z
           /\ \A m \in DOMAIN n : n[m] = z[m]
           /\ ~Cuts(z, cap) => n = z
           /\ Cuts(z, cap) => /\ Cardinality(DOMAIN n) = cap
                              /\ \A m \in DOMAIN n, d \in DOMAIN z \ DOMAIN n : z[m] >= z[d]
<1>1. Cardinality(DOMAIN z) \in Nat
  BY FS_Subset, FS_CardinalityType DEF SortedSet
<1>2. Cuts(z, cap) <=> ~(Cardinality(DOMAIN z) <= cap)
  BY <1>1 DEF Cuts, Size
<1>3. CASE ~Cuts(z, cap)
  <2>1. n = z
    BY <1>2, <1>3 DEF Newest
  <2> QED
    BY <2>1, <1>3 DEF SortedSet
<1>4. CASE Cuts(z, cap)
  <2>1. n \in {Restrict(z, keep) : keep \in
            {k \in kSubset(cap, DOMAIN z) : \A m \in k, d \in DOMAIN z \ k : z[m] >= z[d]}}
    BY <1>2, <1>4 DEF Newest
  <2>2. PICK k \in kSubset(cap, DOMAIN z) :
            /\ \A m \in k, d \in DOMAIN z \ k : z[m] >= z[d]
            /\ n = Restrict(z, k)
    BY <2>1
  <2>3. k \subseteq DOMAIN z /\ Cardinality(k) = cap
    BY DEF kSubset
  <2>4. DOMAIN n = k /\ \A m \in k : n[m] = z[m]
    BY <2>2 DEF Restrict
  <2>5. SortedSet(n, S)
    BY <2>2, <2>3 DEF Restrict, SortedSet
  <2> QED
    BY <1>4, <2>2, <2>3, <2>4, <2>5
<1> QED
  BY <1>3, <1>4

\* A cut keeps as many members above any score as the cap allows.
LEMMA CutKeeps ==
    ASSUME NEW z, NEW S, SortedSet(z, S), IsFiniteSet(S), NEW cap \in Nat,
           NEW n \in Newest(z, cap), NEW b \in Int,
           cap <= Cardinality(AtLeast(z, b))
    PROVE  cap <= Cardinality(AtLeast(n, b))
<1>1. /\ SortedSet(n, S) /\ DOMAIN n \subseteq DOMAIN z
      /\ \A m \in DOMAIN n : n[m] = z[m]
      /\ ~Cuts(z, cap) => n = z
      /\ Cuts(z, cap) => /\ Cardinality(DOMAIN n) = cap
                         /\ \A m \in DOMAIN n, d \in DOMAIN z \ DOMAIN n : z[m] >= z[d]
  BY NewestIs
<1>2. CASE n = z
  BY <1>2
<1>3. CASE Cuts(z, cap) /\ \A m \in DOMAIN n : n[m] >= b
  <2>1. AtLeast(n, b) = DOMAIN n
    BY <1>3 DEF AtLeast
  <2> QED
    BY <1>1, <1>3, <2>1
<1>4. CASE Cuts(z, cap) /\ \E m \in DOMAIN n : ~(n[m] >= b)
  <2>1. PICK m \in DOMAIN n : ~(n[m] >= b)
    BY <1>4
  <2>2. \A d \in DOMAIN z \ DOMAIN n : ~(z[d] >= b)
    BY <1>1, <1>4, <2>1 DEF SortedSet
  <2>3. AtLeast(n, b) = AtLeast(z, b)
    BY <1>1, <2>2 DEF AtLeast
  <2> QED
    BY <2>3
<1> QED
  BY <1>1, <1>2, <1>3, <1>4

-----------------------------------------------------------------------------
\* The joined set.  An account that is missing joined too long ago for the recent
\* window on the slowest clock, or as many as the cap allows score no less.
Old(u) == clock + Lead - joinedAt[u] >= RecentWindow

Outrun(u) == JoinCap <= Cardinality(AtLeast(joined, joinedAt[u]))

JoinsTyped ==
    /\ clock \in Nat /\ touched \in [joined : Int, flood : Int] /\ touched.joined <= clock
    /\ SortedSet(joined, Users)
    /\ joinedAt \in [Users -> Int]
    /\ \A u \in Users : joinedAt[u] <= touched.joined

JoinsInv ==
    /\ JoinsTyped
    /\ \A u \in DOMAIN joined : joinedAt[u] <= joined[u] /\ joined[u] <= joinedAt[u] + Lead
    /\ \A u \in Users \ DOMAIN joined : Old(u) \/ Outrun(u)

LEMMA JoinsInit == Init => JoinsInv
<1> SUFFICES ASSUME Init
             PROVE  JoinsInv
  OBVIOUS
<1>1. DOMAIN joined = {} /\ SortedSet(joined, Users)
  BY DEF Init, Empty, SortedSet
<1>2. clock = 0 /\ touched.joined = Never /\ \A u \in Users : joinedAt[u] = Never
  BY DEF Init
<1>3. joinedAt \in [Users -> Int] /\ touched \in [joined : Int, flood : Int]
  BY NeverIsLongAgo DEF Init
<1>4. \A u \in Users : Old(u)
  BY <1>2, NeverIsLongAgo, LeadBounds, WindowsAssumption DEF Old
<1> QED
  BY <1>1, <1>2, <1>3, <1>4, NeverIsLongAgo DEF JoinsInv, JoinsTyped

\* raidJoinScript, written out: the set with the joins, what is not trimmed of it, and
\* what the cap keeps.
Raw(us, now) == ZAddJoins(joined, us, now)

Untrimmed(us, now) == Trimmed(Raw(us, now), now - RecentWindow)

LEMMA JoinScript ==
    ASSUME JoinsInv, NEW us \in SUBSET Users, NEW skew \in Skews, RecordJoins(us, skew),
           NEW now, now = clock + skew
    PROVE  /\ now \in Int /\ clock <= now /\ now <= clock + Lead
           /\ SortedSet(Untrimmed(us, now), Users)
           /\ DOMAIN Untrimmed(us, now) =
                 {u \in DOMAIN joined : joined[u] > now - RecentWindow} \cup us
           /\ \A u \in DOMAIN Untrimmed(us, now) :
                 Untrimmed(us, now)[u] = IF u \in us THEN now ELSE joined[u]
           /\ joined' \in Newest(Untrimmed(us, now), JoinCap)
           /\ clock' = clock /\ touched'.joined = clock
           /\ touched' \in [joined : Int, flood : Int]
           /\ \A u \in Users : joinedAt'[u] = IF u \in us THEN clock ELSE joinedAt[u]
           /\ joinedAt' \in [Users -> Int]
<1>1. now \in Int /\ clock <= now /\ now <= clock + Lead
  BY LeadBounds DEF JoinsInv, JoinsTyped
<1>2. /\ SortedSet(Raw(us, now), Users)
      /\ DOMAIN Raw(us, now) = DOMAIN joined \cup us
      /\ \A u \in DOMAIN joined \cup us : Raw(us, now)[u] = IF u \in us THEN now ELSE joined[u]
  <2>1. SortedSet(joined, Users)
    BY DEF JoinsInv, JoinsTyped
  <2>2. /\ SortedSet(ZAdd(joined, us, now), Users)
        /\ DOMAIN ZAdd(joined, us, now) = DOMAIN joined \cup us
        /\ \A u \in DOMAIN joined \cup us :
              ZAdd(joined, us, now)[u] = IF u \in us THEN now ELSE joined[u]
    BY <1>1, <2>1 DEF ZAdd, SortedSet
  <2>3. Raw(us, now) = ZAdd(joined, us, now)
    BY DEF Raw, ZAddJoins
  <2> QED
    BY <2>2, <2>3
<1>3. now - RecentWindow \in Int /\ now > now - RecentWindow
  BY <1>1, WindowsAssumption
<1>4. /\ SortedSet(Untrimmed(us, now), Users)
      /\ DOMAIN Untrimmed(us, now) = {u \in DOMAIN Raw(us, now) : Raw(us, now)[u] > now - RecentWindow}
      /\ \A u \in DOMAIN Untrimmed(us, now) : Untrimmed(us, now)[u] = Raw(us, now)[u]
  BY <1>2, <1>3, TrimmedIs DEF Untrimmed
<1>5. DOMAIN Untrimmed(us, now) = {u \in DOMAIN joined : joined[u] > now - RecentWindow} \cup us
  BY <1>2, <1>3, <1>4
<1>6. /\ joined' \in Newest(Untrimmed(us, now), JoinCap)
      /\ clock' = clock /\ touched' = [touched EXCEPT !.joined = clock]
      /\ joinedAt' = [u \in Users |-> IF u \in us THEN clock ELSE joinedAt[u]]
  BY DEF RecordJoins, Raw, Untrimmed
<1>7. touched'.joined = clock /\ touched' \in [joined : Int, flood : Int]
  BY <1>6 DEF JoinsInv, JoinsTyped
<1>8. joinedAt' \in [Users -> Int]
  BY <1>6 DEF JoinsInv, JoinsTyped
<1> QED
  BY <1>1, <1>2, <1>4, <1>5, <1>6, <1>7, <1>8


LEMMA RecordJoinsKeeps ==
    ASSUME JoinsInv, NEW us \in SUBSET Users, NEW skew \in Skews, RecordJoins(us, skew)
    PROVE  JoinsInv'
<1> DEFINE now == clock + skew
           all == Untrimmed(us, now)
<1>1. /\ now \in Int /\ clock <= now /\ now <= clock + Lead
      /\ SortedSet(all, Users)
      /\ DOMAIN all = {u \in DOMAIN joined : joined[u] > now - RecentWindow} \cup us
      /\ \A u \in DOMAIN all : all[u] = IF u \in us THEN now ELSE joined[u]
      /\ joined' \in Newest(all, JoinCap)
      /\ clock' = clock /\ touched'.joined = clock
      /\ touched' \in [joined : Int, flood : Int]
      /\ \A u \in Users : joinedAt'[u] = IF u \in us THEN clock ELSE joinedAt[u]
      /\ joinedAt' \in [Users -> Int]
  BY JoinScript
<1> HIDE DEF now, all
<1>2. JoinCap \in Nat /\ IsFiniteSet(Users) /\ RecentWindow \in Nat /\ RecentWindow > 0 /\ Lead \in Nat
  BY BoundsAssumption, WindowsAssumption, LeadBounds
<1>3. /\ SortedSet(joined', Users) /\ DOMAIN joined' \subseteq DOMAIN all
      /\ \A m \in DOMAIN joined' : joined'[m] = all[m]
      /\ ~Cuts(all, JoinCap) => joined' = all
      /\ Cuts(all, JoinCap) =>
            /\ Cardinality(DOMAIN joined') = JoinCap
            /\ \A m \in DOMAIN joined', d \in DOMAIN all \ DOMAIN joined' : all[m] >= all[d]
  BY <1>1, <1>2, NewestIs
<1>4. /\ clock \in Nat /\ SortedSet(joined, Users) /\ joinedAt \in [Users -> Int]
      /\ \A u \in Users : joinedAt[u] <= clock
  BY DEF JoinsInv, JoinsTyped
<1>5. \A u \in DOMAIN all : joinedAt'[u] <= all[u] /\ all[u] <= joinedAt'[u] + Lead
  BY <1>1, <1>2, <1>4 DEF JoinsInv, SortedSet
<1>6. JoinsTyped'
  BY <1>1, <1>3, <1>4 DEF JoinsTyped
<1>7. \A u \in DOMAIN joined' :
          joinedAt'[u] <= joined'[u] /\ joined'[u] <= joinedAt'[u] + Lead
  BY <1>3, <1>5
<1>8. ASSUME NEW u \in Users \ DOMAIN joined', ~Old(u)'
      PROVE  Outrun(u)'
  <2>1. clock + Lead - joinedAt'[u] < RecentWindow /\ joinedAt'[u] \in Int
    BY <1>1, <1>2, <1>4, <1>8 DEF Old
  <2>2. CASE u \in DOMAIN all
    <3>1. Cuts(all, JoinCap)
      BY <1>3, <1>8, <2>2
    <3>2. \A m \in DOMAIN joined' : joined'[m] >= joinedAt'[u]
      BY <1>1, <1>3, <1>5, <1>8, <2>1, <2>2, <3>1 DEF SortedSet
    <3>3. AtLeast(joined', joinedAt'[u]) = DOMAIN joined'
      BY <3>2 DEF AtLeast
    <3> QED
      BY <1>2, <1>3, <3>1, <3>3 DEF Outrun
  <2>3. CASE u \notin DOMAIN all
    <3>1. u \notin us /\ joinedAt'[u] = joinedAt[u]
      BY <1>1, <2>3
    <3>2. u \notin DOMAIN joined
      <4>1. u \in DOMAIN joined => joined[u] >= joinedAt[u] /\ joined[u] > now - RecentWindow
        BY <1>1, <1>2, <1>4, <2>1, <3>1 DEF JoinsInv, SortedSet
      <4> QED
        BY <1>1, <2>3, <4>1
    <3>3. Outrun(u)
      BY <1>1, <1>4, <1>8, <3>1, <3>2 DEF JoinsInv, Old
    <3>4. \A m \in AtLeast(joined, joinedAt[u]) : m \in AtLeast(all, joinedAt[u])
      BY <1>1, <1>2, <1>4, <2>1, <3>1 DEF AtLeast, SortedSet
    <3>5. Cardinality(AtLeast(joined, joinedAt[u])) <= Cardinality(AtLeast(all, joinedAt[u]))
      <4>1. IsFiniteSet(AtLeast(all, joinedAt[u]))
        BY <1>1, <1>2, FS_Subset DEF AtLeast, SortedSet
      <4> QED
        BY <3>4, <4>1, FS_Subset
    <3>6. /\ Cardinality(AtLeast(joined, joinedAt[u])) \in Nat
          /\ Cardinality(AtLeast(all, joinedAt[u])) \in Nat
      BY <1>1, <1>2, <1>4, FS_Subset, FS_CardinalityType DEF AtLeast, SortedSet
    <3>7. JoinCap <= Cardinality(AtLeast(all, joinedAt[u]))
      BY <1>2, <3>3, <3>5, <3>6 DEF Outrun
    <3>8. JoinCap <= Cardinality(AtLeast(joined', joinedAt[u]))
      BY <1>1, <1>2, <2>1, <3>1, <3>7, CutKeeps
    <3> QED
      BY <3>1, <3>8 DEF Outrun
  <2> QED
    BY <2>2, <2>3
<1> QED
  BY <1>6, <1>7, <1>8 DEF JoinsInv


\* A set that expires was written so long ago that nobody in it is recent.
LEMMA TickKeepsJoins ==
    ASSUME JoinsInv, Tick
    PROVE  JoinsInv'
<1>1. /\ clock \in Nat /\ clock' = clock + 1 /\ touched' = touched /\ joinedAt' = joinedAt
      /\ joined' = IF clock' - touched.joined >= JoinTTL THEN Empty ELSE joined
  BY DEF Tick, JoinsInv, JoinsTyped
<1>2. Lead \in Nat /\ JoinTTL \in Nat /\ RecentWindow \in Nat /\ RecentWindow < JoinTTL
  BY LeadBounds, WindowsAssumption
<1>3. \A u \in Users : joinedAt[u] \in Int /\ joinedAt[u] <= touched.joined /\ touched.joined \in Int
  BY DEF JoinsInv, JoinsTyped
<1>4. \A u \in Users : Old(u) => Old(u)'
  BY <1>1, <1>2, <1>3 DEF Old
<1>5. CASE clock' - touched.joined >= JoinTTL
  <2>1. DOMAIN joined' = {} /\ SortedSet(joined', Users)
    BY <1>1, <1>5 DEF Empty, SortedSet
  <2>2. \A u \in Users : Old(u)'
    BY <1>1, <1>2, <1>3, <1>5 DEF Old
  <2> QED
    BY <1>1, <2>1, <2>2 DEF JoinsInv, JoinsTyped
<1>6. CASE ~(clock' - touched.joined >= JoinTTL)
  <2>1. joined' = joined
    BY <1>1, <1>6
  <2>2. \A u \in Users : Outrun(u) => Outrun(u)'
    BY <1>1, <2>1 DEF Outrun
  <2> QED
    BY <1>1, <1>4, <2>1, <2>2 DEF JoinsInv, JoinsTyped
<1> QED
  BY <1>5, <1>6

LEMMA JoinsKept ==
    ASSUME JoinsInv, [Next]_vars
    PROVE  JoinsInv'
<1>1. CASE UNCHANGED <<clock, joined, joinedAt>> /\ touched' \in [joined : {touched.joined}, flood : Int]
  <2>1. JoinsTyped'
    BY <1>1 DEF JoinsInv, JoinsTyped
  <2>2. \A u \in Users : (Old(u) => Old(u)') /\ (Outrun(u) => Outrun(u)')
    BY <1>1 DEF Old, Outrun
  <2> QED
    BY <1>1, <2>1, <2>2 DEF JoinsInv
<1>2. CASE UNCHANGED vars
  BY <1>1, <1>2 DEF vars, JoinsInv, JoinsTyped
<1>3. ASSUME NEW u \in Users, NEW i \in Items, NEW s \in Skews, RecordFloodItem(u, i, s)
      PROVE  JoinsInv'
  BY <1>1, <1>3 DEF RecordFloodItem, JoinsInv, JoinsTyped
<1> QED
  BY <1>2, <1>3, RecordJoinsKeeps, TickKeepsJoins DEF Next

LEMMA JoinsHold == Spec => []JoinsInv
BY JoinsInit, JoinsKept, PTL DEF Spec

\* What the script counts: whoever scores above the window's start.
LEMMA JoinsCountedBy ==
    ASSUME JoinsInv, JoinsInv', NEW us \in SUBSET Users, NEW skew \in Skews,
           RecordJoins(us, skew)
    PROVE  JoinsAreCounted'
<1> DEFINE now == clock + skew
           counted == {u \in DOMAIN joined' : joined'[u] > now - JoinWindow}
           within(w) == {u \in Users : clock - joinedAt'[u] < w}
<1>1. /\ now \in Int /\ clock <= now /\ now <= clock + Lead /\ clock' = clock
  BY JoinScript
<1>2. /\ JoinCap \in Nat /\ IsFiniteSet(Users) /\ Lead \in Nat
      /\ JoinWindow \in Nat /\ RecentWindow \in Nat /\ JoinWindow <= RecentWindow
  BY BoundsAssumption, WindowsAssumption, LeadBounds
<1>3. /\ clock \in Nat /\ SortedSet(joined', Users) /\ joinedAt' \in [Users -> Int]
      /\ \A u \in DOMAIN joined' :
            joinedAt'[u] <= joined'[u] /\ joined'[u] <= joinedAt'[u] + Lead
      /\ \A u \in Users \ DOMAIN joined' : Old(u)' \/ Outrun(u)'
  BY DEF JoinsInv, JoinsTyped
<1>4. result'.counts[1] = Cardinality(counted)
  <2>1. result' = [of |-> "joins", counts |-> <<Size(Trimmed(joined', now - JoinWindow))>>]
    BY DEF RecordJoins
  <2>2. DOMAIN Trimmed(joined', now - JoinWindow) = counted
    BY DEF Trimmed, Restrict
  <2> QED
    BY <2>1, <2>2 DEF Size
<1> HIDE DEF now
<1>5. IsFiniteSet(counted) /\ \A w : IsFiniteSet(within(w))
  BY <1>2, <1>3, FS_Subset DEF SortedSet
<1>6. Cardinality(counted) \in Nat /\ Cardinality(within(JoinWindow - Lead)) \in Nat
  BY <1>5, FS_CardinalityType
<1>7. counted \subseteq within(JoinWindow + Lead)
  BY <1>1, <1>2, <1>3 DEF SortedSet
<1>8. Cardinality(counted) <= Cardinality(within(JoinWindow + Lead))
  BY <1>5, <1>7, FS_Subset
<1>9. CASE within(JoinWindow - Lead) \subseteq DOMAIN joined'
  <2>1. within(JoinWindow - Lead) \subseteq counted
    BY <1>1, <1>2, <1>3, <1>9 DEF SortedSet
  <2>2. Cardinality(within(JoinWindow - Lead)) <= Cardinality(counted)
    BY <1>5, <2>1, FS_Subset
  <2>3. AtMost(JoinCap, Cardinality(within(JoinWindow - Lead))) <= Cardinality(counted)
    BY <1>2, <1>6, <2>2 DEF AtMost
  <2> QED
    BY <1>1, <1>4, <1>8, <2>3 DEF JoinsAreCounted, JoinedWithin
<1>10. ASSUME NEW u \in within(JoinWindow - Lead), u \notin DOMAIN joined'
       PROVE  JoinsAreCounted'
  <2>1. clock - joinedAt'[u] < JoinWindow - Lead /\ joinedAt'[u] \in Int
    BY <1>3, <1>10
  <2>2. Outrun(u)'
    BY <1>1, <1>2, <1>3, <1>10, <2>1 DEF Old
  <2>3. AtLeast(joined', joinedAt'[u]) \subseteq counted
    BY <1>1, <1>2, <1>3, <2>1 DEF AtLeast, SortedSet
  <2>4. /\ Cardinality(AtLeast(joined', joinedAt'[u])) <= Cardinality(counted)
        /\ Cardinality(AtLeast(joined', joinedAt'[u])) \in Nat
    BY <1>5, <2>3, FS_Subset, FS_CardinalityType
  <2>5. JoinCap <= Cardinality(counted)
    BY <1>2, <1>6, <2>2, <2>4 DEF Outrun
  <2>6. AtMost(JoinCap, Cardinality(within(JoinWindow - Lead))) <= Cardinality(counted)
    BY <1>2, <1>6, <2>5 DEF AtMost
  <2> QED
    BY <1>1, <1>4, <1>8, <2>6 DEF JoinsAreCounted, JoinedWithin
<1> QED
  BY <1>9, <1>10

\* In every instance the join surge's count is right: it holds all who joined within
\* the window less the clocks' disagreement, or as many as the cap allows, and nobody
\* who did not join within the window plus it (raidJoinScript).
THEOREM JoinCountsAreRight == Spec => []JoinsAreCounted
<1>1. Init => JoinsAreCounted
  BY DEF Init, Nothing, JoinsAreCounted
<1>2. ASSUME JoinsInv, JoinsInv', JoinsAreCounted, [Next]_vars
      PROVE  JoinsAreCounted'
  <2>1. CASE UNCHANGED vars
    BY <1>2, <2>1 DEF vars, JoinsAreCounted, JoinedWithin
  <2>2. CASE result'.of # "joins"
    BY <2>2 DEF JoinsAreCounted
  <2>3. CASE Tick
    BY <2>2, <2>3 DEF Tick, Nothing
  <2>4. ASSUME NEW u \in Users, NEW i \in Items, NEW s \in Skews, RecordFloodItem(u, i, s)
        PROVE  result'.of # "joins"
    BY <2>4 DEF RecordFloodItem
  <2> QED
    BY <1>2, <2>1, <2>2, <2>3, <2>4, JoinsCountedBy DEF Next
<1> QED
  BY <1>1, <1>2, JoinsHold, PTL DEF Spec


-----------------------------------------------------------------------------
\* The flood sets.  The types hold always; what the sets tell of what happened, while
\* the clocks agree and no cap cuts.
Post == [by : Users \cup {"nobody"}, at : Int, newAt : Int]

PostTyped(p) ==
    /\ p.at <= touched.flood /\ p.newAt <= touched.flood /\ Never <= p.newAt
    /\ p.by = "nobody" => p.newAt = Never

FloodTyped ==
    /\ touched.flood <= clock
    /\ SortedSet(fi, Items) /\ SortedSet(fn, Items) /\ SortedSet(fa, Users)
    /\ posted \in [Items -> Post]
    /\ \A i \in Items : PostTyped(posted[i])

\* Long enough ago, at the time now, to have left a window of w ticks.
Gone(t, w, now) == now - t >= w

\* A set scores its members with what happened to them, and misses only what is gone.
Tells(z, S, happened, w, now) ==
    /\ \A m \in DOMAIN z : z[m] = happened[m]
    /\ \A m \in S \ DOMAIN z : Gone(happened[m], w, now)

\* A new member's score is that of their latest item as a new member.
SenderScored(u) == /\ \E i \in Items : posted[i].by = u /\ posted[i].newAt = fa[u]
                   /\ \A i \in Items : posted[i].by = u => posted[i].newAt <= fa[u]

SenderGone(u) == \A i \in Items : posted[i].by = u => Gone(posted[i].newAt, FloodWindow, clock)

PostedAt == [i \in Items |-> posted[i].at]

PostedNewAt == [i \in Items |-> posted[i].newAt]

JoinedExact == Tells(joined, Users, joinedAt, RecentWindow, clock)

ItemsExact == Tells(fi, Items, PostedAt, FloodWindow, clock)

NewExact == Tells(fn, Items, PostedNewAt, FloodWindow, clock)

SendersExact == /\ \A u \in DOMAIN fa : SenderScored(u)
                /\ \A u \in Users \ DOMAIN fa : SenderGone(u)

ExactInv == exact => JoinedExact /\ ItemsExact /\ NewExact /\ SendersExact

FloodInv == JoinsInv /\ FloodTyped /\ ExactInv

LEMMA FloodInit == Init => FloodInv
<1> SUFFICES ASSUME Init
             PROVE  FloodInv
  OBVIOUS
<1>1. /\ DOMAIN joined = {} /\ DOMAIN fi = {} /\ DOMAIN fn = {} /\ DOMAIN fa = {}
      /\ SortedSet(fi, Items) /\ SortedSet(fn, Items) /\ SortedSet(fa, Users)
  BY DEF Init, Empty, SortedSet
<1>2. /\ clock = 0 /\ touched.flood = Never /\ Never \in Int
      /\ \A u \in Users : joinedAt[u] = Never
      /\ \A i \in Items : posted[i].by = "nobody" /\ posted[i].at = Never /\ posted[i].newAt = Never
  BY NeverIsLongAgo DEF Init, NoPost
<1>3. posted \in [Items -> Post]
  BY NeverIsLongAgo DEF Init, NoPost, Post
<1>4. FloodTyped
  BY <1>1, <1>2, <1>3, NeverIsLongAgo DEF FloodTyped, PostTyped
<1>5. Gone(Never, RecentWindow, clock) /\ Gone(Never, FloodWindow, clock)
  BY <1>2, NeverIsLongAgo, WindowsAssumption DEF Gone
<1>6. JoinedExact /\ ItemsExact /\ NewExact /\ SendersExact
  BY <1>1, <1>2, <1>5 DEF JoinedExact, ItemsExact, NewExact, SendersExact, Tells,
     SenderGone, PostedAt, PostedNewAt
<1> QED
  BY <1>4, <1>6, JoinsInit DEF FloodInv, ExactInv

LEMMA TellsStill ==
    ASSUME NEW z, NEW S, SortedSet(z, S), NEW ms, ms \subseteq S,
           NEW h \in [S -> Int], NEW g \in [S -> Int],
           NEW w \in Nat \ {0}, NEW now \in Int,
           \A m \in S : g[m] = IF m \in ms THEN now ELSE h[m],
           Tells(z, S, h, w, now),
           NEW y, y = Trimmed(ZAdd(z, ms, now), now - w)
    PROVE  Tells(y, S, g, w, now)
<1>1. /\ DOMAIN y = {m \in DOMAIN z \cup ms : (IF m \in ms THEN now ELSE z[m]) > now - w}
      /\ \A m \in DOMAIN y : y[m] = IF m \in ms THEN now ELSE z[m]
  BY DEF Trimmed, ZAdd, Restrict
<1>2. \A m \in DOMAIN y : y[m] = g[m]
  BY <1>1 DEF Tells, SortedSet
<1>3. ASSUME NEW m \in S \ DOMAIN y
      PROVE  Gone(g[m], w, now)
  <2>1. m \notin ms
    BY <1>1, <1>3
  <2>2. CASE m \in DOMAIN z
    BY <1>1, <1>3, <2>1, <2>2 DEF Tells, SortedSet, Gone
  <2>3. CASE m \notin DOMAIN z
    BY <1>3, <2>1, <2>3 DEF Tells
  <2> QED
    BY <2>2, <2>3
<1> QED
  BY <1>2, <1>3 DEF Tells

LEMMA TellsLater ==
    ASSUME NEW z, NEW S, NEW h \in [S -> Int], NEW w \in Nat, NEW now \in Int,
           Tells(z, S, h, w, now)
    PROVE  Tells(z, S, h, w, now + 1)
BY DEF Tells, Gone

LEMMA RecordJoinsExact ==
    ASSUME FloodInv, NEW us \in SUBSET Users, NEW skew \in Skews, RecordJoins(us, skew)
    PROVE  FloodTyped' /\ ExactInv'
<1>1. /\ clock' = clock /\ touched'.flood = touched.flood /\ UNCHANGED <<fi, fn, fa, posted>>
      /\ joinedAt' = [u \in Users |-> IF u \in us THEN clock ELSE joinedAt[u]]
  BY DEF RecordJoins, FloodInv, JoinsInv, JoinsTyped
<1>2. FloodTyped'
  BY <1>1 DEF FloodInv, FloodTyped, PostTyped
<1>3. ASSUME exact'
      PROVE  exact /\ joined' = Trimmed(ZAdd(joined, us, clock), clock - RecentWindow)
  <2> DEFINE all == Trimmed(ZAdd(joined, us, clock), clock - RecentWindow)
  <2>1. exact /\ clock + skew = clock
    <3>1. exact /\ skew = 0
      BY <1>3, Zenon DEF RecordJoins
    <3> QED
      BY <3>1 DEF FloodInv, JoinsInv, JoinsTyped
  <2>2. joined' \in Newest(all, JoinCap) /\ ~Cuts(all, JoinCap)
    BY <1>3, <2>1 DEF RecordJoins, ZAddJoins
  <2>3. SortedSet(all, Users) /\ IsFiniteSet(Users) /\ JoinCap \in Nat
    BY BoundsAssumption, WindowsAssumption
       DEF FloodInv, JoinsInv, JoinsTyped, SortedSet, Trimmed, Restrict, ZAdd
  <2> HIDE DEF all
  <2>4. joined' = all
    BY <2>2, <2>3, NewestIs
  <2> QED
    BY <2>1, <2>4 DEF all
<1>4. ASSUME exact'
      PROVE  JoinedExact'
  <2>1. Tells(joined, Users, joinedAt, RecentWindow, clock) /\ SortedSet(joined, Users)
    BY <1>3, <1>4 DEF FloodInv, ExactInv, JoinedExact, JoinsInv, JoinsTyped
  <2>2. joinedAt \in [Users -> Int] /\ joinedAt' \in [Users -> Int] /\ clock \in Int
    BY <1>1 DEF FloodInv, JoinsInv, JoinsTyped
  <2>3. RecentWindow \in Nat \ {0}
    BY WindowsAssumption
  <2>4. \A m \in Users : joinedAt'[m] = IF m \in us THEN clock ELSE joinedAt[m]
    BY <1>1
  <2>5. Tells(joined', Users, joinedAt', RecentWindow, clock)
    BY <1>3, <1>4, <2>1, <2>2, <2>3, <2>4, TellsStill
  <2> QED
    BY <1>1, <2>5 DEF JoinedExact
<1>5. ASSUME exact'
      PROVE  ItemsExact' /\ NewExact' /\ SendersExact'
  <2>1. ItemsExact /\ NewExact /\ SendersExact
    BY <1>3, <1>5 DEF FloodInv, ExactInv
  <2> QED
    BY <1>1, <2>1 DEF ItemsExact, NewExact, SendersExact, PostedAt, PostedNewAt, SenderScored, SenderGone
<1> QED
  BY <1>2, <1>4, <1>5 DEF ExactInv


\* raidFloodScript, written out: the item's post, and whether its sender is new.
Recent(u) == clock - joinedAt[u] < RecentWindow

LEMMA FloodPost ==
    ASSUME FloodInv, NEW u \in Users, NEW i \in Items, NEW skew \in Skews,
           RecordFloodItem(u, i, skew)
    PROVE  /\ exact /\ posted[i].by \in {"nobody", u}
           /\ UNCHANGED <<clock, joined, joinedAt>>
           /\ touched' = [touched EXCEPT !.flood = clock]
           /\ posted' \in [Items -> Post]
           /\ \A j \in Items \ {i} : posted'[j] = posted[j]
           /\ posted'[i].by = u /\ posted'[i].at = clock
           /\ posted'[i].newAt = IF Recent(u) THEN clock ELSE posted[i].newAt
<1> DEFINE p == [by |-> u, at |-> clock,
                 newAt |-> IF Recent(u) THEN clock ELSE posted[i].newAt]
<1>1. posted \in [Items -> Post] /\ clock \in Int
  BY DEF FloodInv, FloodTyped, JoinsInv, JoinsTyped
<1>2. posted' = [posted EXCEPT ![i] = p]
  BY DEF RecordFloodItem, Recent
<1>3. p \in Post
  BY <1>1 DEF Post
<1>4. p.by = u /\ p.at = clock /\ p.newAt = IF Recent(u) THEN clock ELSE posted[i].newAt
  OBVIOUS
<1> HIDE DEF p
<1>5. exact
  BY Zenon DEF RecordFloodItem
<1>6. /\ posted[i].by \in {"nobody", u} /\ UNCHANGED <<clock, joined, joinedAt>>
      /\ touched' = [touched EXCEPT !.flood = clock]
  BY DEF RecordFloodItem
<1> QED
  BY <1>1, <1>2, <1>3, <1>4, <1>5, <1>6

LEMMA FloodSets ==
    ASSUME FloodInv, NEW u \in Users, NEW i \in Items, NEW skew \in Skews,
           RecordFloodItem(u, i, skew)
    PROVE  /\ SortedSet(fi', Items) /\ SortedSet(fn', Items) /\ SortedSet(fa', Users)
           /\ result' = [of |-> "flood", counts |-> <<Size(fi'), Size(fn'), Size(fa')>>]
           /\ exact' =>
                 /\ fi' = Trimmed(ZAdd(fi, {i}, clock), clock - FloodWindow)
                 /\ fn' = Trimmed(ZAdd(fn, IF Recent(u) THEN {i} ELSE {}, clock), clock - FloodWindow)
                 /\ fa' = Trimmed(ZAdd(fa, IF Recent(u) THEN {u} ELSE {}, clock), clock - FloodWindow)
<1> DEFINE now == clock + skew
           who(S) == IF IsNew(u, now) THEN S ELSE {}
           items == Trimmed(ZAdd(fi, {i}, now), now - FloodWindow)
           new == Trimmed(ZAdd(fn, who({i}), now), now - FloodWindow)
           senders == Trimmed(ZAdd(fa, who({u}), now), now - FloodWindow)
<1>1. /\ clock \in Nat /\ now \in Int /\ FloodWindow \in Nat
      /\ IsFiniteSet(Items) /\ FloodCap \in Nat
  BY LeadBounds, BoundsAssumption, WindowsAssumption DEF FloodInv, JoinsInv, JoinsTyped
<1>2. SortedSet(fi, Items) /\ SortedSet(fn, Items) /\ SortedSet(fa, Users)
  BY DEF FloodInv, FloodTyped
<1>3. SortedSet(items, Items)
  BY <1>1, <1>2 DEF SortedSet, Trimmed, Restrict, ZAdd
<1>4. SortedSet(new, Items)
  BY <1>1, <1>2 DEF SortedSet, Trimmed, Restrict, ZAdd
<1>5. SortedSet(senders, Users)
  BY <1>1, <1>2 DEF SortedSet, Trimmed, Restrict, ZAdd
<1>6. /\ fi' \in Newest(items, FloodCap) /\ fn' \in Newest(new, FloodCap) /\ fa' = senders
      /\ result' = [of |-> "flood", counts |-> <<Size(fi'), Size(fn'), Size(fa')>>]
  BY DEF RecordFloodItem
<1>7. exact' => skew = 0 /\ ~Cuts(items, FloodCap) /\ ~Cuts(new, FloodCap)
  BY Zenon DEF RecordFloodItem
<1>8. exact' => now = clock /\ (IsNew(u, now) <=> Recent(u))
  <2>1. exact /\ JoinedExact /\ SortedSet(joined, Users) /\ joinedAt \in [Users -> Int]
    BY FloodPost DEF FloodInv, ExactInv, JoinsInv, JoinsTyped
  <2>2. RecentWindow \in Nat
    BY WindowsAssumption
  <2>3. now = clock => (IsNew(u, now) <=> Recent(u))
    BY <1>1, <2>1, <2>2 DEF JoinedExact, Tells, Gone, SortedSet, IsNew, Recent
  <2>4. exact' => now = clock
    BY <1>1, <1>7
  <2> QED
    BY <2>3, <2>4
<1> HIDE DEF items, new
<1>9. /\ SortedSet(fi', Items) /\ SortedSet(fn', Items)
      /\ ~Cuts(items, FloodCap) => fi' = items
      /\ ~Cuts(new, FloodCap) => fn' = new
  BY <1>1, <1>3, <1>4, <1>6, NewestIs
<1>10. ASSUME exact'
       PROVE  /\ fi' = Trimmed(ZAdd(fi, {i}, clock), clock - FloodWindow)
              /\ fn' = Trimmed(ZAdd(fn, IF Recent(u) THEN {i} ELSE {}, clock), clock - FloodWindow)
              /\ fa' = Trimmed(ZAdd(fa, IF Recent(u) THEN {u} ELSE {}, clock), clock - FloodWindow)
  <2>1. now = clock /\ (IsNew(u, now) <=> Recent(u))
    BY <1>8, <1>10
  <2>2. who({i}) = IF Recent(u) THEN {i} ELSE {}
    BY <2>1
  <2>3. who({u}) = IF Recent(u) THEN {u} ELSE {}
    BY <2>1
  <2>4. fi' = items /\ fn' = new /\ fa' = senders
    BY <1>6, <1>7, <1>9, <1>10
  <2> HIDE DEF now, who
  <2> QED
    BY <2>1, <2>2, <2>3, <2>4 DEF items, new
<1> QED
  BY <1>5, <1>6, <1>9, <1>10


\* The senders: whoever is not the new sender of this item keeps what they had.
LEMMA SendersStill ==
    ASSUME FloodInv, NEW u \in Users, NEW i \in Items, NEW skew \in Skews,
           RecordFloodItem(u, i, skew), exact'
    PROVE  SendersExact'
<1> DEFINE ms == IF Recent(u) THEN {u} ELSE {}
<1>1. /\ exact /\ posted[i].by \in {"nobody", u} /\ clock' = clock
      /\ posted' \in [Items -> Post]
      /\ \A j \in Items \ {i} : posted'[j] = posted[j]
      /\ posted'[i].by = u
      /\ posted'[i].newAt = IF Recent(u) THEN clock ELSE posted[i].newAt
  BY FloodPost
<1>2. SendersExact
  BY <1>1 DEF FloodInv, ExactInv
<1>3. /\ clock \in Nat /\ FloodWindow \in Nat \ {0} /\ SortedSet(fa, Users)
      /\ posted \in [Items -> Post] /\ "nobody" \notin Users
      /\ \A j \in Items : posted[j].newAt \in Int /\ posted[j].newAt <= clock /\ Never <= posted[j].newAt
      /\ posted[i].by = "nobody" => posted[i].newAt = Never
  BY WindowsAssumption, BoundsAssumption
     DEF FloodInv, FloodTyped, PostTyped, Post, JoinsInv, JoinsTyped
<1>4. /\ DOMAIN fa' = {v \in DOMAIN fa \cup ms : (IF v \in ms THEN clock ELSE fa[v]) > clock - FloodWindow}
      /\ \A v \in DOMAIN fa' : fa'[v] = IF v \in ms THEN clock ELSE fa[v]
  <2>1. fa' = Trimmed(ZAdd(fa, ms, clock), clock - FloodWindow)
    BY FloodSets
  <2> HIDE DEF ms
  <2> QED
    BY <2>1 DEF Trimmed, ZAdd, Restrict
<1>5. ASSUME NEW v \in Users \ ms
      PROVE  /\ \A j \in Items : posted[j].by = v =>
                    posted'[j].by = v /\ posted'[j].newAt = posted[j].newAt
             /\ \A j \in Items : posted'[j].by = v =>
                    /\ posted'[j].newAt = posted[j].newAt
                    /\ posted[j].by = v \/ posted[j].newAt = Never
  BY <1>1, <1>3, <1>5
<1>6. ASSUME NEW v \in DOMAIN fa', v \notin ms
      PROVE  SenderScored(v)'
  <2>1. v \in DOMAIN fa /\ fa'[v] = fa[v] /\ v \in Users
    BY <1>3, <1>4, <1>6 DEF SortedSet
  <2>2. SenderScored(v)
    BY <1>2, <2>1 DEF SendersExact
  <2>3. PICK j \in Items : posted[j].by = v /\ posted[j].newAt = fa[v]
    BY <2>2 DEF SenderScored
  <2>4. posted'[j].by = v /\ posted'[j].newAt = fa'[v]
    BY <1>5, <1>6, <2>1, <2>3
  <2>5. \A k \in Items : posted'[k].by = v => posted'[k].newAt <= fa'[v]
    BY <1>3, <1>5, <1>6, <2>1, <2>2, <2>3 DEF SenderScored
  <2> QED
    BY <2>4, <2>5 DEF SenderScored
<1>7. ASSUME NEW v \in ms, v \in DOMAIN fa'
      PROVE  SenderScored(v)'
  BY <1>1, <1>3, <1>4, <1>7 DEF SenderScored
<1>8. ASSUME NEW v \in Users \ DOMAIN fa'
      PROVE  SenderGone(v)'
  <2>1. v \notin ms
    BY <1>3, <1>4, <1>8
  <2>2. \A j \in Items : posted[j].by = v => Gone(posted[j].newAt, FloodWindow, clock)
    <3>1. CASE v \in DOMAIN fa
      <4>1. fa[v] \in Int /\ ~(fa[v] > clock - FloodWindow)
        BY <1>3, <1>4, <1>8, <2>1, <3>1 DEF SortedSet
      <4> QED
        BY <1>2, <1>3, <3>1, <4>1 DEF SendersExact, SenderScored, Gone
    <3>2. CASE v \notin DOMAIN fa
      BY <1>2, <1>8, <3>2 DEF SendersExact, SenderGone
    <3> QED
      BY <3>1, <3>2
  <2>3. Gone(Never, FloodWindow, clock)
    BY <1>3, NeverIsLongAgo DEF Gone
  <2> QED
    BY <1>1, <1>5, <2>1, <2>2, <2>3 DEF SenderGone
<1>9. \A v \in DOMAIN fa' : SenderScored(v)'
  BY <1>6, <1>7
<1> QED
  BY <1>8, <1>9 DEF SendersExact

LEMMA RecordFloodExact ==
    ASSUME FloodInv, NEW u \in Users, NEW i \in Items, NEW skew \in Skews,
           RecordFloodItem(u, i, skew)
    PROVE  FloodTyped' /\ ExactInv'
<1>1. /\ exact /\ UNCHANGED <<clock, joined, joinedAt>>
      /\ touched' = [touched EXCEPT !.flood = clock]
      /\ posted' \in [Items -> Post]
      /\ \A j \in Items \ {i} : posted'[j] = posted[j]
      /\ posted'[i].by = u /\ posted'[i].at = clock
      /\ posted'[i].newAt = IF Recent(u) THEN clock ELSE posted[i].newAt
  BY FloodPost
<1>2. SortedSet(fi', Items) /\ SortedSet(fn', Items) /\ SortedSet(fa', Users)
  BY FloodSets
<1>3. /\ clock \in Nat /\ touched \in [joined : Int, flood : Int] /\ touched.flood <= clock
      /\ posted \in [Items -> Post] /\ \A j \in Items : PostTyped(posted[j])
      /\ SortedSet(fi, Items) /\ SortedSet(fn, Items) /\ SortedSet(fa, Users)
      /\ Never \in Int /\ Never <= 0 /\ "nobody" \notin Users /\ FloodWindow \in Nat \ {0}
  BY NeverIsLongAgo, BoundsAssumption, WindowsAssumption DEF FloodInv, FloodTyped, JoinsInv, JoinsTyped
<1>4. FloodTyped'
  <2>1. touched'.flood = clock
    BY <1>1, <1>3
  <2>2. \A j \in Items : posted[j] \in Post
    BY <1>3
  <2>3. \A j \in Items : PostTyped(posted[j])'
    BY <1>1, <1>3, <2>1, <2>2 DEF PostTyped, Post
  <2> QED
    BY <1>1, <1>2, <1>3, <2>1, <2>3 DEF FloodTyped
<1>5. JoinedExact' /\ (exact' => SendersExact')
  BY <1>1, SendersStill DEF FloodInv, ExactInv, JoinedExact
<1>6. /\ PostedAt \in [Items -> Int] /\ PostedAt' \in [Items -> Int]
      /\ PostedNewAt \in [Items -> Int] /\ PostedNewAt' \in [Items -> Int]
  BY <1>1, <1>3 DEF PostedAt, PostedNewAt, Post
<1>7. ASSUME exact'
      PROVE  ItemsExact'
  <2>1. fi' = Trimmed(ZAdd(fi, {i}, clock), clock - FloodWindow)
    BY <1>7, FloodSets
  <2>2. \A j \in Items : PostedAt'[j] = IF j \in {i} THEN clock ELSE PostedAt[j]
    BY <1>1 DEF PostedAt
  <2>3. Tells(fi, Items, PostedAt, FloodWindow, clock)
    BY <1>1 DEF FloodInv, ExactInv, ItemsExact
  <2>4. Tells(fi', Items, PostedAt', FloodWindow, clock)
    BY <1>3, <1>6, <2>1, <2>2, <2>3, TellsStill
  <2> QED
    BY <1>1, <2>4 DEF ItemsExact
<1>8. ASSUME exact'
      PROVE  NewExact'
  <2> DEFINE ms == IF Recent(u) THEN {i} ELSE {}
  <2>1. fn' = Trimmed(ZAdd(fn, ms, clock), clock - FloodWindow)
    BY <1>8, FloodSets
  <2>2. \A j \in Items : PostedNewAt'[j] = IF j \in ms THEN clock ELSE PostedNewAt[j]
    BY <1>1 DEF PostedNewAt
  <2>3. Tells(fn, Items, PostedNewAt, FloodWindow, clock)
    BY <1>1 DEF FloodInv, ExactInv, NewExact
  <2>4. ms \subseteq Items
    OBVIOUS
  <2> HIDE DEF ms
  <2>5. Tells(fn', Items, PostedNewAt', FloodWindow, clock)
    BY <1>3, <1>6, <2>1, <2>2, <2>3, <2>4, TellsStill
  <2> QED
    BY <1>1, <2>5 DEF NewExact
<1> QED
  BY <1>4, <1>5, <1>7, <1>8 DEF ExactInv


\* A tick lets more go, and the sets that expire had nothing left of their windows.
LEMMA TickExact ==
    ASSUME FloodInv, Tick
    PROVE  FloodTyped' /\ ExactInv'
<1>1. /\ clock \in Nat /\ clock' = clock + 1 /\ UNCHANGED <<touched, joinedAt, posted, exact>>
      /\ joined' = IF clock' - touched.joined >= JoinTTL THEN Empty ELSE joined
  BY DEF Tick, FloodInv, JoinsInv, JoinsTyped
<1>2. \/ clock' - touched.flood >= FloodTTL /\ fi' = Empty /\ fn' = Empty /\ fa' = Empty
      \/ UNCHANGED <<fi, fn, fa>>
  BY DEF Tick
<1>3. /\ touched \in [joined : Int, flood : Int]
      /\ touched.flood <= clock /\ touched.joined <= clock
      /\ joinedAt \in [Users -> Int] /\ \A u \in Users : joinedAt[u] <= touched.joined
      /\ posted \in [Items -> Post] /\ \A i \in Items : PostTyped(posted[i])
  BY DEF FloodInv, FloodTyped, JoinsInv, JoinsTyped
<1>4. \A i \in Items : posted[i].at \in Int /\ posted[i].newAt \in Int
  BY <1>3 DEF Post
<1>5. /\ DOMAIN Empty = {} /\ SortedSet(Empty, Items) /\ SortedSet(Empty, Users)
  BY DEF Empty, SortedSet
<1>6. FloodTyped'
  <2>1. SortedSet(fi', Items) /\ SortedSet(fn', Items) /\ SortedSet(fa', Users)
    BY <1>2, <1>5 DEF FloodInv, FloodTyped
  <2> QED
    BY <1>1, <1>3, <2>1 DEF FloodTyped, PostTyped
<1>7. /\ {RecentWindow, FloodWindow, JoinTTL, FloodTTL} \subseteq Nat
      /\ RecentWindow < JoinTTL /\ FloodWindow < FloodTTL
  BY WindowsAssumption
<1>8. PostedAt' = PostedAt /\ PostedNewAt' = PostedNewAt
      /\ PostedAt \in [Items -> Int] /\ PostedNewAt \in [Items -> Int]
  BY <1>1, <1>4 DEF PostedAt, PostedNewAt
<1>9. ASSUME exact
      PROVE  JoinedExact'
  <2>1. Tells(joined, Users, joinedAt, RecentWindow, clock)
    BY <1>9 DEF FloodInv, ExactInv, JoinedExact
  <2>2. Tells(joined, Users, joinedAt, RecentWindow, clock + 1)
    BY <1>1, <1>3, <1>7, <2>1, TellsLater
  <2>3. CASE clock' - touched.joined >= JoinTTL
    <3>1. \A u \in Users : Gone(joinedAt[u], RecentWindow, clock + 1)
      BY <1>1, <1>3, <1>7, <2>3 DEF Gone
    <3> QED
      BY <1>1, <1>5, <2>3, <3>1 DEF JoinedExact, Tells
  <2> QED
    BY <1>1, <2>2, <2>3 DEF JoinedExact
<1>10. ASSUME exact
       PROVE  ItemsExact' /\ NewExact' /\ SendersExact'
  <2>1. ItemsExact /\ NewExact /\ SendersExact
    BY <1>10 DEF FloodInv, ExactInv
  <2>2. CASE clock' - touched.flood >= FloodTTL /\ fi' = Empty /\ fn' = Empty /\ fa' = Empty
    <3>1. \A i \in Items : /\ Gone(posted[i].at, FloodWindow, clock + 1)
                           /\ Gone(posted[i].newAt, FloodWindow, clock + 1)
      BY <1>1, <1>3, <1>4, <1>7, <2>2 DEF Gone, PostTyped
    <3>2. ItemsExact' /\ NewExact'
      BY <1>1, <1>5, <1>8, <2>2, <3>1 DEF ItemsExact, NewExact, Tells, PostedAt, PostedNewAt
    <3>3. SendersExact'
      BY <1>1, <1>5, <2>2, <3>1 DEF SendersExact, SenderGone
    <3> QED
      BY <3>2, <3>3
  <2>3. CASE UNCHANGED <<fi, fn, fa>>
    <3>1. /\ Tells(fi, Items, PostedAt, FloodWindow, clock + 1)
          /\ Tells(fn, Items, PostedNewAt, FloodWindow, clock + 1)
      BY <1>1, <1>7, <1>8, <2>1, TellsLater DEF ItemsExact, NewExact
    <3>2. ItemsExact' /\ NewExact'
      BY <1>1, <1>8, <2>3, <3>1 DEF ItemsExact, NewExact
    <3>3. \A u \in Users : SenderGone(u) => SenderGone(u)'
      BY <1>1, <1>4, <1>7 DEF SenderGone, Gone
    <3>4. \A u \in Users : SenderScored(u) => SenderScored(u)'
      BY <1>1, <2>3 DEF SenderScored
    <3>5. SendersExact'
      <4>1. DOMAIN fa \subseteq Users
        BY DEF FloodInv, FloodTyped, SortedSet
      <4> QED
        BY <2>1, <2>3, <3>3, <3>4, <4>1 DEF SendersExact
    <3> QED
      BY <3>2, <3>5
  <2> QED
    BY <1>2, <2>2, <2>3
<1> QED
  BY <1>1, <1>6, <1>9, <1>10 DEF ExactInv

LEMMA FloodKept ==
    ASSUME FloodInv, [Next]_vars
    PROVE  FloodInv'
<1>1. JoinsInv'
  BY JoinsKept DEF FloodInv
<1>2. CASE UNCHANGED vars
  <2>1. FloodTyped'
    BY <1>2 DEF vars, FloodInv, FloodTyped, PostTyped
  <2>2. ExactInv'
    BY <1>2 DEF vars, FloodInv, ExactInv, JoinedExact, ItemsExact, NewExact, SendersExact,
                PostedAt, PostedNewAt, SenderScored, SenderGone
  <2> QED
    BY <1>1, <2>1, <2>2 DEF FloodInv
<1> QED
  BY <1>1, <1>2, RecordJoinsExact, RecordFloodExact, TickExact DEF Next, FloodInv

LEMMA TrimmedAbove ==
    ASSUME NEW z, NEW c, NEW y, y = Trimmed(z, c)
    PROVE  \A m \in DOMAIN y : y[m] > c
BY DEF Trimmed, Restrict

\* What the exact sets keep of their windows is what happened in them.
LEMMA FloodCountedBy ==
    ASSUME FloodInv, FloodInv', NEW u \in Users, NEW i \in Items, NEW skew \in Skews,
           RecordFloodItem(u, i, skew), exact'
    PROVE  FloodFiresAsRuled'
<1> DEFINE itemsIn == {j \in Items : clock' - posted'[j].at < FloodWindow}
           newIn == {j \in Items : clock' - posted'[j].newAt < FloodWindow}
           accountsIn == {posted'[j].by : j \in newIn}
<1>1. /\ clock \in Nat /\ clock' = clock /\ FloodWindow \in Nat \ {0}
      /\ result' = [of |-> "flood", counts |-> <<Size(fi'), Size(fn'), Size(fa')>>]
      /\ SortedSet(fi, Items) /\ SortedSet(fn, Items) /\ SortedSet(fa, Users)
      /\ SortedSet(fi', Items) /\ SortedSet(fn', Items) /\ SortedSet(fa', Users)
  <2>1. clock \in Nat /\ FloodWindow \in Nat \ {0}
    BY WindowsAssumption DEF FloodInv, JoinsInv, JoinsTyped
  <2>2. clock' = clock
    BY FloodPost
  <2>3. SortedSet(fi, Items) /\ SortedSet(fn, Items) /\ SortedSet(fa, Users)
    BY DEF FloodInv, FloodTyped
  <2> QED
    BY <2>1, <2>2, <2>3, FloodSets
<1>2. /\ \A j \in DOMAIN fi' : fi'[j] > clock - FloodWindow
      /\ \A j \in DOMAIN fn' : fn'[j] > clock - FloodWindow
      /\ \A v \in DOMAIN fa' : fa'[v] > clock - FloodWindow
  BY FloodSets, TrimmedAbove
<1>3. ItemsExact' /\ NewExact' /\ SendersExact'
  BY DEF FloodInv, ExactInv
<1>4. /\ posted' \in [Items -> Post] /\ \A j \in Items : PostTyped(posted[j])'
      /\ PostedAt' \in [Items -> Int] /\ PostedNewAt' \in [Items -> Int]
      /\ \A j \in Items : PostedAt'[j] = posted'[j].at /\ PostedNewAt'[j] = posted'[j].newAt
  BY DEF FloodInv, FloodTyped, PostedAt, PostedNewAt, Post
<1>5. DOMAIN fi' = itemsIn
  <2>1. Tells(fi', Items, PostedAt', FloodWindow, clock)
    BY <1>1, <1>3 DEF ItemsExact
  <2>2. ASSUME NEW j \in DOMAIN fi'
        PROVE  j \in Items /\ clock - PostedAt'[j] < FloodWindow
    <3>1. fi'[j] = PostedAt'[j] /\ fi'[j] > clock - FloodWindow /\ j \in Items
      BY <1>1, <1>2, <2>1, <2>2 DEF Tells, SortedSet
    <3> QED
      BY <1>1, <1>4, <3>1
  <2>3. ASSUME NEW j \in Items \ DOMAIN fi'
        PROVE  ~(clock - PostedAt'[j] < FloodWindow)
    <3>1. clock - PostedAt'[j] >= FloodWindow
      BY <2>1, <2>3 DEF Tells, Gone
    <3> QED
      BY <1>1, <1>4, <3>1
  <2> QED
    BY <1>1, <1>4, <2>2, <2>3
<1>6. DOMAIN fn' = newIn
  <2>1. Tells(fn', Items, PostedNewAt', FloodWindow, clock)
    BY <1>1, <1>3 DEF NewExact
  <2>2. ASSUME NEW j \in DOMAIN fn'
        PROVE  j \in Items /\ clock - PostedNewAt'[j] < FloodWindow
    <3>1. fn'[j] = PostedNewAt'[j] /\ fn'[j] > clock - FloodWindow /\ j \in Items
      BY <1>1, <1>2, <2>1, <2>2 DEF Tells, SortedSet
    <3> QED
      BY <1>1, <1>4, <3>1
  <2>3. ASSUME NEW j \in Items \ DOMAIN fn'
        PROVE  ~(clock - PostedNewAt'[j] < FloodWindow)
    <3>1. clock - PostedNewAt'[j] >= FloodWindow
      BY <2>1, <2>3 DEF Tells, Gone
    <3> QED
      BY <1>1, <1>4, <3>1
  <2> QED
    BY <1>1, <1>4, <2>2, <2>3
<1>7. DOMAIN fa' = accountsIn
  <2>1. ASSUME NEW v \in DOMAIN fa'
        PROVE  v \in accountsIn
    <3>1. PICK j \in Items : posted'[j].by = v /\ posted'[j].newAt = fa'[v]
      BY <1>3, <2>1 DEF SendersExact, SenderScored
    <3>2. j \in newIn
      BY <1>1, <1>2, <2>1, <3>1 DEF SortedSet
    <3> QED
      BY <3>1, <3>2
  <2>2. ASSUME NEW j \in newIn
        PROVE  posted'[j].by \in DOMAIN fa'
    <3>1. clock - posted'[j].newAt < FloodWindow /\ posted'[j].newAt \in Int /\ j \in Items
      BY <1>1, <1>4, <2>2 DEF Post
    <3>2. posted'[j].by \in Users
      <4>1. posted'[j].newAt # Never
        BY <1>1, <3>1, NeverIsLongAgo
      <4> QED
        BY <1>4, <3>1, <4>1 DEF PostTyped, Post
    <3> QED
      BY <1>1, <1>3, <3>1, <3>2 DEF SendersExact, SenderGone, Gone
  <2> QED
    BY <2>1, <2>2
<1>8. /\ result'.counts[1] = Cardinality(itemsIn)
      /\ result'.counts[2] = Cardinality(newIn)
      /\ result'.counts[3] = Cardinality(accountsIn)
  BY <1>1, <1>5, <1>6, <1>7 DEF Size
<1>9. /\ itemsIn = {j \in Items : clock - posted[j].at < FloodWindow}'
      /\ newIn = NewWithin(FloodWindow)' /\ accountsIn = NewAccounts(FloodWindow)'
  BY DEF NewWithin, NewAccounts
<1>10. IsFiniteSet(itemsIn) /\ IsFiniteSet(newIn)
  BY BoundsAssumption, FS_Subset
<1>11. Cardinality(itemsIn) \in Nat /\ Cardinality(newIn) \in Nat
  BY <1>10, FS_CardinalityType
<1> HIDE DEF itemsIn, newIn, accountsIn
<1>12. ItemsWithin(FloodWindow)' = Cardinality(itemsIn)
  BY <1>9 DEF ItemsWithin
<1> QED
  BY <1>8, <1>9, <1>11, <1>12 DEF FloodFiresAsRuled, FloodCounts

\* In every instance, while the clocks agree and no cap cuts, the flood rule fires just
\* when the window really holds what it asks for: nothing in it was lost, nothing that
\* left it counts, and an album counts once (raidFloodScript, raidFloodCounts).
THEOREM FloodRuleIsExact == Spec => []FloodFiresAsRuled
<1>1. Init => FloodFiresAsRuled
  BY DEF Init, Nothing, FloodFiresAsRuled
<1>2. ASSUME FloodInv, FloodInv', FloodFiresAsRuled, [Next]_vars
      PROVE  FloodFiresAsRuled'
  <2>1. CASE UNCHANGED vars
    BY <1>2, <2>1 DEF vars, FloodFiresAsRuled, ItemsWithin, NewWithin, NewAccounts
  <2>2. CASE result'.of # "flood" \/ ~exact'
    BY <2>2 DEF FloodFiresAsRuled
  <2>3. CASE Tick
    BY <2>2, <2>3 DEF Tick, Nothing
  <2>4. ASSUME NEW us \in SUBSET Users, NEW s \in Skews, RecordJoins(us, s)
        PROVE  result'.of # "flood"
    BY <2>4 DEF RecordJoins
  <2> QED
    BY <1>2, <2>1, <2>2, <2>3, <2>4, FloodCountedBy DEF Next
<1>3. Spec => []FloodInv
  BY FloodInit, FloodKept, PTL DEF Spec
<1> QED
  BY <1>1, <1>2, <1>3, PTL DEF Spec

==============================================================================

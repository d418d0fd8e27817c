---------------------------- MODULE RaidCounters ----------------------------
(***************************************************************************)
(* The Redis counters of one group behind the raid triggers: the set of    *)
(* accounts that joined, the three sets of the flood window, and the       *)
(* scripts that write them and count.  A sorted set is a function from its *)
(* members to their scores.  Beside the sets the model keeps what really   *)
(* happened, which the counts are compared with.                           *)
(*                                                                         *)
(* Redis runs a script as one step.  The time in it is the calling         *)
(* replica's, so scores of one set come from clocks that disagree; expiry  *)
(* is Redis' own.                                                          *)
(***************************************************************************)
EXTENDS Integers, FiniteSets, FiniteSetsExt, Functions

CONSTANTS
    Users, Items,   \* accounts, and messages or albums
    Skews,          \* how far replicas' clocks are ahead of the slowest
    JoinWindow, RecentWindow, FloodWindow,   \* raidJoinWindow, raidRecentWindow, raidFloodWindow
    JoinTTL, FloodTTL,                       \* raidJoinedTTL, raidFloodTTL
    JoinCap, FloodCap,                       \* raidJoinedCap, raidFloodCap
    FloodThreshold, FloodMinAccounts,        \* the chat's setting, raidFloodMinAccounts
    MaxClock        \* bound: ticks of the clock

\* What the constants of raid_counters.go and raid_flood.go satisfy.
ASSUME WindowsAssumption ==
    /\ {JoinWindow, RecentWindow, FloodWindow, JoinTTL, FloodTTL} \subseteq Nat
    /\ 0 < JoinWindow /\ JoinWindow <= RecentWindow /\ RecentWindow < JoinTTL
    /\ 0 < FloodWindow /\ FloodWindow < FloodTTL

ASSUME BoundsAssumption ==
    /\ {JoinCap, FloodCap, MaxClock} \subseteq Nat
    /\ IsFiniteSet(Users) /\ IsFiniteSet(Items) /\ "nobody" \notin Users

\* One replica's clock is the slowest, one is the furthest ahead.
ASSUME SkewsAssumption ==
    /\ Skews \subseteq Nat /\ 0 \in Skews
    /\ \E most \in Skews : \A s \in Skews : s <= most

VARIABLES
    clock,       \* time, on the slowest replica
    joined,      \* fuku:raid:{chat}:joined
    fi, fn, fa,  \* the window's items, new members' items, and those members
    touched,     \* the last write of the joined set and of the flood sets
    joinedAt,    \* what happened: each account's latest join
    posted,      \* what happened: each item's sender and latest parts
    exact,       \* every clock agreed so far and no cap cut a set
    result       \* what the last script returned, at the present time

vars == <<clock, joined, fi, fn, fa, touched, joinedAt, posted, exact, result>>

Lead == Max(Skews)

\* Longer ago than any window reaches.
Never == 0 - (JoinTTL + FloodTTL + Lead)

Empty == [m \in {} |-> 0]

NoPost == [by |-> "nobody", at |-> Never, newAt |-> Never]

Nothing == [of |-> "nothing", counts |-> <<>>]

-----------------------------------------------------------------------------
\* Sorted sets.

ZAdd(z, ms, t) == [m \in DOMAIN z \cup ms |-> IF m \in ms THEN t ELSE z[m]]

\* Mutation: a member keeps its first score (ZADD NX).
ZAddFirst(z, ms, t) == [m \in DOMAIN z \cup ms |-> IF m \in DOMAIN z THEN z[m] ELSE t]

\* The joined set: the latest join counts.
ZAddJoins(z, ms, t) == ZAdd(z, ms, t)

\* ZREMRANGEBYSCORE -inf cutoff.
Trimmed(z, cutoff) == Restrict(z, {m \in DOMAIN z : z[m] > cutoff})

\* ZREMRANGEBYRANK of all but the newest; members of one score go in Redis' own
\* order, any of them here.
Newest(z, cap) ==
    IF Cardinality(DOMAIN z) <= cap THEN {z}
    ELSE {Restrict(z, keep) : keep \in
            {k \in kSubset(cap, DOMAIN z) : \A m \in k, n \in DOMAIN z \ k : z[m] >= z[n]}}

Size(z) == Cardinality(DOMAIN z)

Cuts(z, cap) == Size(z) > cap

-----------------------------------------------------------------------------
\* raidJoinScript: record the joins and count the accounts of the window.
RecordJoins(us, skew) ==
    LET now == clock + skew
        all == Trimmed(ZAddJoins(joined, us, now), now - RecentWindow)
    IN /\ joined' \in Newest(all, JoinCap)
       /\ result' = [of |-> "joins", counts |-> <<Size(Trimmed(joined', now - JoinWindow))>>]
       /\ touched' = [touched EXCEPT !.joined = clock]
       /\ joinedAt' = [u \in Users |-> IF u \in us THEN clock ELSE joinedAt[u]]
       /\ exact' = (exact /\ skew = 0 /\ ~Cuts(all, JoinCap))
       /\ exact' \/ \A i \in Items : posted[i] = NoPost    \* bound, as below
       /\ UNCHANGED <<clock, fi, fn, fa, posted>>

\* Mutation: whoever ever joined is new.
IsNewEver(u, now) == u \in DOMAIN joined

\* New: the joined set scores the account within the recent window.
IsNew(u, now) == u \in DOMAIN joined /\ joined[u] > now - RecentWindow

\* raidFloodScript: one more part of item i, sent by u.
RecordFloodItem(u, i, skew) ==
    LET now == clock + skew
        cutoff == now - FloodWindow
        who(S) == IF IsNew(u, now) THEN S ELSE {}
        items == Trimmed(ZAdd(fi, {i}, now), cutoff)
        new == Trimmed(ZAdd(fn, who({i}), now), cutoff)
    IN /\ exact    \* bound: no items once the flood property claims nothing
       /\ posted[i].by \in {"nobody", u}
       /\ fi' \in Newest(items, FloodCap)
       /\ fn' \in Newest(new, FloodCap)
       /\ fa' = Trimmed(ZAdd(fa, who({u}), now), cutoff)
       /\ result' = [of |-> "flood", counts |-> <<Size(fi'), Size(fn'), Size(fa')>>]
       /\ touched' = [touched EXCEPT !.flood = clock]
       /\ posted' = [posted EXCEPT ![i] =
            [by |-> u, at |-> clock,
             newAt |-> IF clock - joinedAt[u] < RecentWindow THEN clock ELSE @.newAt]]
       /\ exact' = (exact /\ skew = 0 /\ ~Cuts(items, FloodCap) /\ ~Cuts(new, FloodCap))
       /\ UNCHANGED <<clock, joined, joinedAt>>

\* raidFloodCounts: enough items, 60 percent of them new members', of enough members.
FloodCounts(items, new, accounts) ==
    /\ items >= FloodThreshold
    /\ new * 100 >= 60 * items
    /\ accounts >= FloodMinAccounts

\* Time passes on every clock; a set nobody writes expires.
Tick ==
    /\ clock < MaxClock /\ clock' = clock + 1
    /\ joined' = IF clock' - touched.joined >= JoinTTL THEN Empty ELSE joined
    /\ LET kept(z) == IF clock' - touched.flood >= FloodTTL THEN Empty ELSE z
       IN fi' = kept(fi) /\ fn' = kept(fn) /\ fa' = kept(fa)
    /\ result' = Nothing
    /\ UNCHANGED <<touched, joinedAt, posted, exact>>

Init ==
    /\ clock = 0
    /\ joined = Empty /\ fi = Empty /\ fn = Empty /\ fa = Empty
    /\ touched = [joined |-> Never, flood |-> Never]
    /\ joinedAt = [u \in Users |-> Never]
    /\ posted = [i \in Items |-> NoPost]
    /\ exact = TRUE
    /\ result = Nothing

Next ==
    \/ \E us \in SUBSET Users \ {{}}, s \in Skews : RecordJoins(us, s)
    \/ \E u \in Users, i \in Items, s \in Skews : RecordFloodItem(u, i, s)
    \/ Tick

Spec == Init /\ [][Next]_vars

-----------------------------------------------------------------------------
\* What really happened in the last w ticks.

JoinedWithin(w) == Cardinality({u \in Users : clock - joinedAt[u] < w})

ItemsWithin(w) == Cardinality({i \in Items : clock - posted[i].at < w})

NewWithin(w) == {i \in Items : clock - posted[i].newAt < w}

NewAccounts(w) == {posted[i].by : i \in NewWithin(w)}

AtMost(a, b) == IF a < b THEN a ELSE b

\* The join surge counts different accounts, each once however often and by
\* however many updates it joined: the count holds every account that joined
\* within the window less the clocks' disagreement (as far as the cap goes) and
\* none from before the window plus it (raidJoinScript).
JoinsAreCounted ==
    result.of = "joins" =>
        /\ AtMost(JoinCap, JoinedWithin(JoinWindow - Lead)) <= result.counts[1]
        /\ result.counts[1] <= JoinedWithin(JoinWindow + Lead)

\* While the clocks agree and no cap cuts, the flood rule fires just when the
\* window really holds the items, the share of them that new members sent and
\* the different new members it asks for: nothing that left the window counts,
\* nothing in it is lost to trimming or expiry, and an album counts once.
FloodFiresAsRuled ==
    result.of = "flood" /\ exact =>
        (FloodCounts(result.counts[1], result.counts[2], result.counts[3])
            <=> /\ ItemsWithin(FloodWindow) >= FloodThreshold
                /\ 100 * Cardinality(NewWithin(FloodWindow)) >= 60 * ItemsWithin(FloodWindow)
                /\ Cardinality(NewAccounts(FloodWindow)) >= FloodMinAccounts)
=============================================================================

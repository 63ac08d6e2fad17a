---------------------------- MODULE VotingProofs ----------------------------
(***************************************************************************)
(* The votes of inery.system, for every set of accounts, every growth of   *)
(* the weights and all stakes: proxies end, the totals of producers and    *)
(* proxies are sums of what the voters last counted, and no change of      *)
(* stake is refused because of a vote.                                     *)
(*                                                                         *)
(* RestakeNeverRefused needs all of it: a vote is only checked when its    *)
(* weight is not negative, which is so because proxied weights are sums of *)
(* weights; that they stay sums needs that a change travels along a chain  *)
(* in which nobody occurs twice, which needs that proxies end.             *)
(*                                                                         *)
(* The shares of the vote pay add up because of the sums of votes: the     *)
(* totals are cut off at 0 wherever they are moved, and as sums of what    *)
(* producers have they are never below it.                                 *)
(***************************************************************************)
EXTENDS Voting, TokenProofs

TablesType == [voters : [Accounts -> Voters], producers : [Accounts -> Producers],
               totals : [weight : Int, share : Int, rate : Int, updated : 0 .. LastDay],
               activation : [stake : Nat, done : BOOLEAN]]

(***************************************************************************)
(* The parts of the invariant, on a record t of the tables, since it must  *)
(* hold between the steps of update_votes as well.                         *)
(***************************************************************************)
\* In every group of accounts one has its proxy outside, or none.
Ends(t) == \A S \in (SUBSET Accounts) \ {{}} : \E x \in S : t.voters[x].proxy \notin S

\* What the row of one voter says of others.
Linked(t, x) ==
    LET v == t.voters[x]
    IN /\ v.producers \subseteq {x}
       /\ x \in v.producers => t.producers[x].row
       /\ v.proxy # NoOne => v.producers = {} /\ t.voters[v.proxy].row
       /\ v.is_proxy => v.proxy = NoOne
       /\ ~v.row => v.proxy = NoOne /\ v.producers = {}

\* Weights are even, so that a change of a weight is never too small to count.
Counted(t, x) ==
    LET v == t.voters[x]
    IN v.last >= 0 /\ v.last % 2 = 0 /\ v.proxied % 2 = 0

Own(t, x) == IF x \in t.voters[x].producers THEN t.voters[x].last ELSE 0

Votes(t) == [x \in Accounts |-> t.producers[x].votes]

Tallied(t) ==
    /\ \A x \in Accounts : t.producers[x].votes = Own(t, x)
    /\ t.totals.weight = Total(Votes(t), Accounts)

Lasts(t) == [x \in Accounts |-> t.voters[x].last]
ClientsIn(t, D, P) == {x \in D : t.voters[x].proxy = P}

\* The weight of proxies is the sum over their clients in D, and c besides.
ProxiedFrom(t, D, c) ==
    \A P \in Accounts : t.voters[P].proxied = Total(Lasts(t), ClientsIn(t, D, P)) + c[P]

\* The votes that still earn shares of the vote pay.
RateOf(r) == IF UpdatedAfter(r) THEN 0 ELSE r.votes

Rates(t) == [x \in Accounts |-> RateOf(t.producers[x])]
Shares(t) == [x \in Accounts |-> ShareNow(t.producers[x])]

PaidRow(r) == r.share >= 0 /\ r.updated <= now /\ (~r.row => r.share = 0)

\* What has accrued up to now, for all and for each.
Paid(t) ==
    /\ \A x \in Accounts : PaidRow(t.producers[x])
    /\ t.totals.rate = Total(Rates(t), Accounts)
    /\ t.totals.share + t.totals.rate * (now - t.totals.updated) = Total(Shares(t), Accounts)

Sound(t) ==
    /\ t \in TablesType
    /\ Ends(t)
    /\ \A x \in Accounts : Linked(t, x) /\ Counted(t, x)
    /\ Tallied(t)
    /\ Paid(t)

None == [P \in Accounts |-> 0]

Good(t) == Sound(t) /\ ProxiedFrom(t, Accounts, None)

VotingInv == /\ now \in 0 .. LastDay
             /\ activity \in SUBSET Accounts
             /\ Good(Tables)

(***************************************************************************)
(* Weights                                                                 *)
(***************************************************************************)
LEMMA DaysAreNumbers == 0 .. LastDay \subseteq Int
BY GrowthAssumption

LEMMA WeightFacts ==
  ASSUME now \in 0 .. LastDay, NEW n \in Int
  PROVE  /\ Weight(n) \in Int
         /\ Weight(n) % 2 = 0
         /\ n >= 0 => Weight(n) >= 0
<1>1. Growth[now] \in Nat /\ Growth[now] > 0 /\ Growth[now] % 2 = 0
  BY GrowthAssumption
<1>2. PICK k \in Nat : Growth[now] = 2 * k
  BY <1>1
<1>3. n * k \in Int /\ (n >= 0 => n * k >= 0)
  BY <1>2
<1>4. n * Growth[now] = 2 * (n * k)
  BY <1>2
<1> QED
  BY <1>3, <1>4 DEF Weight

\* A change that is not counted is none.
LEMMA SmallChange ==
  ASSUME now \in 0 .. LastDay, NEW t \in TablesType, NEW x \in Accounts
  PROVE  /\ Change(t, x) \in Int
         /\ Counted(t, x) => /\ Change(t, x) % 2 = 0
                             /\ ~Moves(t, x) => Change(t, x) = 0
<1>1. t.voters[x].staked \in Int /\ t.voters[x].last \in Int
  BY DEF TablesType, Voters
<1>2. Weight(t.voters[x].staked) \in Int /\ Weight(t.voters[x].staked) % 2 = 0
  BY <1>1, WeightFacts
<1>3. Change(t, x) \in Int /\ (Counted(t, x) => Change(t, x) % 2 = 0)
  BY <1>1, <1>2 DEF Change, Counted
<1> QED
  BY <1>3 DEF Moves, Abs

(***************************************************************************)
(* The chain of accounts a change travels along                            *)
(***************************************************************************)
Closed(t, S) == \A y \in S : Forwards(t, y) => t.voters[y].proxy \in S

LEMMA ProxyType ==
  ASSUME NEW t \in TablesType, NEW x \in Accounts
  PROVE  /\ t.voters[x].proxy \in Accounts \cup {NoOne}
         /\ Forwards(t, x) => t.voters[x].proxy \in Accounts
BY DEF TablesType, Voters, Forwards

LEMMA ReachedLeast ==
  ASSUME NEW t, NEW a, NEW S \in SUBSET Accounts, a \in S, Closed(t, S)
  PROVE  Reached(t, a) \subseteq S
BY DEF Reached, Closed

LEMMA ReachedClosed ==
  ASSUME NEW t \in TablesType, NEW a \in Accounts
  PROVE  a \in Reached(t, a) /\ Reached(t, a) \subseteq Accounts /\ Closed(t, Reached(t, a))
<1>1. a \in Reached(t, a) /\ Reached(t, a) \subseteq Accounts
  BY DEF Reached
<1>2. ASSUME NEW y \in Reached(t, a), Forwards(t, y)
      PROVE  t.voters[y].proxy \in Reached(t, a)
  <2>1. y \in Accounts /\ t.voters[y].proxy \in Accounts
    BY <1>1, <1>2, ProxyType
  <2> QED
    BY <1>2, <2>1 DEF Reached
<1> QED
  BY <1>1, <1>2 DEF Closed

LEMMA ReachedFurther ==
  ASSUME NEW t \in TablesType, NEW a \in Accounts, NEW x \in Reached(t, a)
  PROVE  Reached(t, x) \subseteq Reached(t, a)
BY ReachedClosed, ReachedLeast

LEMMA ReachedFirst ==
  ASSUME NEW t \in TablesType, NEW x \in Accounts
  PROVE  /\ ~Forwards(t, x) => Reached(t, x) = {x}
         /\ Forwards(t, x) => Reached(t, x) \subseteq {x} \cup Reached(t, t.voters[x].proxy)
<1>1. CASE ~Forwards(t, x)
  <2>1. Closed(t, {x})
    BY <1>1 DEF Closed
  <2> QED
    BY <1>1, <2>1, ReachedLeast, ReachedClosed
<1>2. CASE Forwards(t, x)
  <2>1. t.voters[x].proxy \in Accounts
    BY <1>2, ProxyType
  <2> DEFINE R == Reached(t, t.voters[x].proxy)
  <2>2. t.voters[x].proxy \in R /\ R \subseteq Accounts /\ Closed(t, R)
    BY <2>1, ReachedClosed
  <2>3. Closed(t, {x} \cup R)
    BY <2>2 DEF Closed
  <2> QED
    BY <1>2, <2>2, <2>3, ReachedLeast
<1> QED
  BY <1>1, <1>2

\* Of two accounts on the way of a change, one lies before the other.
LEMMA ReachedInLine ==
  ASSUME NEW t \in TablesType, NEW a \in Accounts,
         NEW x \in Reached(t, a), NEW z \in Reached(t, a)
  PROVE  x \in Reached(t, z) \/ z \in Reached(t, x)
<1> DEFINE T == {y \in Reached(t, a) : x \in Reached(t, y) \/ y \in Reached(t, x)}
<1>1. x \in Accounts /\ a \in T /\ T \subseteq Accounts
  BY ReachedClosed
<1>2. ASSUME NEW y \in T, Forwards(t, y)
      PROVE  t.voters[y].proxy \in T
  <2>1. y \in Accounts /\ t.voters[y].proxy \in Reached(t, a)
    BY <1>1, <1>2, ReachedClosed DEF Closed
  <2>2. CASE y \in Reached(t, x)
    BY <1>1, <1>2, <2>1, <2>2, ReachedClosed DEF Closed
  <2>3. CASE y \notin Reached(t, x)
    <3>1. x \in Reached(t, y) /\ x # y
      BY <1>1, <2>3, ReachedClosed
    <3> QED
      BY <1>2, <2>1, <3>1, ReachedFirst
  <2> QED
    BY <2>2, <2>3
<1>3. Closed(t, T)
  BY <1>2 DEF Closed
<1> HIDE DEF T
<1>4. Reached(t, a) \subseteq T
  BY <1>1, <1>3, ReachedLeast
<1> QED
  BY <1>4 DEF T

\* A change never comes back to an account whose proxy it has reached.
LEMMA NoReturn ==
  ASSUME NEW t \in TablesType, Ends(t),
         NEW x \in Accounts, NEW y \in Accounts, t.voters[x].proxy = y
  PROVE  x \notin Reached(t, y)
<1> SUFFICES ASSUME x \in Reached(t, y) PROVE FALSE
  OBVIOUS
<1> DEFINE T == {z \in Reached(t, y) : x \in Reached(t, z)}
<1>1. T \in SUBSET Accounts /\ x \in T /\ y \in T
  BY ReachedClosed
<1>2. ASSUME NEW z \in T PROVE t.voters[z].proxy \in T
  <2>1. CASE z = x
    BY <1>1, <2>1
  <2>2. CASE z # x
    <3>1. z \in Accounts /\ x \in Reached(t, z)
      BY <1>1
    <3>2. Forwards(t, z)
      BY <2>2, <3>1, ReachedFirst
    <3>3. x \in Reached(t, t.voters[z].proxy)
      BY <2>2, <3>1, <3>2, ReachedFirst
    <3>4. t.voters[z].proxy \in Reached(t, y)
      BY <1>1, <3>2, ReachedClosed DEF Closed
    <3> QED
      BY <3>3, <3>4
  <2> QED
    BY <2>1, <2>2
<1> HIDE DEF T
<1> QED
  BY <1>1, <1>2 DEF Ends

\* A change comes to a proxy from one client only.
LEMMA OneClient ==
  ASSUME NEW t \in TablesType, Ends(t), NEW a \in Accounts,
         NEW x \in Reached(t, a), NEW z \in Reached(t, a),
         Forwards(t, x), Forwards(t, z), t.voters[x].proxy = t.voters[z].proxy
  PROVE  x = z
<1>0. x \in Accounts /\ z \in Accounts
  BY ReachedClosed
<1>1. t.voters[x].proxy \in Accounts
  BY <1>0, ProxyType
<1>2. ASSUME x # z PROVE x \in Reached(t, t.voters[z].proxy) \/ z \in Reached(t, t.voters[x].proxy)
  BY <1>0, <1>2, ReachedInLine, ReachedFirst
<1> QED
  BY <1>0, <1>1, <1>2, NoReturn

\* It ends in one place.
LEMMA OneEnd ==
  ASSUME NEW t \in TablesType, NEW a \in Accounts,
         NEW x \in Reached(t, a), NEW z \in Reached(t, a),
         ~Forwards(t, x), ~Forwards(t, z)
  PROVE  x = z
BY ReachedClosed, ReachedInLine, ReachedFirst

(***************************************************************************)
(* Counting votes anew                                                     *)
(***************************************************************************)
LEMMA ShareTotalType ==
  ASSUME now \in 0 .. LastDay, NEW extra \in Int, NEW rate \in Int,
         NEW g \in [weight : Int, share : Int, rate : Int, updated : 0 .. LastDay]
  PROVE  /\ ShareTotal(g, extra, rate)
               \in [weight : Int, share : Int, rate : Int, updated : 0 .. LastDay]
         /\ ShareTotal(g, extra, rate).weight = g.weight
<1>1. now \in Int /\ g.updated \in Int /\ g.rate \in Int /\ g.share \in Int
  BY GrowthAssumption
<1>2. g.rate * (now - g.updated) \in Int
  BY <1>1
<1> DEFINE share == Larger(0, g.share + g.rate * (now - g.updated) + extra)
           change == Larger(0, g.rate + rate)
<1>3. share \in Int /\ change \in Int
  BY <1>1, <1>2 DEF Larger
<1>4. ShareTotal(g, extra, rate)
        = [g EXCEPT !.share = share, !.rate = change, !.updated = now]
  BY DEF ShareTotal
<1> HIDE DEF share, change
<1> QED
  BY <1>3, <1>4

LEMMA ShareNowType ==
  ASSUME now \in 0 .. LastDay, NEW r \in Producers
  PROVE  ShareNow(r) \in Int
<1>1. r.votes \in Int /\ r.share \in Int /\ r.updated \in Int /\ now \in Int
  BY DaysAreNumbers DEF Producers
<1>2. r.votes * (now - r.updated) \in Int
  BY <1>1
<1> QED
  BY <1>1, <1>2 DEF ShareNow

LEMMA WithVotesFields ==
  ASSUME now \in 0 .. LastDay, NEW r \in Producers, NEW count \in Int
  PROVE  /\ WithVotes(r, count) \in Producers
         /\ WithVotes(r, count).votes = count
         /\ WithVotes(r, count).row = r.row
         /\ WithVotes(r, count).is_producer = r.is_producer
<1> DEFINE share == IF Lapsed(r) THEN 0 ELSE ShareNow(r)
<1>1. share \in Int
  BY ShareNowType
<1>2. WithVotes(r, count) = [r EXCEPT !.votes = count, !.share = share, !.updated = now]
  BY DEF WithVotes
<1> HIDE DEF share
<1>3. WithVotes(r, count) \in Producers
  BY <1>1, <1>2 DEF Producers
<1>4. WithVotes(r, count).votes = count
  BY <1>2 DEF Producers
<1>5. WithVotes(r, count).row = r.row
  BY <1>2 DEF Producers
<1>6. WithVotes(r, count).is_producer = r.is_producer
  BY <1>2 DEF Producers
<1> QED
  BY <1>3, <1>4, <1>5, <1>6

LEMMA TotalsAfterFields ==
  ASSUME now \in 0 .. LastDay, NEW r \in Producers, NEW delta \in Int,
         NEW g \in [weight : Int, share : Int, rate : Int, updated : 0 .. LastDay]
  PROVE  /\ TotalsAfter(g, r, delta)
               \in [weight : Int, share : Int, rate : Int, updated : 0 .. LastDay]
         /\ TotalsAfter(g, r, delta).weight = g.weight + delta
<1> DEFINE extra == IF Lapsed(r) THEN -ShareNow(r) ELSE 0
           rate == IF Lapsed(r) THEN -r.votes ELSE IF Crossed(r) THEN 0 ELSE delta
           new == [g EXCEPT !.weight = @ + delta]
<1>1. r.votes \in Int
  BY DEF Producers
<1>2. extra \in Int /\ rate \in Int
  BY <1>1, ShareNowType
<1>3. /\ new \in [weight : Int, share : Int, rate : Int, updated : 0 .. LastDay]
      /\ new.weight = g.weight + delta
  OBVIOUS
<1>4. TotalsAfter(g, r, delta) = ShareTotal(new, extra, rate)
  BY DEF TotalsAfter
<1> HIDE DEF extra, rate, new
<1> QED
  BY <1>2, <1>3, <1>4, ShareTotalType

\* What update_votes and propagate_weight_change do to a producer and the totals.
\* The same accounts have a producer row, and produce.
SameRoles(t, u) ==
    \A x \in Accounts : /\ u.producers[x].row = t.producers[x].row
                        /\ u.producers[x].is_producer = t.producers[x].is_producer

\* The votes of p have become count.
RecountedAs(t, u, p, delta, count) ==
    /\ u \in TablesType
    /\ u.voters = t.voters /\ u.activation = t.activation
    /\ u.totals.weight = t.totals.weight + delta
    /\ u.producers[p].votes = count
    /\ SameRoles(t, u)
    /\ \A x \in Accounts \ {p} : u.producers[x] = t.producers[x]

LEMMA RecountedFields ==
  ASSUME now \in 0 .. LastDay, NEW t \in TablesType, NEW p \in Accounts,
         NEW delta \in Int, NEW count \in Int
  PROVE  RecountedAs(t, Recounted(t, p, delta, count), p, delta, count)
<1> DEFINE u == Recounted(t, p, delta, count)
           s == WithVotes(t.producers[p], count)
           g == TotalsAfter(t.totals, t.producers[p], delta)
<1>1. t.producers[p] \in Producers
      /\ t.totals \in [weight : Int, share : Int, rate : Int, updated : 0 .. LastDay]
  BY DEF TablesType
<1>2. /\ s \in Producers /\ s.votes = count /\ s.row = t.producers[p].row
      /\ s.is_producer = t.producers[p].is_producer
  BY <1>1, WithVotesFields
<1>3. g \in [weight : Int, share : Int, rate : Int, updated : 0 .. LastDay]
      /\ g.weight = t.totals.weight + delta
  BY <1>1, TotalsAfterFields
<1>4. u = [t EXCEPT !.producers[p] = s, !.totals = g]
  BY DEF Recounted
<1> HIDE DEF u, s, g
<1>5. u \in TablesType /\ u.voters = t.voters /\ u.activation = t.activation
  BY <1>2, <1>3, <1>4 DEF TablesType
<1>6. u.producers[p] = s /\ \A x \in Accounts \ {p} : u.producers[x] = t.producers[x]
  BY <1>4 DEF TablesType
<1>7. u.totals.weight = t.totals.weight + delta
  BY <1>3, <1>4 DEF TablesType
<1> QED
  BY <1>2, <1>5, <1>6, <1>7 DEF u, SameRoles, RecountedAs

(***************************************************************************)
(* The shares of the vote pay                                              *)
(***************************************************************************)
LEMMA ShareFacts ==
  ASSUME now \in 0 .. LastDay, NEW r \in Producers, PaidRow(r), r.votes >= 0
  PROVE  ShareNow(r) \in Nat /\ RateOf(r) \in Nat
<1>1. r.votes \in Nat /\ r.share \in Nat /\ now - r.updated \in Nat
  BY DaysAreNumbers DEF Producers, PaidRow
<1>2. r.votes * (now - r.updated) \in Nat
  BY <1>1
<1> QED
  BY <1>1, <1>2 DEF ShareNow, RateOf

\* The totals by themselves: what accrued is added, and the clock set.
LEMMA ShareTotalFields ==
  ASSUME NEW extra, NEW rate,
         NEW g \in [weight : Int, share : Int, rate : Int, updated : 0 .. LastDay]
  PROVE  LET u == ShareTotal(g, extra, rate)
         IN /\ u.share = Larger(0, g.share + g.rate * (now - g.updated) + extra)
            /\ u.rate = Larger(0, g.rate + rate)
            /\ u.updated = now
<1> DEFINE share == Larger(0, g.share + g.rate * (now - g.updated) + extra)
           change == Larger(0, g.rate + rate)
<1>1. ShareTotal(g, extra, rate)
        = [g EXCEPT !.share = share, !.rate = change, !.updated = now]
  BY DEF ShareTotal
<1> HIDE DEF share, change
<1>2. /\ ShareTotal(g, extra, rate).share = share /\ ShareTotal(g, extra, rate).rate = change
      /\ ShareTotal(g, extra, rate).updated = now
  BY <1>1
<1> QED
  BY <1>2 DEF share, change

LEMMA PaidTypes ==
  ASSUME now \in 0 .. LastDay, NEW t \in TablesType, Paid(t),
         \A x \in Accounts : t.producers[x].votes >= 0
  PROVE  /\ \A x \in Accounts : /\ ShareNow(t.producers[x]) \in Nat
                                /\ RateOf(t.producers[x]) \in Nat
         /\ Total(Shares(t), Accounts) \in Nat /\ Total(Rates(t), Accounts) \in Nat
<1>1. \A x \in Accounts : ShareNow(t.producers[x]) \in Nat /\ RateOf(t.producers[x]) \in Nat
  BY ShareFacts DEF Paid, TablesType
<1> QED
  BY <1>1, TotalType, AccountsAssumption DEF Shares, Rates

\* One producer's row changes from r to s, and the totals with it: as much is
\* added to what accrued as its share grows by, and so with the rate.
LEMMA PaidChange ==
  ASSUME now \in 0 .. LastDay, NEW t \in TablesType, Paid(t), NEW u \in TablesType,
         \A x \in Accounts : t.producers[x].votes >= 0,
         NEW p \in Accounts, \A x \in Accounts \ {p} : u.producers[x] = t.producers[x],
         PaidRow(u.producers[p]), u.producers[p].votes >= 0,
         NEW g \in [weight : Int, share : Int, rate : Int, updated : 0 .. LastDay],
         g.share = t.totals.share, g.rate = t.totals.rate, g.updated = t.totals.updated,
         NEW extra \in Int, NEW rate \in Int,
         u.totals = ShareTotal(g, extra, rate),
         ShareNow(u.producers[p]) = ShareNow(t.producers[p]) + extra,
         RateOf(u.producers[p]) = RateOf(t.producers[p]) + rate
  PROVE  Paid(u)
<1>1. /\ \A x \in Accounts : ShareNow(t.producers[x]) \in Nat /\ RateOf(t.producers[x]) \in Nat
      /\ Total(Shares(t), Accounts) \in Nat /\ Total(Rates(t), Accounts) \in Nat
  BY PaidTypes
<1>2. ShareNow(u.producers[p]) \in Nat /\ RateOf(u.producers[p]) \in Nat
  BY ShareFacts DEF TablesType
<1>3. \A x \in Accounts : /\ Shares(t)[x] \in Nat /\ Shares(u)[x] \in Nat
                          /\ Rates(t)[x] \in Nat /\ Rates(u)[x] \in Nat
  BY <1>1, <1>2 DEF Shares, Rates
<1>4. \A x \in Accounts \ {p} : Shares(t)[x] = Shares(u)[x] /\ Rates(t)[x] = Rates(u)[x]
  BY DEF Shares, Rates
<1>5. /\ Total(Shares(u), Accounts) = Total(Shares(t), Accounts) - Shares(t)[p] + Shares(u)[p]
      /\ Total(Shares(u), Accounts) \in Nat
  BY <1>3, <1>4, TotalChange, TotalType, AccountsAssumption
<1>6. /\ Total(Rates(u), Accounts) = Total(Rates(t), Accounts) - Rates(t)[p] + Rates(u)[p]
      /\ Total(Rates(u), Accounts) \in Nat
  BY <1>3, <1>4, TotalChange, TotalType, AccountsAssumption
<1>7. /\ Shares(t)[p] = ShareNow(t.producers[p]) /\ Shares(u)[p] = ShareNow(u.producers[p])
      /\ Rates(t)[p] = RateOf(t.producers[p]) /\ Rates(u)[p] = RateOf(u.producers[p])
  BY DEF Shares, Rates
<1>8. /\ Total(Shares(u), Accounts) = Total(Shares(t), Accounts) + extra
      /\ Total(Rates(u), Accounts) = Total(Rates(t), Accounts) + rate
  BY <1>1, <1>5, <1>6, <1>7
<1>9. /\ g.share + g.rate * (now - g.updated) = Total(Shares(t), Accounts)
      /\ g.rate = Total(Rates(t), Accounts)
  BY DEF Paid
<1>10. /\ u.totals.share = Larger(0, g.share + g.rate * (now - g.updated) + extra)
       /\ u.totals.rate = Larger(0, g.rate + rate)
       /\ u.totals.updated = now
  BY ShareTotalFields
<1>11. u.totals.share = Total(Shares(u), Accounts) /\ u.totals.rate = Total(Rates(u), Accounts)
  BY <1>5, <1>6, <1>8, <1>9, <1>10 DEF Larger
<1>12. u.totals.share + u.totals.rate * (now - u.totals.updated) = Total(Shares(u), Accounts)
  <2>1. now \in Int /\ u.totals.updated = now /\ u.totals.rate \in Int
    BY <1>6, <1>10, <1>11, DaysAreNumbers
  <2>2. u.totals.rate * (now - u.totals.updated) = 0
    BY <2>1
  <2> QED
    BY <1>5, <1>11, <2>2
<1>13. \A x \in Accounts : PaidRow(u.producers[x])
  BY DEF Paid
<1> QED
  BY <1>11, <1>12, <1>13 DEF Paid

\* The clock of the totals is set without a change of votes.
LEMMA PaidTouch ==
  ASSUME now \in 0 .. LastDay, NEW t \in TablesType, Paid(t), NEW u \in TablesType,
         \A x \in Accounts : t.producers[x].votes >= 0,
         u.producers = t.producers, u.totals = ShareTotal(t.totals, 0, 0)
  PROVE  Paid(u)
<1>1. Shares(u) = Shares(t) /\ Rates(u) = Rates(t)
  BY DEF Shares, Rates
<1>2. Total(Shares(t), Accounts) \in Nat /\ Total(Rates(t), Accounts) \in Nat
  BY PaidTypes
<1> DEFINE g == t.totals
<1>3. g \in [weight : Int, share : Int, rate : Int, updated : 0 .. LastDay]
  BY DEF TablesType
<1>4. /\ g.share + g.rate * (now - g.updated) = Total(Shares(t), Accounts)
      /\ g.rate = Total(Rates(t), Accounts)
  BY DEF Paid
<1>5. /\ u.totals.share = Larger(0, g.share + g.rate * (now - g.updated) + 0)
      /\ u.totals.rate = Larger(0, g.rate + 0)
      /\ u.totals.updated = now
  BY <1>3, ShareTotalFields
<1>6. u.totals.share = Total(Shares(t), Accounts) /\ u.totals.rate = Total(Rates(t), Accounts)
  BY <1>2, <1>4, <1>5 DEF Larger
<1>7. u.totals.rate * (now - u.totals.updated) = 0
  <2>1. now \in Int /\ u.totals.updated = now /\ u.totals.rate \in Int
    BY <1>2, <1>5, <1>6, DaysAreNumbers
  <2> QED
    BY <2>1
<1> QED
  BY <1>1, <1>2, <1>6, <1>7 DEF Paid

LEMMA PaidSame ==
  ASSUME NEW t, Paid(t), NEW u, u.producers = t.producers, u.totals = t.totals
  PROVE  Paid(u)
<1>1. Shares(u) = Shares(t) /\ Rates(u) = Rates(t)
  BY DEF Shares, Rates
<1> QED
  BY <1>1 DEF Paid

\* A producer counted anew: a share that lapsed since its last update leaves the
\* total with the votes that earned it, and earns no more.
LEMMA RecountedPaid ==
  ASSUME now \in 0 .. LastDay, NEW t \in TablesType, Paid(t), NEW p \in Accounts,
         \A x \in Accounts : t.producers[x].votes >= 0,
         t.producers[p].row, NEW delta \in Int, NEW count \in Int, count >= 0,
         count = t.producers[p].votes + delta
  PROVE  Paid(Recounted(t, p, delta, count))
<1> DEFINE u == Recounted(t, p, delta, count)
           r == t.producers[p]
           s == WithVotes(r, count)
           g == [t.totals EXCEPT !.weight = @ + delta]
           extra == IF Lapsed(r) THEN -ShareNow(r) ELSE 0
           rate == IF Lapsed(r) THEN -r.votes ELSE IF Crossed(r) THEN 0 ELSE delta
<1>1. /\ r \in Producers /\ r.votes \in Nat /\ PaidRow(r)
      /\ t.totals \in [weight : Int, share : Int, rate : Int, updated : 0 .. LastDay]
      /\ now \in Int /\ r.claimed \in Int /\ r.updated \in Int /\ ShareLife \in Nat \ {0}
  BY DaysAreNumbers, StakeAssumption DEF TablesType, Producers, Paid
<1>2. ShareNow(r) \in Nat
  BY <1>1, ShareFacts
<1>3. RecountedAs(t, u, p, delta, count)
  BY RecountedFields
<1>4. u.producers[p] = s /\ u.totals = ShareTotal(g, extra, rate)
  <2>1. u = [t EXCEPT !.producers[p] = s, !.totals = TotalsAfter(t.totals, r, delta)]
    BY DEF Recounted
  <2>2. TotalsAfter(t.totals, r, delta) = ShareTotal(g, extra, rate)
    BY DEF TotalsAfter
  <2> HIDE DEF u, s, r, g, extra, rate
  <2> QED
    BY <2>1, <2>2 DEF TablesType
<1>5. /\ g \in [weight : Int, share : Int, rate : Int, updated : 0 .. LastDay]
      /\ g.share = t.totals.share /\ g.rate = t.totals.rate /\ g.updated = t.totals.updated
  BY <1>1
<1>6. extra \in Int /\ rate \in Int
  BY <1>1, <1>2
<1>7. /\ s \in Producers /\ s.votes = count /\ s.row = r.row
      /\ s.share = (IF Lapsed(r) THEN 0 ELSE ShareNow(r))
      /\ s.updated = now /\ s.claimed = r.claimed
  <2> DEFINE share == IF Lapsed(r) THEN 0 ELSE ShareNow(r)
  <2>1. s = [r EXCEPT !.votes = count, !.share = share, !.updated = now]
    BY DEF WithVotes
  <2> HIDE DEF r, share
  <2>2. s.share = share /\ s.updated = now /\ s.claimed = r.claimed
    BY <1>1, <2>1 DEF Producers
  <2>3. s \in Producers /\ s.votes = count /\ s.row = r.row
    BY <1>1, WithVotesFields
  <2> QED
    BY <2>2, <2>3 DEF share
<1> HIDE DEF s, r
<1>8. s.row /\ PaidRow(s)
  <2>1. r.row
    BY DEF r
  <2> QED
    BY <1>1, <1>2, <1>7, <2>1 DEF PaidRow
<1>9. ShareNow(s) = s.share
  <2>1. s.votes * (now - s.updated) = 0
    BY <1>1, <1>7
  <2> QED
    BY <1>2, <1>7, <2>1 DEF ShareNow
<1>10. ShareNow(s) = ShareNow(r) + extra
  BY <1>2, <1>7, <1>9
<1>11. RateOf(s) = RateOf(r) + rate
  BY <1>1, <1>7 DEF RateOf, Lapsed, Crossed, UpdatedAfter, PaidRow, r
<1> HIDE DEF u, g, extra, rate
<1>12. /\ u \in TablesType /\ \A x \in Accounts \ {p} : u.producers[x] = t.producers[x]
  BY <1>3 DEF RecountedAs
<1>13. ShareNow(u.producers[p]) = ShareNow(t.producers[p]) + extra
       /\ RateOf(u.producers[p]) = RateOf(t.producers[p]) + rate
  BY <1>4, <1>10, <1>11 DEF r
<1>14. PaidRow(u.producers[p]) /\ u.producers[p].votes >= 0
  BY <1>4, <1>7, <1>8
<1>15. Paid(u)
  BY <1>4, <1>5, <1>6, <1>12, <1>13, <1>14, PaidChange
<1> QED
  BY <1>15 DEF u

LEMMA OneMore ==
  ASSUME NEW n \in Int, NEW d \in Int, NEW e \in Int, e = d + 1
  PROVE  n * e = n * d + n /\ n * d \in Int
OBVIOUS

\* A day: every share that has not lapsed grows by its votes.
LEMMA PaidDay ==
  ASSUME now \in 0 .. LastDay, now' = now + 1, Tables \in TablesType, Paid(Tables),
         \A x \in Accounts : producers[x].votes >= 0,
         UNCHANGED <<voters, producers, totals, activation>>
  PROVE  Paid(Tables)'
<1>1. /\ Tables.producers = producers /\ Tables.totals = totals
      /\ Tables'.producers = producers /\ Tables'.totals = totals
  BY DEF Tables
<1>2. /\ \A x \in Accounts : ShareNow(producers[x]) \in Nat /\ RateOf(producers[x]) \in Nat
      /\ Total(Shares(Tables), Accounts) \in Nat /\ Total(Rates(Tables), Accounts) \in Nat
  BY <1>1, PaidTypes
<1>3. /\ producers \in [Accounts -> Producers] /\ now \in Int
      /\ totals \in [weight : Int, share : Int, rate : Int, updated : 0 .. LastDay]
      /\ totals.updated \in Int
  BY <1>1, DaysAreNumbers DEF TablesType
<1>4. ASSUME NEW x \in Accounts
      PROVE  /\ PaidRow(Tables.producers[x])'
             /\ Rates(Tables)'[x] = Rates(Tables)[x]
             /\ Shares(Tables)'[x] = Shares(Tables)[x] + Rates(Tables)[x]
  <2> DEFINE r == producers[x]
  <2>1. /\ r \in Producers /\ r.votes \in Nat /\ PaidRow(r) /\ producers'[x] = r
        /\ r.updated \in Int /\ r.share \in Int
    BY <1>1, <1>3, DaysAreNumbers DEF Producers, Paid
  <2> HIDE DEF r
  <2>2. PaidRow(Tables.producers[x])'
    <3>1. Tables'.producers[x] = r
      BY <1>1 DEF r
    <3> HIDE DEF Tables
    <3> QED
      BY <1>3, <2>1, <3>1 DEF PaidRow
  <2>3. r.votes * (now + 1 - r.updated) = r.votes * (now - r.updated) + r.votes
        /\ r.votes * (now - r.updated) \in Int
    <3>1. /\ r.votes \in Int /\ now - r.updated \in Int /\ now + 1 - r.updated \in Int
          /\ now + 1 - r.updated = (now - r.updated) + 1
      BY <1>3, <2>1
    <3> QED
      BY <3>1, OneMore
  <2>4. Shares(Tables)'[x] = r.share + (IF UpdatedAfter(r) \/ r.votes <= 0 THEN 0
                                        ELSE r.votes * (now + 1 - r.updated))
    BY <1>1, <2>1 DEF Shares, ShareNow, UpdatedAfter
  <2>5. Shares(Tables)[x] = r.share + (IF UpdatedAfter(r) \/ r.votes <= 0 THEN 0
                                       ELSE r.votes * (now - r.updated))
    BY <1>1, <2>1 DEF Shares, ShareNow, r
  <2>6. /\ Rates(Tables)[x] = IF UpdatedAfter(r) THEN 0 ELSE r.votes
        /\ Rates(Tables)'[x] = IF UpdatedAfter(r) THEN 0 ELSE r.votes
    BY <1>1, <2>1 DEF Rates, RateOf, UpdatedAfter, r
  <2> QED
    BY <2>1, <2>2, <2>3, <2>4, <2>5, <2>6
<1>5. \A x \in Accounts : Shares(Tables)[x] \in Nat /\ Rates(Tables)[x] \in Nat
  BY <1>1, <1>2 DEF Shares, Rates
<1>6. Total(Shares(Tables)', Accounts)
        = Total(Shares(Tables), Accounts) + Total(Rates(Tables), Accounts)
  BY <1>4, <1>5, TotalSum, AccountsAssumption
<1>7. Total(Rates(Tables)', Accounts) = Total(Rates(Tables), Accounts)
  BY <1>4, TotalCong
<1>8. /\ totals.rate = Total(Rates(Tables), Accounts)
      /\ totals.share + totals.rate * (now - totals.updated) = Total(Shares(Tables), Accounts)
  BY <1>1 DEF Paid
<1>9. totals.share + totals.rate * (now + 1 - totals.updated) = Total(Shares(Tables)', Accounts)
  <2>1. totals.rate \in Int /\ totals.share \in Int
    BY <1>3
  <2>2. totals.rate * (now + 1 - totals.updated)
          = totals.rate * (now - totals.updated) + totals.rate
        /\ totals.rate * (now - totals.updated) \in Int
    BY <1>3, <2>1
  <2> QED
    BY <1>6, <1>8, <2>1, <2>2
<1>10. /\ Tables'.totals.rate = Total(Rates(Tables)', Accounts)
       /\ Tables'.totals.share + Tables'.totals.rate * (now' - Tables'.totals.updated)
            = Total(Shares(Tables)', Accounts)
  <2>1. Tables'.totals = totals /\ now' = now + 1
    BY <1>1
  <2> HIDE DEF Tables
  <2> QED
    BY <1>3, <1>7, <1>8, <1>9, <2>1
<1> QED
  BY <1>4, <1>10 DEF Paid

\* The total weight follows when the votes of one producer change.
LEMMA TallyChange ==
  ASSUME NEW t \in TablesType, NEW u \in TablesType, NEW p \in Accounts, NEW delta \in Int,
         t.totals.weight = Total(Votes(t), Accounts),
         u.totals.weight = t.totals.weight + delta,
         u.producers[p].votes = t.producers[p].votes + delta,
         \A x \in Accounts \ {p} : u.producers[x] = t.producers[x],
         \A x \in Accounts : t.producers[x].votes >= 0,
         u.producers[p].votes >= 0
  PROVE  u.totals.weight = Total(Votes(u), Accounts)
<1>1. \A x \in Accounts : Votes(t)[x] \in Nat /\ Votes(u)[x] \in Nat
  BY DEF Votes, TablesType, Producers
<1>2. \A x \in Accounts \ {p} : Votes(t)[x] = Votes(u)[x]
  BY DEF Votes
<1>3. Total(Votes(u), Accounts) = Total(Votes(t), Accounts) - Votes(t)[p] + Votes(u)[p]
  BY <1>1, <1>2, TotalChange, AccountsAssumption
<1>4. Total(Votes(t), Accounts) \in Nat
  BY <1>1, TotalType, AccountsAssumption
<1>5. Votes(u)[p] = Votes(t)[p] + delta
  BY DEF Votes
<1> QED
  BY <1>1, <1>3, <1>4, <1>5

(***************************************************************************)
(* propagate_weight_change                                                 *)
(***************************************************************************)
\* u differs from t in what weights are counted, and in nothing a voter chose.
Same(t, u) ==
    /\ \A x \in Accounts :
          /\ u.voters[x].row = t.voters[x].row
          /\ u.voters[x].staked = t.voters[x].staked
          /\ u.voters[x].proxy = t.voters[x].proxy
          /\ u.voters[x].producers = t.voters[x].producers
          /\ u.voters[x].is_proxy = t.voters[x].is_proxy
          /\ u.producers[x].row = t.producers[x].row
          /\ u.producers[x].is_producer = t.producers[x].is_producer
    /\ u.activation = t.activation

LEMMA GainedType ==
  ASSUME now \in 0 .. LastDay, NEW t \in TablesType, NEW S \in SUBSET Accounts, NEW y
  PROVE  /\ Gained(t, S, y) \in Int
         /\ (\A x \in S : Counted(t, x)) => Gained(t, S, y) % 2 = 0
<1> DEFINE clients == {x \in S : Forwards(t, x) /\ t.voters[x].proxy = y}
           c == CHOOSE x \in clients : TRUE
<1>1. CASE clients = {}
  BY <1>1 DEF Gained
<1>2. CASE clients # {}
  <2>1. c \in S
    BY <1>2
  <2>2. Gained(t, S, y) = Change(t, c)
    BY <1>2 DEF Gained
  <2> QED
    BY <2>1, <2>2, SmallChange
<1> QED
  BY <1>1, <1>2

LEMMA ReweighedFields ==
  ASSUME now \in 0 .. LastDay, NEW t \in TablesType, NEW S \in SUBSET Accounts
  PROVE  LET u == Reweighed(t, S)
         IN /\ u \in TablesType
            /\ Same(t, u)
            /\ u.producers = t.producers /\ u.totals = t.totals
            /\ \A x \in Accounts :
                  /\ u.voters[x].last = IF x \in S THEN Weight(t.voters[x].staked)
                                        ELSE t.voters[x].last
                  /\ u.voters[x].proxied = t.voters[x].proxied + Gained(t, S, x)
<1> DEFINE u == Reweighed(t, S)
           after(x) == [t.voters[x] EXCEPT
                        !.last = IF x \in S THEN Weight(t.voters[x].staked) ELSE @,
                        !.proxied = @ + Gained(t, S, x)]
<1>1. u = [t EXCEPT !.voters = [x \in Accounts |-> after(x)]]
  BY DEF Reweighed
<1>2. ASSUME NEW x \in Accounts
      PROVE  /\ after(x) \in Voters
             /\ after(x).last = IF x \in S THEN Weight(t.voters[x].staked) ELSE t.voters[x].last
             /\ after(x).proxied = t.voters[x].proxied + Gained(t, S, x)
             /\ after(x).row = t.voters[x].row
             /\ after(x).staked = t.voters[x].staked
             /\ after(x).proxy = t.voters[x].proxy
             /\ after(x).producers = t.voters[x].producers
             /\ after(x).is_proxy = t.voters[x].is_proxy
  <2>1. t.voters[x] \in Voters
    BY DEF TablesType
  <2>2. Weight(t.voters[x].staked) \in Int
    BY <2>1, WeightFacts DEF Voters
  <2>3. Gained(t, S, x) \in Int
    BY GainedType
  <2>4. after(x) \in Voters
    <3> DEFINE last == IF x \in S THEN Weight(t.voters[x].staked) ELSE t.voters[x].last
               proxied == t.voters[x].proxied + Gained(t, S, x)
    <3>1. last \in Int /\ proxied \in Int
      BY <2>1, <2>2, <2>3 DEF Voters
    <3> HIDE DEF last, proxied
    <3>2. [t.voters[x] EXCEPT !.last = last, !.proxied = proxied] \in Voters
      BY <2>1, <3>1 DEF Voters
    <3> QED
      BY <3>2 DEF last, proxied
  <2>5. /\ after(x).last = IF x \in S THEN Weight(t.voters[x].staked) ELSE t.voters[x].last
        /\ after(x).proxied = t.voters[x].proxied + Gained(t, S, x)
        /\ after(x).staked = t.voters[x].staked
        /\ after(x).proxy = t.voters[x].proxy
        /\ after(x).producers = t.voters[x].producers
    BY <2>1 DEF Voters
  <2>6. after(x).row = t.voters[x].row
    BY <2>1 DEF Voters
  <2>7. after(x).is_proxy = t.voters[x].is_proxy
    BY <2>1 DEF Voters
  <2> QED
    BY <2>4, <2>5, <2>6, <2>7
<1> HIDE DEF after, u
<1>3. u \in TablesType /\ u.producers = t.producers /\ u.totals = t.totals
      /\ u.activation = t.activation /\ u.voters = [x \in Accounts |-> after(x)]
  BY <1>1, <1>2 DEF TablesType
<1>4. Same(t, u)
  BY <1>2, <1>3 DEF Same
<1> QED
  BY <1>2, <1>3, <1>4 DEF u

\* The sums of the proxies are sums again: each proxy on the way gains what its
\* one client there gains.
LEMMA ReweighedSums ==
  ASSUME now \in 0 .. LastDay, NEW t \in TablesType, Ends(t),
         \A x \in Accounts : Linked(t, x) /\ Counted(t, x),
         NEW a \in Accounts, NEW D \in SUBSET Accounts, Reached(t, a) \subseteq D,
         NEW c \in [Accounts -> Int], ProxiedFrom(t, D, c)
  PROVE  ProxiedFrom(Reweighed(t, Reached(t, a)), D, c)
<1> DEFINE S == Reached(t, a)
           u == Reweighed(t, S)
<1>1. S \in SUBSET Accounts
  BY ReachedClosed
<1> HIDE DEF S
<1>2. /\ u \in TablesType /\ Same(t, u)
      /\ \A x \in Accounts :
            /\ u.voters[x].last = IF x \in S THEN Weight(t.voters[x].staked)
                                  ELSE t.voters[x].last
            /\ u.voters[x].proxied = t.voters[x].proxied + Gained(t, S, x)
  BY <1>1, ReweighedFields
<1> HIDE DEF u
<1> SUFFICES ASSUME NEW P \in Accounts
             PROVE  u.voters[P].proxied = Total(Lasts(u), ClientsIn(u, D, P)) + c[P]
  BY DEF ProxiedFrom, u, S
<1> DEFINE C == ClientsIn(t, D, P)
           clients == {x \in S : Forwards(t, x) /\ t.voters[x].proxy = P}
           f == Lasts(t)
           g == Lasts(u)
<1>3. ClientsIn(u, D, P) = C
  BY <1>2 DEF ClientsIn, Same
<1>4. IsFiniteSet(C) /\ C \subseteq Accounts
  BY AccountsAssumption, FS_Subset DEF ClientsIn
<1>5. \A x \in Accounts : f[x] \in Nat /\ g[x] \in Nat
  <2> SUFFICES ASSUME NEW x \in Accounts PROVE f[x] \in Nat /\ g[x] \in Nat
    OBVIOUS
  <2>1. t.voters[x].last \in Int /\ t.voters[x].staked \in Nat /\ t.voters[x].last >= 0
    BY DEF TablesType, Voters, Counted
  <2>2. Weight(t.voters[x].staked) \in Nat
    BY <2>1, WeightFacts
  <2> QED
    BY <1>2, <2>1, <2>2 DEF Lasts
<1>6. ASSUME NEW x \in C, x \notin clients
      PROVE  g[x] = f[x]
  <2>1. x \in Accounts /\ t.voters[x].proxy = P
    BY <1>4 DEF ClientsIn
  <2>2. CASE x \notin S
    BY <1>2, <2>1, <2>2 DEF Lasts
  <2>3. CASE x \in S
    <3>1. ~Moves(t, x)
      BY <1>6, <2>1, <2>3, NoOneAssumption DEF Forwards
    <3>2. Change(t, x) = 0
      BY <2>1, <3>1, SmallChange
    <3>3. Weight(t.voters[x].staked) \in Int /\ t.voters[x].last \in Int
      BY <2>1, WeightFacts DEF TablesType, Voters
    <3> QED
      BY <1>2, <2>1, <2>3, <3>2, <3>3 DEF Change, Lasts
  <2> QED
    BY <2>2, <2>3
<1>7. t.voters[P].proxied = Total(f, C) + c[P]
  BY DEF ProxiedFrom
<1>8. u.voters[P].proxied = t.voters[P].proxied + Gained(t, S, P)
  BY <1>2
<1>9. Total(f, C) \in Nat /\ c[P] \in Int
  BY <1>4, <1>5, TotalType
<1>10. CASE clients = {}
  <2>1. Total(g, C) = Total(f, C)
    BY <1>6, <1>10, TotalCong
  <2>2. Gained(t, S, P) = 0
    BY <1>10 DEF Gained
  <2> QED
    BY <1>3, <1>7, <1>8, <1>9, <2>1, <2>2
<1>11. CASE clients # {}
  <2> DEFINE k == CHOOSE x \in clients : TRUE
  <2>1. k \in clients
    BY <1>11
  <2>2. Gained(t, S, P) = Change(t, k)
    BY <1>11 DEF Gained
  <2> HIDE DEF k
  <2>3. k \in Accounts /\ k \in S /\ k \in C
    BY <1>1, <2>1 DEF ClientsIn, S
  <2>4. \A x \in C \ {k} : f[x] = g[x]
    <3> SUFFICES ASSUME NEW x \in C \ {k} PROVE x \notin clients
      BY <1>6
    <3> QED
      BY <2>1, OneClient DEF S
  <2>5. Total(g, C) = Total(f, C) - f[k] + g[k]
    BY <1>4, <1>5, <2>3, <2>4, TotalChange
  <2>6. f[k] + Change(t, k) = g[k]
    <3>1. Weight(t.voters[k].staked) \in Int /\ t.voters[k].last \in Int
      BY <2>3, WeightFacts DEF TablesType, Voters
    <3> QED
      BY <1>2, <2>3, <3>1 DEF Change, Lasts
  <2>7. f[k] \in Nat /\ g[k] \in Nat /\ Change(t, k) \in Int
    BY <1>5, <2>3, SmallChange
  <2> HIDE DEF f, g, C
  <2> QED
    BY <1>3, <1>7, <1>8, <1>9, <2>2, <2>5, <2>6, <2>7 DEF g
<1> QED
  BY <1>10, <1>11

\* What one voter counts for itself changes only at the end of the way.
LEMMA ReweighedOwn ==
  ASSUME now \in 0 .. LastDay, NEW t \in TablesType,
         \A x \in Accounts : Linked(t, x) /\ Counted(t, x),
         NEW S \in SUBSET Accounts, NEW x \in Accounts
  PROVE  LET u == Reweighed(t, S)
         IN /\ ~(x \in S /\ Moves(t, x) /\ ~Forwards(t, x)) => Own(u, x) = Own(t, x)
            /\ x \in S => u.voters[x].last = t.voters[x].last + Change(t, x)
<1> DEFINE u == Reweighed(t, S)
<1>1. /\ Same(t, u)
      /\ u.voters[x].last = IF x \in S THEN Weight(t.voters[x].staked) ELSE t.voters[x].last
  BY ReweighedFields
<1>2. Weight(t.voters[x].staked) \in Int /\ t.voters[x].last \in Int
  BY WeightFacts DEF TablesType, Voters
<1>3. x \in S => u.voters[x].last = t.voters[x].last + Change(t, x)
  BY <1>1, <1>2 DEF Change
<1>4. ASSUME ~(x \in S /\ Moves(t, x) /\ ~Forwards(t, x))
      PROVE  Own(u, x) = Own(t, x)
  <2>1. CASE x \notin S
    BY <1>1, <2>1 DEF Own, Same
  <2>2. CASE x \in S /\ ~Moves(t, x)
    <3>1. Change(t, x) = 0
      BY <2>2, SmallChange
    <3>2. u.voters[x].last = t.voters[x].last
      BY <1>2, <1>3, <2>2, <3>1
    <3> HIDE DEF u
    <3> QED
      BY <1>1, <3>2 DEF Own, Same
  <2>3. CASE Forwards(t, x)
    BY <1>1, <2>3 DEF Own, Same, Linked, Forwards
  <2> QED
    BY <1>4, <2>1, <2>2, <2>3
<1> QED
  BY <1>3, <1>4

\* Where the way ends, a producer that votes for itself is counted anew.
LEMMA PropagatedEnd ==
  ASSUME now \in 0 .. LastDay, NEW t \in TablesType, Ends(t),
         \A x \in Accounts : Linked(t, x) /\ Counted(t, x),
         Tallied(t), Paid(t), NEW a \in Accounts
  PROVE  LET u == Reweighed(t, Reached(t, a))
             v == Propagated(t, a)
         IN /\ v \in TablesType
            /\ v.voters = u.voters /\ v.activation = t.activation
            /\ SameRoles(t, v)
            /\ Tallied(v) /\ Paid(v)
<1> DEFINE S == Reached(t, a)
           u == Reweighed(t, S)
           v == Propagated(t, a)
           ends == {x \in S : Moves(t, x) /\ ~Forwards(t, x)}
           e == CHOOSE x \in ends : TRUE
<1>1. S \in SUBSET Accounts
  BY ReachedClosed
<1>2. \A x \in ends, y \in ends : x = y
  BY OneEnd
<1>3. v = IF ends = {} THEN u
          ELSE IF e \in t.voters[e].producers
               THEN Recounted(u, e, Change(t, e), u.producers[e].votes + Change(t, e))
               ELSE [u EXCEPT !.totals = ShareTotal(@, 0, 0)]
  BY DEF Propagated
<1> HIDE DEF S, v
<1>4. /\ u \in TablesType /\ Same(t, u)
      /\ u.producers = t.producers /\ u.totals = t.totals
      /\ \A x \in Accounts :
            u.voters[x].last = IF x \in S THEN Weight(t.voters[x].staked) ELSE t.voters[x].last
  BY <1>1, ReweighedFields
<1>5. \A x \in Accounts :
         /\ x \notin ends => Own(u, x) = Own(t, x)
         /\ x \in S => u.voters[x].last = t.voters[x].last + Change(t, x)
  BY <1>1, ReweighedOwn
<1> HIDE DEF u
<1>6. \A x \in Accounts : t.producers[x].votes \in Int /\ t.producers[x].votes >= 0
  BY DEF Tallied, Own, Counted, TablesType, Producers
<1>7. u.activation = t.activation
  BY <1>4 DEF Same
<1>10. Paid(u)
  BY <1>4, PaidSame
<1>8. CASE ends = {}
  <2>1. v = u
    BY <1>3, <1>8
  <2>2. \A x \in Accounts : u.producers[x].votes = Own(u, x)
    BY <1>4, <1>5, <1>8 DEF Tallied
  <2>3. Tallied(u)
    BY <1>4, <2>2 DEF Tallied, Votes
  <2> QED
    BY <1>4, <1>7, <1>10, <2>1, <2>3 DEF u, v, S, SameRoles
<1>9. CASE ends # {}
  <2>1. e \in ends
    BY <1>9
  <2> HIDE DEF e
  <2>2. e \in S /\ e \in Accounts /\ Moves(t, e) /\ ~Forwards(t, e)
    BY <1>1, <2>1
  <2>3. \A x \in Accounts \ {e} : x \notin ends
    BY <1>2, <2>1
  <2> HIDE DEF ends
  <2>4. Change(t, e) \in Int
    BY <2>2, SmallChange
  <2>5. \A x \in Accounts \ {e} : Own(u, x) = Own(t, x)
    BY <1>5, <2>3
  <2>6. CASE e \in t.voters[e].producers
    <3> DEFINE count == u.producers[e].votes + Change(t, e)
    <3>1. v = Recounted(u, e, Change(t, e), count)
      BY <1>3, <1>9, <2>6
    <3>2. count \in Int /\ u.producers[e].votes = t.producers[e].votes
      BY <1>4, <1>6, <2>2, <2>4
    <3>3. Own(t, e) = t.voters[e].last /\ Own(u, e) = t.voters[e].last + Change(t, e)
      BY <1>4, <1>5, <2>2, <2>6 DEF Own, Same
    <3>4. count = Own(u, e)
      BY <2>2, <3>2, <3>3 DEF Tallied
    <3>5. count >= 0
      <4>1. t.voters[e].staked \in Nat
        BY <2>2 DEF TablesType, Voters
      <4>2. Weight(t.voters[e].staked) >= 0
        BY <4>1, WeightFacts
      <4>3. u.voters[e].last >= 0
        BY <1>4, <2>2, <4>2
      <4> QED
        BY <1>5, <2>2, <3>3, <3>4, <4>3
    <3> HIDE DEF count
    <3>6. /\ v \in TablesType
          /\ v.voters = u.voters /\ v.activation = u.activation
          /\ v.totals.weight = u.totals.weight + Change(t, e)
          /\ v.producers[e].votes = count
          /\ SameRoles(u, v)
          /\ \A x \in Accounts \ {e} : v.producers[x] = u.producers[x]
      <4>1. RecountedAs(u, v, e, Change(t, e), count)
        BY <1>4, <2>2, <2>4, <3>1, <3>2, RecountedFields
      <4> QED
        BY <4>1 DEF RecountedAs
    <3>7. \A x \in Accounts : v.producers[x].votes = Own(u, x)
      BY <1>4, <2>5, <3>4, <3>6 DEF Tallied
    <3>8. \A x \in Accounts : Own(v, x) = Own(u, x)
      BY <3>6 DEF Own
    <3>9. v.producers[e].votes = t.producers[e].votes + Change(t, e)
      BY <3>2, <3>6 DEF count
    <3>10. v.totals.weight = Total(Votes(v), Accounts)
      BY <1>4, <1>6, <2>2, <2>4, <3>5, <3>6, <3>9, TallyChange DEF Tallied
    <3>11. Paid(v)
      <4>1. u.producers[e].row
        BY <1>4, <2>2, <2>6 DEF Linked
      <4> QED
        BY <1>4, <1>6, <1>10, <2>2, <2>4, <3>1, <3>2, <3>5, <4>1, RecountedPaid DEF count
    <3> QED
      BY <1>4, <1>7, <3>6, <3>7, <3>8, <3>10, <3>11 DEF Tallied, u, v, S, SameRoles
  <2>7. CASE e \notin t.voters[e].producers
    <3>1. v = [u EXCEPT !.totals = ShareTotal(@, 0, 0)]
      BY <1>3, <1>9, <2>7
    <3>2. u.totals \in [weight : Int, share : Int, rate : Int, updated : 0 .. LastDay]
      BY <1>4 DEF TablesType
    <3> DEFINE g == ShareTotal(u.totals, 0, 0)
    <3>3. /\ g \in [weight : Int, share : Int, rate : Int, updated : 0 .. LastDay]
          /\ g.weight = u.totals.weight
      <4>1. 0 \in Int
        OBVIOUS
      <4> QED
        BY <3>2, <4>1, ShareTotalType
    <3>4. v = [u EXCEPT !.totals = g]
      BY <3>1
    <3> HIDE DEF g
    <3>5. /\ v \in TablesType
          /\ v.voters = u.voters /\ v.producers = u.producers /\ v.activation = u.activation
          /\ v.totals.weight = u.totals.weight
      BY <1>4, <3>3, <3>4 DEF TablesType
    <3>6. Own(u, e) = Own(t, e)
      BY <1>4, <2>2, <2>7 DEF Own, Same
    <3>7. \A x \in Accounts : v.producers[x].votes = Own(v, x)
      BY <1>4, <2>5, <3>5, <3>6 DEF Tallied, Own
    <3>8. v.totals = ShareTotal(u.totals, 0, 0)
      BY <1>4, <3>4 DEF TablesType, g
    <3>9. Paid(v)
      BY <1>4, <1>6, <1>10, <3>5, <3>8, PaidTouch
    <3> QED
      BY <1>4, <1>7, <3>5, <3>7, <3>9 DEF Tallied, Votes, u, v, S, SameRoles
  <2> QED
    BY <2>6, <2>7
<1> QED
  BY <1>8, <1>9

\* All of it: what propagate_weight_change keeps, and what it leaves alone.
LEMMA PropagatedSound ==
  ASSUME now \in 0 .. LastDay, NEW t, Sound(t), NEW a \in Accounts
  PROVE  LET v == Propagated(t, a)
         IN /\ Sound(v)
            /\ Same(t, v)
            /\ \A x \in Accounts \ Reached(t, a) : v.voters[x].last = t.voters[x].last
            /\ \A D \in SUBSET Accounts, c \in [Accounts -> Int] :
                  Reached(t, a) \subseteq D /\ ProxiedFrom(t, D, c) => ProxiedFrom(v, D, c)
<1> DEFINE S == Reached(t, a)
           u == Reweighed(t, S)
           v == Propagated(t, a)
<1>0. /\ t \in TablesType /\ Ends(t) /\ Tallied(t) /\ Paid(t)
      /\ \A x \in Accounts : Linked(t, x) /\ Counted(t, x)
  BY DEF Sound
<1>1. S \in SUBSET Accounts
  BY <1>0, ReachedClosed
<1>2. /\ v \in TablesType /\ v.voters = u.voters /\ v.activation = t.activation
      /\ SameRoles(t, v)
      /\ Tallied(v) /\ Paid(v)
  BY <1>0, PropagatedEnd
<1>3. \A D \in SUBSET Accounts, c \in [Accounts -> Int] :
         S \subseteq D /\ ProxiedFrom(t, D, c) => ProxiedFrom(u, D, c)
  BY <1>0, ReweighedSums
<1> HIDE DEF S, v
<1>4. /\ Same(t, u)
      /\ \A x \in Accounts :
            /\ u.voters[x].last = IF x \in S THEN Weight(t.voters[x].staked)
                                  ELSE t.voters[x].last
            /\ u.voters[x].proxied = t.voters[x].proxied + Gained(t, S, x)
  BY <1>0, <1>1, ReweighedFields
<1> HIDE DEF u
<1>5. Same(t, v)
  BY <1>2, <1>4 DEF Same, SameRoles
<1>6. \A D \in SUBSET Accounts, c \in [Accounts -> Int] :
         S \subseteq D /\ ProxiedFrom(t, D, c) => ProxiedFrom(v, D, c)
  <2>1. Lasts(v) = Lasts(u)
    BY <1>2 DEF Lasts
  <2>2. \A D \in SUBSET Accounts, P \in Accounts : ClientsIn(v, D, P) = ClientsIn(u, D, P)
    BY <1>2 DEF ClientsIn
  <2>3. ASSUME NEW D \in SUBSET Accounts, NEW c \in [Accounts -> Int], ProxiedFrom(u, D, c)
        PROVE  ProxiedFrom(v, D, c)
    <3> SUFFICES ASSUME NEW P \in Accounts
                 PROVE  v.voters[P].proxied = Total(Lasts(v), ClientsIn(v, D, P)) + c[P]
      BY DEF ProxiedFrom
    <3>1. u.voters[P].proxied = Total(Lasts(u), ClientsIn(u, D, P)) + c[P]
      BY <2>3 DEF ProxiedFrom
    <3> QED
      BY <1>2, <2>1, <2>2, <3>1
  <2> QED
    BY <1>3, <2>3
<1>7. Ends(v)
  <2> SUFFICES ASSUME NEW X \in (SUBSET Accounts) \ {{}}
               PROVE  \E x \in X : v.voters[x].proxy \notin X
    BY DEF Ends
  <2>1. PICK x \in X : t.voters[x].proxy \notin X
    BY <1>0 DEF Ends
  <2> QED
    BY <1>5, <2>1 DEF Same
<1>8. ASSUME NEW x \in Accounts PROVE Linked(v, x)
  <2>1. Linked(t, x)
    BY <1>0
  <2>2. t.voters[x].proxy \in Accounts \cup {NoOne}
    BY <1>0, ProxyType
  <2> QED
    BY <1>5, <2>1, <2>2 DEF Linked, Same
<1>9. ASSUME NEW x \in Accounts PROVE Counted(v, x)
  <2>1. Counted(t, x) /\ t.voters[x].staked \in Nat /\ t.voters[x].proxied \in Int
    BY <1>0 DEF TablesType, Voters
  <2>2. Weight(t.voters[x].staked) >= 0 /\ Weight(t.voters[x].staked) % 2 = 0
    BY <2>1, WeightFacts
  <2>3. Gained(t, S, x) \in Int /\ Gained(t, S, x) % 2 = 0
    BY <1>0, <1>1, GainedType
  <2>4. v.voters[x].proxied % 2 = 0
    BY <1>2, <1>4, <2>1, <2>3 DEF Counted
  <2>5. v.voters[x].last >= 0 /\ v.voters[x].last % 2 = 0
    BY <1>2, <1>4, <2>1, <2>2 DEF Counted
  <2> QED
    BY <2>4, <2>5 DEF Counted
<1>10. \A x \in Accounts \ S : v.voters[x].last = t.voters[x].last
  BY <1>2, <1>4
<1> QED
  BY <1>2, <1>5, <1>6, <1>7, <1>8, <1>9, <1>10 DEF Sound, S, v

(***************************************************************************)
(* update_votes                                                            *)
(***************************************************************************)
\* Giving weight to a proxy, or taking it back, touches no other column.
LEMMA Proxied ==
  ASSUME NEW t, Sound(t), NEW P \in Accounts, NEW w \in Int, w % 2 = 0
  PROVE  LET u == [t EXCEPT !.voters[P].proxied = @ + w]
         IN /\ Sound(u)
            /\ Same(t, u)
            /\ \A x \in Accounts :
                  /\ u.voters[x].last = t.voters[x].last
                  /\ u.voters[x].proxied = t.voters[x].proxied + IF x = P THEN w ELSE 0
<1> DEFINE u == [t EXCEPT !.voters[P].proxied = @ + w]
           r == [t.voters[P] EXCEPT !.proxied = @ + w]
<1>0. /\ t \in TablesType /\ Ends(t) /\ Tallied(t) /\ Paid(t)
      /\ \A x \in Accounts : Linked(t, x) /\ Counted(t, x)
  BY DEF Sound
<1>1. t.voters[P] \in Voters /\ t.voters[P].proxied \in Int
  BY <1>0 DEF TablesType, Voters
<1>2. r \in Voters
  BY <1>1 DEF Voters
<1>3. /\ r.staked = t.voters[P].staked /\ r.proxy = t.voters[P].proxy
      /\ r.producers = t.voters[P].producers /\ r.last = t.voters[P].last
      /\ r.proxied = t.voters[P].proxied + w
  BY <1>1 DEF Voters
<1>4. r.row = t.voters[P].row
  BY <1>1 DEF Voters
<1>5. r.is_proxy = t.voters[P].is_proxy
  BY <1>1 DEF Voters
<1>6. u = [t EXCEPT !.voters[P] = r]
  OBVIOUS
<1> HIDE DEF r, u
<1>7. /\ u \in TablesType /\ u.producers = t.producers /\ u.totals = t.totals
      /\ u.activation = t.activation
  BY <1>0, <1>2, <1>6 DEF TablesType
<1>8. \A x \in Accounts : u.voters[x] = IF x = P THEN r ELSE t.voters[x]
  BY <1>0, <1>6 DEF TablesType
<1>9. Same(t, u)
  BY <1>3, <1>4, <1>5, <1>7, <1>8 DEF Same
<1>10. \A x \in Accounts : t.voters[x].proxied \in Int
  BY <1>0 DEF TablesType, Voters
<1>11. \A x \in Accounts :
         /\ u.voters[x].last = t.voters[x].last
         /\ u.voters[x].proxied = t.voters[x].proxied + IF x = P THEN w ELSE 0
  BY <1>3, <1>8, <1>10
<1>12. Ends(u)
  BY <1>0, <1>9 DEF Ends, Same
<1>13. ASSUME NEW x \in Accounts PROVE Linked(u, x) /\ Counted(u, x)
  <2>1. Linked(t, x) /\ Counted(t, x)
    BY <1>0
  <2>2. t.voters[x].proxy \in Accounts \cup {NoOne}
    BY <1>0, ProxyType
  <2>3. Linked(u, x)
    BY <1>9, <2>1, <2>2 DEF Linked, Same
  <2>4. u.voters[x].proxied % 2 = 0
    BY <1>10, <1>11, <2>1 DEF Counted
  <2> QED
    BY <1>11, <2>1, <2>3, <2>4 DEF Counted
<1>14. Tallied(u)
  BY <1>0, <1>7, <1>9, <1>11 DEF Tallied, Own, Same, Votes
<1>15. Paid(u)
  BY <1>0, <1>7, PaidSame
<1> QED
  BY <1>7, <1>9, <1>11, <1>12, <1>13, <1>14, <1>15 DEF Sound, u

\* The clients of a proxy, with one account and without it.
LEMMA OneLess ==
  ASSUME NEW t \in TablesType, \A x \in Accounts : Counted(t, x),
         NEW a \in Accounts, NEW P \in Accounts
  PROVE  /\ Total(Lasts(t), ClientsIn(t, Accounts \ {a}, P)) \in Nat
         /\ Total(Lasts(t), ClientsIn(t, Accounts, P))
              = Total(Lasts(t), ClientsIn(t, Accounts \ {a}, P))
                + IF t.voters[a].proxy = P THEN t.voters[a].last ELSE 0
<1> DEFINE f == Lasts(t)
           C == ClientsIn(t, Accounts, P)
           R == ClientsIn(t, Accounts \ {a}, P)
<1>1. C \subseteq Accounts /\ R = C \ {a} /\ (a \in C <=> t.voters[a].proxy = P)
  BY DEF ClientsIn
<1>2. \A x \in Accounts : f[x] = t.voters[x].last /\ f[x] \in Nat
  BY DEF Lasts, Counted, TablesType, Voters
<1> HIDE DEF f, C, R
<1>3. IsFiniteSet(C) /\ IsFiniteSet(R)
  BY <1>1, AccountsAssumption, FS_Subset
<1>4. Total(f, R) \in Nat
  BY <1>1, <1>2, <1>3, TotalType
<1>5. CASE a \in C
  <2>1. Total(f, C) = Total(f, R) + f[a]
    BY <1>1, <1>2, <1>3, <1>5, TotalSplit
  <2> QED
    BY <1>1, <1>2, <1>4, <1>5, <2>1 DEF f, C, R
<1>6. CASE a \notin C
  <2>1. R = C
    BY <1>1, <1>6
  <2> QED
    BY <1>1, <1>4, <1>6, <2>1 DEF f, C, R
<1> QED
  BY <1>5, <1>6

\* What a proxy was given is never negative, nor is the weight of a new vote.
LEMMA NewWeightFacts ==
  ASSUME now \in 0 .. LastDay, NEW t, Good(t), NEW a \in Accounts
  PROVE  LET w == NewWeight(t.voters[a])
         IN w \in Int /\ w >= 0 /\ w % 2 = 0
<1>1. t \in TablesType /\ (\A x \in Accounts : Counted(t, x)) /\ ProxiedFrom(t, Accounts, None)
  BY DEF Good, Sound
<1>2. t.voters[a].proxied = Total(Lasts(t), ClientsIn(t, Accounts, a)) + 0
  BY <1>1 DEF ProxiedFrom, None
<1>3. t.voters[a].last \in Int /\ t.voters[a].last >= 0
      /\ t.voters[a].proxied \in Int /\ t.voters[a].staked \in Nat
      /\ t.voters[a].proxied % 2 = 0
  BY <1>1 DEF TablesType, Voters, Counted
<1>4. t.voters[a].proxied >= 0
  <2>1. /\ Total(Lasts(t), ClientsIn(t, Accounts \ {a}, a)) \in Nat
        /\ Total(Lasts(t), ClientsIn(t, Accounts, a))
             = Total(Lasts(t), ClientsIn(t, Accounts \ {a}, a))
               + IF t.voters[a].proxy = a THEN t.voters[a].last ELSE 0
    BY <1>1, OneLess
  <2> QED
    BY <1>2, <1>3, <2>1
<1>5. /\ Weight(t.voters[a].staked) \in Int /\ Weight(t.voters[a].staked) >= 0
      /\ Weight(t.voters[a].staked) % 2 = 0
  BY <1>3, WeightFacts
<1>6. NewWeight(t.voters[a])
        = Weight(t.voters[a].staked) + (IF t.voters[a].is_proxy THEN t.voters[a].proxied ELSE 0)
  BY DEF NewWeight
<1>7. CASE t.voters[a].is_proxy
  BY <1>3, <1>4, <1>5, <1>6, <1>7
<1>8. CASE ~t.voters[a].is_proxy
  BY <1>5, <1>6, <1>8
<1> QED
  BY <1>7, <1>8

\* The old proxy has the sum over its other clients left.
LEMMA LeftSound ==
  ASSUME now \in 0 .. LastDay, NEW t, Good(t), NEW a \in Accounts
  PROVE  LET u == Left(t, a)
         IN /\ Sound(u)
            /\ Same(t, u)
            /\ u.voters[a].last = t.voters[a].last
            /\ ProxiedFrom(u, Accounts \ {a}, None)
<1> DEFINE P == t.voters[a].proxy
           last == t.voters[a].last
           D == Accounts \ {a}
<1>0. /\ Sound(t) /\ t \in TablesType /\ Ends(t) /\ (\A x \in Accounts : Counted(t, x))
      /\ \A Q \in Accounts : t.voters[Q].proxied = Total(Lasts(t), ClientsIn(t, Accounts, Q)) + 0
  BY DEF Good, Sound, ProxiedFrom, None
<1>1. last \in Int /\ last >= 0 /\ last % 2 = 0
  BY <1>0 DEF Counted, TablesType, Voters
<1>2. \A Q \in Accounts :
        /\ Total(Lasts(t), ClientsIn(t, D, Q)) \in Nat
        /\ t.voters[Q].proxied
             = Total(Lasts(t), ClientsIn(t, D, Q)) + (IF Q = P THEN last ELSE 0)
  <2> SUFFICES ASSUME NEW Q \in Accounts
               PROVE  /\ Total(Lasts(t), ClientsIn(t, D, Q)) \in Nat
                      /\ t.voters[Q].proxied
                           = Total(Lasts(t), ClientsIn(t, D, Q)) + (IF Q = P THEN last ELSE 0)
    OBVIOUS
  <2>1. /\ Total(Lasts(t), ClientsIn(t, D, Q)) \in Nat
        /\ Total(Lasts(t), ClientsIn(t, Accounts, Q))
             = Total(Lasts(t), ClientsIn(t, D, Q)) + (IF P = Q THEN last ELSE 0)
    BY <1>0, OneLess
  <2> QED
    BY <1>0, <1>1, <2>1
<1>3. CASE last > 0 /\ P # NoOne
  <2> DEFINE m == -last
             s == [t EXCEPT !.voters[P].proxied = @ + m]
  <2>1. P \in Accounts
    BY <1>0, <1>3, ProxyType
  <2>2. m \in Int /\ m % 2 = 0 /\ m = -last
    BY <1>1
  <2>3. Left(t, a) = Propagated(s, P)
    <3>1. t.voters[P].proxied \in Int
      BY <1>0, <2>1 DEF TablesType, Voters
    <3>2. t.voters[P].proxied - last = t.voters[P].proxied + m
      BY <1>1, <2>2, <3>1
    <3>3. s = [t EXCEPT !.voters[P].proxied = @ - last]
      BY <3>2
    <3> QED
      BY <1>3, <3>3 DEF Left
  <2> HIDE DEF m
  <2>4. /\ Sound(s) /\ Same(t, s)
        /\ \A x \in Accounts :
              /\ s.voters[x].last = t.voters[x].last
              /\ s.voters[x].proxied = t.voters[x].proxied + IF x = P THEN m ELSE 0
    BY <1>0, <2>1, <2>2, Proxied
  <2> HIDE DEF s
  <2>5. ProxiedFrom(s, D, None)
    <3>1. Lasts(s) = Lasts(t) /\ \A Q \in Accounts : ClientsIn(s, D, Q) = ClientsIn(t, D, Q)
      BY <2>4 DEF Lasts, ClientsIn, Same
    <3> SUFFICES ASSUME NEW Q \in Accounts
                 PROVE  s.voters[Q].proxied = Total(Lasts(s), ClientsIn(s, D, Q)) + 0
      BY DEF ProxiedFrom, None
    <3> HIDE DEF P, last, D
    <3>2. s.voters[Q].proxied
            = Total(Lasts(t), ClientsIn(t, D, Q)) + (IF Q = P THEN last ELSE 0)
              + (IF Q = P THEN m ELSE 0)
      BY <1>2, <2>4
    <3> QED
      BY <1>1, <1>2, <2>2, <3>1, <3>2
  <2>6. s \in TablesType /\ Ends(s) /\ s.voters[a].proxy = P
    BY <2>4 DEF Sound, Same
  <2>7. a \notin Reached(s, P) /\ Reached(s, P) \subseteq D
    BY <2>1, <2>6, NoReturn, ReachedClosed
  <2>8. None \in [Accounts -> Int]
    BY DEF None
  <2>9. /\ Sound(Propagated(s, P)) /\ Same(s, Propagated(s, P))
        /\ \A x \in Accounts \ Reached(s, P) :
              Propagated(s, P).voters[x].last = s.voters[x].last
        /\ \A X \in SUBSET Accounts, c \in [Accounts -> Int] :
              Reached(s, P) \subseteq X /\ ProxiedFrom(s, X, c)
                => ProxiedFrom(Propagated(s, P), X, c)
    BY <2>1, <2>4, PropagatedSound
  <2>10. Same(t, Left(t, a))
    BY <2>3, <2>4, <2>9 DEF Same
  <2>11. Left(t, a).voters[a].last = last
    BY <2>3, <2>4, <2>7, <2>9
  <2>12. ProxiedFrom(Left(t, a), D, None)
    BY <2>3, <2>5, <2>7, <2>8, <2>9
  <2> QED
    BY <2>3, <2>9, <2>10, <2>11, <2>12
<1>4. CASE ~(last > 0 /\ P # NoOne)
  <2>1. Left(t, a) = t
    BY <1>4 DEF Left
  <2>2. \A Q \in Accounts : Q # P \/ last = 0
    BY <1>1, <1>4, NoOneAssumption
  <2>3. ProxiedFrom(t, D, None)
    <3> SUFFICES ASSUME NEW Q \in Accounts
                 PROVE  t.voters[Q].proxied = Total(Lasts(t), ClientsIn(t, D, Q)) + 0
      BY DEF ProxiedFrom, None
    <3> HIDE DEF P, last, D
    <3> QED
      BY <1>2, <2>2
  <2>4. Same(t, t)
    BY DEF Same
  <2> QED
    BY <1>0, <2>1, <2>3, <2>4
<1> QED
  BY <1>3, <1>4

\* The new proxy has w more than the sum over its other clients.
Extra(P, w) == [Q \in Accounts |-> IF Q = P THEN w ELSE 0]

LEMMA JoinedSound ==
  ASSUME now \in 0 .. LastDay, NEW t, Sound(t), NEW a \in Accounts,
         ProxiedFrom(t, Accounts \ {a}, None),
         NEW P \in Accounts \cup {NoOne}, NEW w \in Int, w >= 0, w % 2 = 0,
         P # NoOne => a \notin Reached([t EXCEPT !.voters[P].proxied = @ + w], P)
  PROVE  LET u == Joined(t, P, w)
         IN /\ Sound(u)
            /\ Same(t, u)
            /\ u.voters[a].last = t.voters[a].last
            /\ ProxiedFrom(u, Accounts \ {a}, Extra(P, w))
<1> DEFINE D == Accounts \ {a}
<1>1. CASE P # NoOne
  <2> DEFINE s == [t EXCEPT !.voters[P].proxied = @ + w]
  <2>1. P \in Accounts
    BY <1>1
  <2>2. Joined(t, P, w) = Propagated(s, P)
    BY <1>1 DEF Joined
  <2>3. /\ Sound(s) /\ Same(t, s)
        /\ \A x \in Accounts :
              /\ s.voters[x].last = t.voters[x].last
              /\ s.voters[x].proxied = t.voters[x].proxied + IF x = P THEN w ELSE 0
    BY <2>1, Proxied
  <2>4. a \notin Reached(s, P)
    BY <1>1
  <2> HIDE DEF s
  <2>5. Lasts(s) = Lasts(t) /\ \A Q \in Accounts : ClientsIn(s, D, Q) = ClientsIn(t, D, Q)
    BY <2>3 DEF Lasts, ClientsIn, Same
  <2>6. s \in TablesType /\ \A Q \in Accounts : t.voters[Q].proxied \in Int
    BY <2>3 DEF Sound, TablesType, Voters
  <2>7. ProxiedFrom(s, D, Extra(P, w))
    <3> SUFFICES ASSUME NEW Q \in Accounts
                 PROVE  s.voters[Q].proxied
                          = Total(Lasts(s), ClientsIn(s, D, Q)) + (IF Q = P THEN w ELSE 0)
      BY DEF ProxiedFrom, Extra
    <3>1. t.voters[Q].proxied = Total(Lasts(t), ClientsIn(t, D, Q)) + 0
      BY DEF ProxiedFrom, None
    <3>2. s.voters[Q].proxied = t.voters[Q].proxied + IF Q = P THEN w ELSE 0
      BY <2>3
    <3>3. Total(Lasts(t), ClientsIn(t, D, Q)) \in Nat
      <4>1. t \in TablesType /\ \A x \in Accounts : Counted(t, x)
        BY DEF Sound
      <4> QED
        BY <4>1, OneLess
    <3>4. s.voters[Q].proxied = Total(Lasts(t), ClientsIn(t, D, Q)) + (IF Q = P THEN w ELSE 0)
      BY <3>1, <3>2, <3>3
    <3> QED
      BY <2>5, <3>4
  <2>8. Reached(s, P) \subseteq D
    BY <2>1, <2>4, <2>6, ReachedClosed
  <2>9. Extra(P, w) \in [Accounts -> Int]
    BY DEF Extra
  <2>10. /\ Sound(Propagated(s, P)) /\ Same(s, Propagated(s, P))
         /\ \A x \in Accounts \ Reached(s, P) :
               Propagated(s, P).voters[x].last = s.voters[x].last
         /\ \A X \in SUBSET Accounts, c \in [Accounts -> Int] :
               Reached(s, P) \subseteq X /\ ProxiedFrom(s, X, c)
                 => ProxiedFrom(Propagated(s, P), X, c)
    BY <2>1, <2>3, PropagatedSound
  <2>11. Same(t, Joined(t, P, w))
    BY <2>2, <2>3, <2>10 DEF Same
  <2>12. Joined(t, P, w).voters[a].last = t.voters[a].last
    BY <2>2, <2>3, <2>4, <2>10
  <2>13. ProxiedFrom(Joined(t, P, w), D, Extra(P, w))
    BY <2>2, <2>7, <2>8, <2>9, <2>10
  <2> QED
    BY <2>2, <2>10, <2>11, <2>12, <2>13
<1>2. CASE P = NoOne
  <2>1. Joined(t, P, w) = t
    BY <1>2 DEF Joined
  <2>2. Extra(P, w) = None
    BY <1>2, NoOneAssumption DEF Extra, None
  <2>3. Same(t, t)
    BY DEF Same
  <2> QED
    BY <2>1, <2>2, <2>3
<1> QED
  BY <1>1, <1>2

\* The vote an account counts for itself becomes w if it is on the list, and the
\* cut at 0 never bites.
CastAs(t, u, a, own) ==
    /\ u \in TablesType
    /\ u.voters = t.voters /\ u.activation = t.activation
    /\ SameRoles(t, u)
    /\ \A x \in Accounts \ {a} : u.producers[x].votes = Own(t, x)
    /\ u.producers[a].votes = own
    /\ u.totals.weight = Total(Votes(u), Accounts)
    /\ Paid(u)

LEMMA CastSound ==
  ASSUME now \in 0 .. LastDay, NEW t, Sound(t), NEW a \in Accounts,
         NEW list \in SUBSET {a}, NEW w \in Int, w >= 0,
         a \in list => t.producers[a].row
  PROVE  CastAs(t, Cast(t, a, list, w), a, IF a \in list THEN w ELSE 0)
<1> DEFINE v == t.voters[a]
           u == Cast(t, a, list, w)
           own == IF a \in list THEN w ELSE 0
           old == OldVotes(v)
           gone == IF a \in old THEN v.last ELSE 0
<1>0. /\ t \in TablesType /\ Tallied(t) /\ Paid(t)
      /\ \A x \in Accounts : Linked(t, x) /\ Counted(t, x)
  BY DEF Sound
<1>1. v.last \in Int /\ v.last >= 0 /\ t.producers[a].votes \in Int /\ v.producers \subseteq {a}
  BY <1>0 DEF TablesType, Voters, Producers, Counted, Linked
<1>2. old \subseteq {a} /\ gone \in Int /\ own \in Int /\ own >= 0
  BY <1>1 DEF OldVotes
<1>3. t.producers[a].votes = gone
  <2>1. t.producers[a].votes = Own(t, a)
    BY <1>0 DEF Tallied
  <2>2. Own(t, a) = gone
    <3>1. CASE a \in v.producers /\ v.last > 0
      <4>1. v.proxy = NoOne
        BY <1>0, <3>1 DEF Linked
      <4> QED
        BY <3>1, <4>1 DEF Own, OldVotes
    <3>2. CASE a \in v.producers /\ v.last = 0
      BY <3>2 DEF Own
    <3>3. CASE a \notin v.producers
      BY <3>3 DEF Own, OldVotes
    <3> QED
      BY <1>1, <3>1, <3>2, <3>3
  <2> QED
    BY <2>1, <2>2
<1>4. \A x \in Accounts : t.producers[x].votes = Own(t, x) /\ t.producers[x].votes >= 0
  BY <1>0 DEF Tallied, Own, Counted
<1>5. CASE old \cup list = {}
  <2> DEFINE g == ShareTotal(t.totals, 0, 0)
  <2>1. u = [t EXCEPT !.totals = g]
    BY <1>5 DEF Cast
  <2>2. /\ g \in [weight : Int, share : Int, rate : Int, updated : 0 .. LastDay]
        /\ g.weight = t.totals.weight
    BY <1>0, ShareTotalType DEF TablesType
  <2> HIDE DEF g, u
  <2>3. /\ u \in TablesType /\ u.totals = g
        /\ u.voters = t.voters /\ u.producers = t.producers /\ u.activation = t.activation
    BY <1>0, <2>1, <2>2 DEF TablesType
  <2>4. own = 0 /\ gone = 0
    BY <1>5
  <2>5. u.totals.weight = Total(Votes(u), Accounts)
    BY <1>0, <2>2, <2>3 DEF Tallied, Votes
  <2>6. Paid(u)
    BY <1>0, <1>4, <2>3, PaidTouch DEF g
  <2> QED
    BY <1>3, <1>4, <2>3, <2>4, <2>5, <2>6 DEF u, SameRoles, CastAs
<1>6. CASE old \cup list # {}
  <2> DEFINE delta == own - gone
             count == Larger(0, t.producers[a].votes + delta)
  <2>1. u = Recounted(t, a, delta, count)
    BY <1>6 DEF Cast
  <2>2. delta \in Int /\ count = own /\ count = t.producers[a].votes + delta
    BY <1>1, <1>2, <1>3 DEF Larger
  <2>6. t.producers[a].row
    BY <1>0, <1>2, <1>6 DEF Linked, OldVotes
  <2> HIDE DEF u, delta, count, own, gone, old
  <2>3. /\ u \in TablesType
        /\ u.voters = t.voters /\ u.activation = t.activation
        /\ u.totals.weight = t.totals.weight + delta
        /\ u.producers[a].votes = count
        /\ SameRoles(t, u)
        /\ \A x \in Accounts \ {a} : u.producers[x] = t.producers[x]
    <3>1. RecountedAs(t, u, a, delta, count)
      BY <1>0, <1>2, <2>1, <2>2, RecountedFields
    <3> QED
      BY <3>1 DEF RecountedAs
  <2>4. u.totals.weight = Total(Votes(u), Accounts)
    BY <1>0, <1>2, <1>4, <2>2, <2>3, TallyChange DEF Tallied
  <2>5. Paid(u)
    BY <1>0, <1>2, <1>4, <2>1, <2>2, <2>6, RecountedPaid
  <2> QED
    BY <1>4, <2>2, <2>3, <2>4, <2>5 DEF u, own, CastAs
<1> QED
  BY <1>5, <1>6

\* What CanVote leaves of the arguments, in the two ways update_votes is called.
Repeats(t, a, proxy, list) == proxy = t.voters[a].proxy /\ list = t.voters[a].producers

Allowed(t, a, proxy, list) ==
    /\ list \in SUBSET {a}
    /\ NewVotes(t.voters[a], proxy, list) = list
    /\ t.voters[a].row
    /\ proxy # NoOne => /\ list = {} /\ proxy # a /\ ~t.voters[a].is_proxy
                        /\ t.voters[proxy].row
                        /\ t.voters[proxy].proxy = NoOne \/ proxy = t.voters[a].proxy
    /\ a \in list => t.producers[a].row

LEMMA VoteFacts ==
  ASSUME now \in 0 .. LastDay, NEW t, Good(t), NEW a \in Accounts,
         NEW proxy \in Accounts \cup {NoOne}, NEW list, NEW voting \in BOOLEAN,
         CanVote(t, a, proxy, list, voting),
         ~voting => Repeats(t, a, proxy, list)
  PROVE  Allowed(t, a, proxy, list)
<1>1. /\ t \in TablesType /\ NewWeight(t.voters[a]) >= 0
      /\ \A x \in Accounts : Linked(t, x)
  BY NewWeightFacts DEF Good, Sound
<1>2. proxy # NoOne => /\ list = {} /\ proxy # a /\ ~t.voters[a].is_proxy
                       /\ t.voters[proxy].row
                       /\ voting => t.voters[proxy].is_proxy
  BY DEF CanVote
<1>3. NewVotes(t.voters[a], proxy, list) = list
  BY <1>1, <1>2 DEF NewVotes
<1>4. list \subseteq {a} /\ \A p \in list : t.producers[p].row
  BY <1>3 DEF CanVote
<1>5. t.voters[a].row
  BY DEF CanVote
<1>6. proxy # NoOne => \/ t.voters[proxy].proxy = NoOne
                       \/ proxy = t.voters[a].proxy
  BY <1>1, <1>2 DEF Linked, Repeats
<1> QED
  BY <1>2, <1>3, <1>4, <1>5, <1>6 DEF Allowed

\* Accounts have proxies as before, but for a, whose new proxy has none.
LEMMA StillEnds ==
  ASSUME NEW t, Ends(t), NEW u, NEW a \in Accounts, NEW proxy \in Accounts \cup {NoOne},
         u.voters[a].proxy = proxy,
         \A x \in Accounts \ {a} : u.voters[x].proxy = t.voters[x].proxy,
         proxy # NoOne => /\ proxy # a
                          /\ t.voters[proxy].proxy = NoOne \/ proxy = t.voters[a].proxy
  PROVE  Ends(u)
<1> SUFFICES ASSUME NEW S \in (SUBSET Accounts) \ {{}}
             PROVE  \E x \in S : u.voters[x].proxy \notin S
  BY DEF Ends
<1>1. PICK x \in S : t.voters[x].proxy \notin S
  BY DEF Ends
<1>2. NoOne \notin S
  BY NoOneAssumption
<1>3. CASE x # a \/ proxy \notin S
  BY <1>1, <1>3
<1>4. CASE x = a /\ proxy \in S
  <2>1. t.voters[proxy].proxy = NoOne
    BY <1>1, <1>2, <1>4
  <2> QED
    BY <1>2, <1>4, <2>1
<1> QED
  BY <1>3, <1>4

LEMMA ActivatedType ==
  ASSUME NEW g \in [stake : Nat, done : BOOLEAN], NEW v \in Voters
  PROVE  Activated(g, v) \in [stake : Nat, done : BOOLEAN]
<1>1. v.staked \in Nat
  BY DEF Voters
<1> QED
  BY <1>1 DEF Activated

\* A change never comes to the account that votes, neither through its old proxy
\* nor through its new one.
LEMMA BesideVoter ==
  ASSUME now \in 0 .. LastDay, NEW t \in TablesType, NEW u, Sound(u), Same(t, u),
         NEW a \in Accounts, NEW P \in Accounts, NEW w \in Int, w % 2 = 0,
         P # a, t.voters[P].proxy = NoOne \/ P = t.voters[a].proxy
  PROVE  a \notin Reached([u EXCEPT !.voters[P].proxied = @ + w], P)
<1> DEFINE s == [u EXCEPT !.voters[P].proxied = @ + w]
<1>1. Sound(s) /\ Same(u, s)
  BY Proxied
<1> HIDE DEF s
<1>2. s \in TablesType /\ Ends(s)
  BY <1>1 DEF Sound
<1>3. s.voters[P].proxy = t.voters[P].proxy /\ s.voters[a].proxy = t.voters[a].proxy
  BY <1>1 DEF Same
<1>4. CASE t.voters[P].proxy = NoOne
  <2>1. ~Forwards(s, P)
    BY <1>3, <1>4 DEF Forwards
  <2>2. Reached(s, P) = {P}
    BY <1>2, <2>1, ReachedFirst
  <2> QED
    BY <2>2 DEF s
<1>5. CASE P = t.voters[a].proxy
  <2>1. a \notin Reached(s, P)
    BY <1>2, <1>3, <1>5, NoReturn
  <2> QED
    BY <2>1 DEF s
<1> QED
  BY <1>4, <1>5

\* Three columns of one row changed, as one change of the row.
RowWith(r, last, list, proxy) ==
    [r EXCEPT !.last = last, !.producers = list, !.proxy = proxy]

WithRow(t, a, r, act) == [t EXCEPT !.voters[a] = r, !.activation = act]

TablesWith(t, a, last, list, proxy, act) ==
    [t EXCEPT !.voters[a].last = last, !.voters[a].producers = list,
              !.voters[a].proxy = proxy, !.activation = act]

LEMMA RowChange ==
  ASSUME NEW u \in TablesType, NEW a \in Accounts,
         NEW last, NEW list, NEW proxy, NEW act
  PROVE  TablesWith(u, a, last, list, proxy, act)
           = WithRow(u, a, RowWith(u.voters[a], last, list, proxy), act)
<1> DEFINE r1 == [u.voters[a] EXCEPT !.last = last]
           r2 == [r1 EXCEPT !.producers = list]
           r3 == [r2 EXCEPT !.proxy = proxy]
           u1 == [u EXCEPT !.voters[a].last = last]
           u2 == [u1 EXCEPT !.voters[a].producers = list]
           u3 == [u2 EXCEPT !.voters[a].proxy = proxy]
<1>0. /\ a \in DOMAIN u.voters /\ "voters" \in DOMAIN u
  BY DEF TablesType
<1>1. u1 = [u EXCEPT !.voters[a] = r1]
  OBVIOUS
<1> HIDE DEF r1, u1
<1>2. u1.voters[a] = r1 /\ u1.voters = [u.voters EXCEPT ![a] = r1]
  BY <1>0, <1>1
<1>3. u2 = [u1 EXCEPT !.voters[a] = r2]
  BY <1>2
<1> HIDE DEF r2, u2
<1>4. u2 = [u EXCEPT !.voters[a] = r2]
  BY <1>0, <1>1, <1>2, <1>3
<1>5. u2.voters[a] = r2
  BY <1>0, <1>4
<1>6. u3 = [u2 EXCEPT !.voters[a] = r3]
  BY <1>5
<1> HIDE DEF r3, u3
<1>7. u3 = [u EXCEPT !.voters[a] = r3]
  BY <1>0, <1>4, <1>6
<1>8. [u3 EXCEPT !.activation = act] = [u EXCEPT !.voters[a] = r3, !.activation = act]
  BY <1>7
<1> QED
  BY <1>8 DEF r1, r2, r3, u1, u2, u3, TablesWith, RowWith, WithRow

\* A vote, cast anew or repeated, keeps every part of the invariant.
LEMMA VotedGood ==
  ASSUME now \in 0 .. LastDay, NEW t, Good(t), NEW a \in Accounts,
         NEW proxy \in Accounts \cup {NoOne}, NEW list, NEW voting \in BOOLEAN,
         CanVote(t, a, proxy, list, voting),
         ~voting => Repeats(t, a, proxy, list)
  PROVE  /\ Good(Voted(t, a, proxy, list))
         /\ SameRoles(t, Voted(t, a, proxy, list))
<1>0. Allowed(t, a, proxy, list)
  BY VoteFacts
<1> DEFINE v == t.voters[a]
           w == NewWeight(v)
           L == Left(t, a)
           J == Joined(L, proxy, w)
           u == Cast(J, a, NewVotes(v, proxy, list), w)
           act == Activated(u.activation, v)
           r == [u.voters[a] EXCEPT !.last = w, !.producers = list, !.proxy = proxy]
           z == Voted(t, a, proxy, list)
           D == Accounts \ {a}
<1>1. /\ list \in SUBSET {a}
      /\ NewVotes(v, proxy, list) = list
      /\ v.row
      /\ proxy # NoOne => /\ list = {} /\ proxy # a /\ ~v.is_proxy
                          /\ t.voters[proxy].row
      /\ a \in list => t.producers[a].row
      /\ proxy # NoOne => t.voters[proxy].proxy = NoOne \/ proxy = v.proxy
  BY <1>0 DEF Allowed
<1>2. w \in Int /\ w >= 0 /\ w % 2 = 0
  BY NewWeightFacts
<1>3. /\ t \in TablesType /\ Ends(t)
      /\ \A x \in Accounts : Linked(t, x)
  BY DEF Good, Sound
<1>4. z = [u EXCEPT !.voters[a].last = w, !.voters[a].producers = list,
                    !.voters[a].proxy = proxy, !.activation = Activated(@, v)]
  BY DEF Voted
<1>5. /\ Sound(L) /\ Same(t, L) /\ L.voters[a].last = v.last
      /\ ProxiedFrom(L, D, None)
  BY LeftSound
<1> HIDE DEF L
<1>6. proxy # NoOne => a \notin Reached([L EXCEPT !.voters[proxy].proxied = @ + w], proxy)
  <2> HIDE DEF w
  <2> QED
    BY <1>1, <1>2, <1>3, <1>5, BesideVoter
<1>7. /\ Sound(J) /\ Same(L, J)
      /\ ProxiedFrom(J, D, Extra(proxy, w))
  <2> HIDE DEF w
  <2> QED
    BY <1>2, <1>5, <1>6, JoinedSound
<1> HIDE DEF J, w
<1>8. /\ u \in TablesType
      /\ u.voters = J.voters /\ u.activation = J.activation
      /\ SameRoles(J, u)
      /\ \A x \in Accounts \ {a} : u.producers[x].votes = Own(J, x)
      /\ u.producers[a].votes = IF a \in list THEN w ELSE 0
      /\ u.totals.weight = Total(Votes(u), Accounts)
      /\ Paid(u)
  <2>0. a \in list => J.producers[a].row
    BY <1>1, <1>5, <1>7 DEF Same
  <2>1. CastAs(J, u, a, IF a \in list THEN w ELSE 0)
    BY <1>1, <1>2, <1>7, <2>0, CastSound
  <2> QED
    BY <2>1 DEF CastAs
<1> HIDE DEF u
<1>9. /\ \A x \in Accounts :
           /\ u.voters[x].row = t.voters[x].row
           /\ u.voters[x].proxy = t.voters[x].proxy
           /\ u.voters[x].producers = t.voters[x].producers
           /\ u.voters[x].is_proxy = t.voters[x].is_proxy
           /\ u.producers[x].row = t.producers[x].row
           /\ u.producers[x].is_producer = t.producers[x].is_producer
  BY <1>5, <1>7, <1>8 DEF Same, SameRoles
<1>10. u.voters[a] \in Voters /\ v \in Voters
       /\ u.activation \in [stake : Nat, done : BOOLEAN]
  BY <1>3, <1>8 DEF TablesType
<1>11. act \in [stake : Nat, done : BOOLEAN]
  BY <1>10, ActivatedType
<1>12. r \in Voters /\ r.last = w /\ r.producers = list /\ r.proxy = proxy
       /\ r.proxied = u.voters[a].proxied
  <2>1. list \in SUBSET Accounts
    BY <1>1
  <2> QED
    BY <1>2, <1>10, <2>1 DEF Voters
<1>13. r.row = u.voters[a].row
  BY <1>10 DEF Voters
<1>14. r.is_proxy = u.voters[a].is_proxy
  BY <1>10 DEF Voters
<1>15. z = [u EXCEPT !.voters[a] = r, !.activation = act]
  <2>1. z = TablesWith(u, a, w, list, proxy, act)
    BY <1>4 DEF TablesWith
  <2>2. r = RowWith(u.voters[a], w, list, proxy)
    BY DEF RowWith
  <2> HIDE DEF z, act, r
  <2>3. TablesWith(u, a, w, list, proxy, act)
          = WithRow(u, a, RowWith(u.voters[a], w, list, proxy), act)
    BY <1>8, RowChange
  <2> QED
    BY <2>1, <2>2, <2>3 DEF WithRow
<1> HIDE DEF z, r, act
<1>16. /\ z \in TablesType /\ z.producers = u.producers /\ z.totals = u.totals
       /\ z.voters[a] = r
       /\ \A x \in Accounts \ {a} : z.voters[x] = u.voters[x]
  BY <1>8, <1>11, <1>12, <1>15 DEF TablesType
<1>17. Ends(z)
  <2>1. z.voters[a].proxy = proxy /\ \A x \in Accounts \ {a} : z.voters[x].proxy = t.voters[x].proxy
    BY <1>9, <1>12, <1>16
  <2> QED
    BY <1>1, <1>3, <2>1, StillEnds
<1>18. ASSUME NEW x \in Accounts PROVE Linked(z, x)
  <2>1. \A y \in Accounts : z.voters[y].row = t.voters[y].row
    BY <1>9, <1>13, <1>16
  <2>2. \A y \in Accounts : z.producers[y].row = t.producers[y].row
    BY <1>9, <1>16
  <2>3. CASE x = a
    <3>1. z.voters[a].is_proxy = v.is_proxy
      BY <1>9, <1>14, <1>16
    <3>2. z.voters[a].proxy = proxy /\ z.voters[a].producers = list
      BY <1>12, <1>16
    <3>3. z.voters[a].row
      BY <1>1, <2>1
    <3>4. proxy # NoOne => z.voters[proxy].row
      BY <1>1, <2>1
    <3>5. a \in list => z.producers[a].row
      BY <1>1, <2>2
    <3> QED
      BY <1>1, <2>3, <3>1, <3>2, <3>3, <3>4, <3>5 DEF Linked
  <2>4. CASE x # a
    <3>1. z.voters[x].is_proxy = t.voters[x].is_proxy
      BY <1>9, <1>16, <2>4
    <3>2. z.voters[x].proxy = t.voters[x].proxy
          /\ z.voters[x].producers = t.voters[x].producers
      BY <1>9, <1>16, <2>4
    <3>3. t.voters[x].proxy \in Accounts \cup {NoOne}
      BY <1>3, ProxyType
    <3> QED
      BY <1>3, <2>1, <2>2, <3>1, <3>2, <3>3 DEF Linked
  <2> QED
    BY <2>3, <2>4
<1>19. ASSUME NEW x \in Accounts PROVE Counted(z, x)
  <2>1. Counted(J, x)
    BY <1>7 DEF Sound
  <2> QED
    BY <1>2, <1>8, <1>12, <1>16, <2>1 DEF Counted
<1>20. Tallied(z)
  <2>1. ASSUME NEW x \in Accounts PROVE z.producers[x].votes = Own(z, x)
    <3>1. CASE x = a
      BY <1>8, <1>12, <1>16, <3>1 DEF Own
    <3>2. CASE x # a
      BY <1>8, <1>16, <3>2 DEF Own
    <3> QED
      BY <3>1, <3>2
  <2>2. Votes(z) = Votes(u)
    BY <1>16 DEF Votes
  <2> QED
    BY <1>8, <1>16, <2>1, <2>2 DEF Tallied
<1>21. ProxiedFrom(z, Accounts, None)
  <2> SUFFICES ASSUME NEW P \in Accounts
               PROVE  z.voters[P].proxied = Total(Lasts(z), ClientsIn(z, Accounts, P)) + 0
    BY DEF ProxiedFrom, None
  <2>1. J.voters[P].proxied
          = Total(Lasts(J), ClientsIn(J, D, P)) + (IF P = proxy THEN w ELSE 0)
    BY <1>7 DEF ProxiedFrom, Extra
  <2>2. z.voters[P].proxied = J.voters[P].proxied
    BY <1>8, <1>12, <1>16
  <2>3. \A x \in D : z.voters[x] = J.voters[x]
    BY <1>8, <1>16
  <2>4. ClientsIn(z, D, P) = ClientsIn(J, D, P)
    BY <2>3 DEF ClientsIn
  <2>5. Total(Lasts(z), ClientsIn(z, D, P)) = Total(Lasts(J), ClientsIn(J, D, P))
    <3>1. \A x \in ClientsIn(J, D, P) : Lasts(z)[x] = Lasts(J)[x]
      BY <2>3 DEF ClientsIn, Lasts
    <3> QED
      BY <2>4, <3>1, TotalCong
  <2>6. /\ Total(Lasts(z), ClientsIn(z, D, P)) \in Nat
        /\ Total(Lasts(z), ClientsIn(z, Accounts, P))
             = Total(Lasts(z), ClientsIn(z, D, P))
               + IF z.voters[a].proxy = P THEN z.voters[a].last ELSE 0
    BY <1>16, <1>19, OneLess
  <2>7. z.voters[a].proxy = proxy /\ z.voters[a].last = w
    BY <1>12, <1>16
  <2> QED
    BY <1>2, <2>1, <2>2, <2>5, <2>6, <2>7
<1>24. Paid(z)
  BY <1>8, <1>16, PaidSame
<1>22. Good(z)
  BY <1>16, <1>17, <1>18, <1>19, <1>20, <1>21, <1>24 DEF Good, Sound
<1>23. SameRoles(t, z)
  BY <1>9, <1>16 DEF SameRoles
<1> QED
  BY <1>22, <1>23 DEF z

(***************************************************************************)
(* The steps                                                               *)
(***************************************************************************)
\* The invariant says nothing of stakes, and rows may appear.
LEMMA StillGood ==
  ASSUME NEW t, Good(t), NEW u \in TablesType, Paid(u),
         u.totals.weight = t.totals.weight,
         \A x \in Accounts :
            /\ u.voters[x].proxy = t.voters[x].proxy
            /\ u.voters[x].producers = t.voters[x].producers
            /\ u.voters[x].last = t.voters[x].last
            /\ u.voters[x].proxied = t.voters[x].proxied
            /\ t.voters[x].row => u.voters[x].row
            /\ u.voters[x].is_proxy => t.voters[x].proxy = NoOne
            /\ t.producers[x].row => u.producers[x].row
            /\ u.producers[x].votes = t.producers[x].votes
  PROVE  Good(u)
<1>1. /\ t \in TablesType /\ Ends(t) /\ Tallied(t) /\ ProxiedFrom(t, Accounts, None)
      /\ \A x \in Accounts : Linked(t, x) /\ Counted(t, x)
  BY DEF Good, Sound
<1>2. Ends(u)
  BY <1>1 DEF Ends
<1>3. ASSUME NEW x \in Accounts PROVE Linked(u, x) /\ Counted(u, x)
  <2>1. t.voters[x].proxy \in Accounts \cup {NoOne}
    BY <1>1, ProxyType
  <2>2. Linked(u, x)
    BY <1>1, <2>1 DEF Linked
  <2> QED
    BY <1>1, <2>2 DEF Counted
<1>4. Votes(u) = Votes(t) /\ Lasts(u) = Lasts(t)
  BY DEF Votes, Lasts
<1>5. Tallied(u)
  BY <1>1, <1>4 DEF Tallied, Own
<1>6. \A P \in Accounts : ClientsIn(u, Accounts, P) = ClientsIn(t, Accounts, P)
  BY DEF ClientsIn
<1>7. ProxiedFrom(u, Accounts, None)
  <2> SUFFICES ASSUME NEW P \in Accounts
               PROVE  u.voters[P].proxied = Total(Lasts(u), ClientsIn(u, Accounts, P)) + None[P]
    BY DEF ProxiedFrom
  <2>1. t.voters[P].proxied = Total(Lasts(t), ClientsIn(t, Accounts, P)) + None[P]
    BY <1>1 DEF ProxiedFrom
  <2> QED
    BY <1>4, <1>6, <2>1
<1> QED
  BY <1>2, <1>3, <1>5, <1>7 DEF Good, Sound

\* A row with the votes, the share and the rate of another.
AsPaid(r, q) == /\ r.votes = q.votes /\ (q.row => r.row) /\ PaidRow(r)
                /\ ShareNow(r) = ShareNow(q) /\ RateOf(r) = RateOf(q)

\* The row of one producer changes, and neither its votes nor its share.
LEMMA ProducerChange ==
  ASSUME NEW t, Good(t), NEW a \in Accounts, NEW r \in Producers,
         AsPaid(r, t.producers[a])
  PROVE  Good([t EXCEPT !.producers[a] = r])
<1> DEFINE u == [t EXCEPT !.producers[a] = r]
<1>1. t \in TablesType /\ Paid(t) /\ \A x \in Accounts : Linked(t, x)
  BY DEF Good, Sound
<1>2. /\ u \in TablesType /\ u.voters = t.voters /\ u.totals = t.totals
      /\ \A x \in Accounts : u.producers[x] = IF x = a THEN r ELSE t.producers[x]
  BY <1>1 DEF TablesType
<1> HIDE DEF u
<1>3. \A x \in Accounts : u.voters[x].is_proxy => t.voters[x].proxy = NoOne
  BY <1>1, <1>2 DEF Linked
<1>4. \A x \in Accounts : /\ t.producers[x].row => u.producers[x].row
                          /\ u.producers[x].votes = t.producers[x].votes
  BY <1>2 DEF AsPaid
<1>6. Paid(u)
  <2>1. Shares(u) = Shares(t) /\ Rates(u) = Rates(t)
    BY <1>2 DEF Shares, Rates, AsPaid
  <2>2. \A x \in Accounts : PaidRow(u.producers[x])
    BY <1>1, <1>2 DEF Paid, AsPaid
  <2> QED
    BY <1>1, <1>2, <2>1, <2>2 DEF Paid
<1>5. Good(u)
  BY <1>2, <1>3, <1>4, <1>6, StillGood
<1> QED
  BY <1>5 DEF u

\* The next tables are good when the record they become is.
LEMMA PaidNext ==
  ASSUME NEW t, Paid(t), Tables' = t, now' = now
  PROVE  Paid(Tables)'
<1> DEFINE u == Tables
<1>1. u' = t
  OBVIOUS
<1> HIDE DEF u
<1>2. Paid(u)'
  BY <1>1 DEF Paid, PaidRow, Shares, Rates, ShareNow, RateOf, UpdatedAfter
<1> QED
  BY <1>2 DEF u

LEMMA GoodNext ==
  ASSUME NEW t, Good(t), Become(t), now' = now
  PROVE  Good(Tables)'
<1>1. t \in TablesType
  BY DEF Good, Sound
<1>2. t = [voters |-> t.voters, producers |-> t.producers, totals |-> t.totals,
           activation |-> t.activation]
  BY <1>1 DEF TablesType
<1>3. Tables' = t
  BY <1>2 DEF Become, Tables
<1>4. Paid(Tables)'
  BY <1>3, PaidNext DEF Good, Sound
<1> HIDE DEF Tables
<1> QED
  BY <1>3, <1>4 DEF Good, Sound

LEMMA TablesFields ==
  /\ Tables.voters = voters /\ Tables.producers = producers
  /\ Tables.totals = totals /\ Tables.activation = activation
BY DEF Tables

\* regproducer, unregprod and rmvproducer; makeprod's own change of the row.
LEMMA ProducerSteps ==
  ASSUME VotingInv, NEW a \in Accounts
  PROVE  /\ Regproducer(a) => Good(Tables)'
         /\ Unregprod(a) \/ Rmvproducer(a) => Good(Tables)'
         /\ Good(Producing(a))
<1> DEFINE p == producers[a]
           with(r) == [Tables EXCEPT !.producers[a] = r]
<1>1. Good(Tables) /\ now \in 0 .. LastDay
  BY DEF VotingInv
<1>2. p \in Producers /\ PaidRow(p) /\ (~p.row => p.votes = 0)
  <2>1. /\ producers \in [Accounts -> Producers] /\ Linked(Tables, a)
        /\ Tallied(Tables) /\ Paid(Tables)
    BY <1>1, TablesFields DEF Good, Sound, TablesType
  <2>2. p.votes = Own(Tables, a)
    BY <2>1, TablesFields DEF Tallied
  <2> QED
    BY <2>1, <2>2, TablesFields DEF Own, Linked, Paid
<1>8. ASSUME NEW r \in Producers, r.votes = p.votes, r.claimed = p.claimed,
             r.share = p.share, r.updated = p.updated, r.row = p.row
      PROVE  AsPaid(r, p)
  BY <1>2, <1>8 DEF AsPaid, PaidRow, ShareNow, RateOf, UpdatedAfter
<1>3. ASSUME NEW r \in Producers, AsPaid(r, p)
      PROVE  Good(with(r)) /\ (Become(with(r)) /\ now' = now => Good(Tables)')
  <2>1. Good(with(r))
    BY <1>1, <1>3, TablesFields, ProducerChange
  <2> QED
    BY <2>1, GoodNext
<1>4. ASSUME NEW r, producers' = [producers EXCEPT ![a] = r], UNCHANGED <<voters, totals, activation>>
      PROVE  Become(with(r))
  BY <1>4 DEF Become, Tables
<1>5. Regproducer(a) => Good(Tables)'
  <2> DEFINE r == Registered(p)
  <2>3. r \in Producers /\ AsPaid(r, p)
    <3>1. CASE p.row
      <4>1. r = [p EXCEPT !.is_active = TRUE]
        BY <3>1 DEF Registered
      <4> HIDE DEF r
      <4>2. r \in Producers /\ r.votes = p.votes /\ r.claimed = p.claimed
        BY <1>2, <4>1 DEF Producers
      <4>3. r.share = p.share /\ r.updated = p.updated
        BY <1>2, <4>1 DEF Producers
      <4>4. r.row = p.row
        BY <1>2, <4>1 DEF Producers
      <4> QED
        BY <1>8, <4>2, <4>3, <4>4
    <3>2. CASE ~p.row
      <4>1. r = [row |-> TRUE, is_active |-> TRUE, is_producer |-> FALSE, votes |-> 0,
                 claimed |-> now, share |-> 0, updated |-> now]
        BY <3>2 DEF Registered, NoProducer
      <4> HIDE DEF r
      <4>2. r \in Producers /\ r.row
        BY <1>1, <4>1 DEF Producers
      <4>3. r.votes = 0 /\ r.claimed = now /\ r.share = 0 /\ r.updated = now
        BY <4>1
      <4>4. p.votes = 0 /\ p.share = 0
        BY <1>2, <3>2 DEF PaidRow
      <4>5. now \in Int
        BY <1>1, DaysAreNumbers
      <4>6. ShareNow(r) = 0 /\ RateOf(r) = 0
        BY <4>3 DEF ShareNow, RateOf
      <4>7. ShareNow(p) = 0 /\ RateOf(p) = 0
        BY <4>4 DEF ShareNow, RateOf
      <4> QED
        BY <4>2, <4>3, <4>4, <4>5, <4>6, <4>7 DEF AsPaid, PaidRow
    <3> QED
      BY <3>1, <3>2
  <2> HIDE DEF with
  <2>4. Regproducer(a) => Become(with(r)) /\ now' = now
    BY <1>4 DEF Regproducer
  <2> QED
    BY <1>3, <2>3, <2>4
<1>6. Unregprod(a) \/ Rmvproducer(a) => Good(Tables)'
  <2> DEFINE r == Deactivated(p)
  <2>1. r \in Producers /\ r.votes = p.votes /\ r.claimed = p.claimed
    BY <1>2 DEF Deactivated, Producers
  <2>2. r.share = p.share /\ r.updated = p.updated
    BY <1>2 DEF Deactivated, Producers
  <2>3. r.row = p.row
    BY <1>2 DEF Deactivated, Producers
  <2> HIDE DEF r
  <2>5. AsPaid(r, p)
    BY <1>8, <2>1, <2>2, <2>3
  <2> HIDE DEF with
  <2>4. Unregprod(a) \/ Rmvproducer(a) => Become(with(r)) /\ now' = now
    BY <1>4 DEF Unregprod, Rmvproducer, r
  <2> QED
    BY <1>3, <2>1, <2>4, <2>5
<1>7. Good(Producing(a))
  <2> DEFINE r == [p EXCEPT !.is_producer = TRUE]
  <2>1. r \in Producers /\ r.votes = p.votes /\ r.claimed = p.claimed
    BY <1>2 DEF Producers
  <2>2. r.share = p.share /\ r.updated = p.updated
    BY <1>2 DEF Producers
  <2>3. r.row = p.row
    BY <1>2 DEF Producers
  <2>4. Producing(a) = with(r)
    BY TablesFields DEF Producing
  <2> HIDE DEF with, r
  <2>5. AsPaid(r, p)
    BY <1>8, <2>1, <2>2, <2>3
  <2> QED
    BY <1>3, <2>1, <2>4, <2>5
<1> QED
  BY <1>5, <1>6, <1>7

LEMMA MakeprodStep ==
  ASSUME VotingInv, NEW a \in Accounts, NEW proxy \in Accounts \cup {NoOne}, NEW list,
         Makeprod(a, proxy, list)
  PROVE  /\ Good(Tables)'
         /\ \A x \in Accounts :
               producers'[x].is_producer = Producing(a).producers[x].is_producer
<1>1. Good(Producing(a)) /\ now \in 0 .. LastDay
  BY ProducerSteps DEF VotingInv
<1>2. CanVote(Producing(a), a, proxy, list, TRUE)
  <2>1. CanVote(Tables, a, proxy, list, TRUE)
    BY DEF Makeprod
  <2>2. Producing(a).voters = Tables.voters
    BY TablesFields DEF Producing, Tables
  <2>3. \A x \in Accounts : /\ Producing(a).producers[x].row = Tables.producers[x].row
                            /\ Producing(a).producers[x].is_active = Tables.producers[x].is_active
    <3>1. producers \in [Accounts -> Producers]
      BY TablesFields DEF VotingInv, Good, Sound, TablesType
    <3>2. Producing(a).producers = [producers EXCEPT ![a].is_producer = TRUE]
      BY DEF Producing, Tables
    <3>3. ASSUME NEW x \in Accounts
          PROVE  Producing(a).producers[x].row = producers[x].row
      BY <3>1, <3>2 DEF Producers
    <3>4. ASSUME NEW x \in Accounts
          PROVE  Producing(a).producers[x].is_active = producers[x].is_active
      BY <3>1, <3>2 DEF Producers
    <3> QED
      BY <3>3, <3>4, TablesFields
  <2>4. NewVotes(Tables.voters[a], proxy, list) \subseteq Accounts
    BY <2>1 DEF CanVote
  <2> QED
    BY <2>1, <2>2, <2>3, <2>4 DEF CanVote
<1>3. /\ Good(Voted(Producing(a), a, proxy, list))
      /\ SameRoles(Producing(a), Voted(Producing(a), a, proxy, list))
  BY <1>1, <1>2, VotedGood
<1>4. Become(Voted(Producing(a), a, proxy, list)) /\ now' = now
  BY DEF Makeprod
<1>5. producers' = Voted(Producing(a), a, proxy, list).producers
  BY <1>4 DEF Become
<1>6. Good(Tables)'
  BY <1>3, <1>4, GoodNext
<1> QED
  BY <1>3, <1>5, <1>6 DEF SameRoles

\* A voter's row gets a stake, or becomes a proxy or stops being one.
WithVoter(a, stake, isproxy) ==
    [Tables EXCEPT !.voters[a] =
        [voters[a] EXCEPT !.row = TRUE, !.staked = stake, !.is_proxy = isproxy]]

LEMMA VoterChange ==
  ASSUME VotingInv, NEW a \in Accounts, NEW stake \in Nat, NEW isproxy \in BOOLEAN,
         isproxy => voters[a].proxy = NoOne
  PROVE  Good(WithVoter(a, stake, isproxy))
<1> DEFINE r == [voters[a] EXCEPT !.row = TRUE, !.staked = stake, !.is_proxy = isproxy]
           u == [Tables EXCEPT !.voters[a] = r]
<1>1. /\ Good(Tables) /\ Paid(Tables) /\ Tables \in TablesType
      /\ voters \in [Accounts -> Voters]
      /\ \A x \in Accounts : Linked(Tables, x)
  BY TablesFields DEF VotingInv, Good, Sound, TablesType
<1>2. r \in Voters
  <2>1. voters[a] \in Voters
    BY <1>1
  <2>2. [voters[a] EXCEPT !.row = TRUE] \in Voters
    BY <2>1 DEF Voters
  <2> DEFINE r1 == [voters[a] EXCEPT !.row = TRUE]
  <2> HIDE DEF r1
  <2>3. [r1 EXCEPT !.staked = stake] \in Voters
    BY <2>2 DEF Voters, r1
  <2> DEFINE r2 == [r1 EXCEPT !.staked = stake]
  <2> HIDE DEF r2
  <2>4. [r2 EXCEPT !.is_proxy = isproxy] \in Voters
    BY <2>3 DEF Voters, r2
  <2> QED
    BY <2>4 DEF r1, r2
<1>3. /\ r.proxy = voters[a].proxy /\ r.producers = voters[a].producers
      /\ r.last = voters[a].last /\ r.proxied = voters[a].proxied
  BY <1>1 DEF Voters
<1>4. r.row
  BY <1>1 DEF Voters
<1>5. r.is_proxy = isproxy
  BY <1>1 DEF Voters
<1> HIDE DEF r
<1>6. /\ u \in TablesType /\ u.producers = producers /\ u.totals = totals
      /\ \A x \in Accounts : u.voters[x] = IF x = a THEN r ELSE voters[x]
  BY <1>1, <1>2, TablesFields DEF TablesType
<1> HIDE DEF u
<1>7. \A x \in Accounts : u.voters[x].is_proxy => voters[x].proxy = NoOne
  BY <1>1, <1>5, <1>6, TablesFields DEF Linked
<1>8. \A x \in Accounts : voters[x].row => u.voters[x].row
  BY <1>4, <1>6
<1>9. \A x \in Accounts : /\ u.voters[x].proxy = voters[x].proxy
                          /\ u.voters[x].producers = voters[x].producers
                          /\ u.voters[x].last = voters[x].last
                          /\ u.voters[x].proxied = voters[x].proxied
  BY <1>3, <1>6
<1>11. Paid(u)
  BY <1>1, <1>6, TablesFields, PaidSame
<1>10. Good(u)
  BY <1>1, <1>6, <1>7, <1>8, <1>9, <1>11, TablesFields, StillGood
<1> QED
  BY <1>10 DEF u, r, WithVoter

LEMMA RegproxyStep ==
  ASSUME VotingInv, NEW a \in Accounts, NEW isproxy \in BOOLEAN, Regproxy(a, isproxy)
  PROVE  /\ Good(Tables)'
         /\ \A x \in Accounts : producers'[x].is_producer = producers[x].is_producer
<1> DEFINE t == [Tables EXCEPT !.voters[a].row = TRUE, !.voters[a].is_proxy = isproxy]
           stake == voters[a].staked
<1>1. /\ voters \in [Accounts -> Voters] /\ Linked(Tables, a) /\ now \in 0 .. LastDay
  BY TablesFields DEF VotingInv, Good, Sound, TablesType
<1>2. voters[a] \in Voters /\ stake \in Nat
  BY <1>1 DEF Voters
<1>3. isproxy => voters[a].proxy = NoOne
  BY <1>1, TablesFields DEF Linked, Regproxy, MayBeProxy
<1>4. t = WithVoter(a, stake, isproxy)
  <2>1. t = [Tables EXCEPT !.voters[a] = [voters[a] EXCEPT !.row = TRUE, !.is_proxy = isproxy]]
    BY <1>1 DEF Tables
  <2>2. [voters[a] EXCEPT !.row = TRUE, !.is_proxy = isproxy]
          = [voters[a] EXCEPT !.row = TRUE, !.staked = stake, !.is_proxy = isproxy]
    BY <1>2 DEF Voters
  <2> QED
    BY <2>1, <2>2 DEF WithVoter
<1> HIDE DEF stake
<1>5. Good(t)
  BY <1>2, <1>3, <1>4, VoterChange
<1>6. Become(IF voters[a].row THEN Propagated(t, a) ELSE t) /\ now' = now
  BY DEF Regproxy
<1>9. t.producers = producers
  BY DEF Tables
<1>10. ASSUME NEW u, Become(u) PROVE producers' = u.producers
  BY <1>10 DEF Become
<1> HIDE DEF t
<1>7. CASE voters[a].row
  <2>1. Sound(t) /\ ProxiedFrom(t, Accounts, None) /\ None \in [Accounts -> Int]
        /\ t \in TablesType
    BY <1>5 DEF Good, Sound, None
  <2>2. Reached(t, a) \subseteq Accounts
    BY <2>1, ReachedClosed
  <2>3. /\ Sound(Propagated(t, a)) /\ Same(t, Propagated(t, a))
        /\ \A D \in SUBSET Accounts, c \in [Accounts -> Int] :
              Reached(t, a) \subseteq D /\ ProxiedFrom(t, D, c)
                => ProxiedFrom(Propagated(t, a), D, c)
    BY <1>1, <2>1, PropagatedSound
  <2>4. Good(Propagated(t, a))
    BY <2>1, <2>2, <2>3 DEF Good
  <2>5. \A x \in Accounts :
          Propagated(t, a).producers[x].is_producer = t.producers[x].is_producer
    BY <2>3 DEF Same
  <2> QED
    BY <1>6, <1>7, <1>9, <1>10, <2>4, <2>5, GoodNext
<1>8. CASE ~voters[a].row
  BY <1>5, <1>6, <1>8, <1>9, <1>10, GoodNext
<1> QED
  BY <1>7, <1>8

\* A new stake, and that the vote cast before can be repeated with it.
LEMMA RestakedGood ==
  ASSUME VotingInv, NEW a \in Accounts, NEW q \in Int, voters[a].staked + q >= 0
  PROVE  LET t == Restaked(a, q)
             v == voters[a]
         IN /\ Good(t)
            /\ Repeats(t, a, v.proxy, v.producers)
            /\ CanVote(t, a, v.proxy, v.producers, FALSE)
<1> DEFINE t == Restaked(a, q)
           v == voters[a]
           stake == v.staked + q
           isproxy == v.is_proxy
<1>1. /\ voters \in [Accounts -> Voters] /\ now \in 0 .. LastDay
      /\ Linked(Tables, a) /\ Ends(Tables)
  BY TablesFields DEF VotingInv, Good, Sound, TablesType
<1>2. v \in Voters /\ stake \in Nat /\ isproxy \in BOOLEAN
  BY <1>1 DEF Voters
<1>3. isproxy => v.proxy = NoOne
  BY <1>1, TablesFields DEF Linked
<1>4. t = WithVoter(a, stake, isproxy)
  <2>1. t = [Tables EXCEPT !.voters[a] = [v EXCEPT !.row = TRUE, !.staked = stake]]
    BY <1>1 DEF Tables, Restaked, Voters
  <2>2. [v EXCEPT !.row = TRUE, !.staked = stake]
          = [v EXCEPT !.row = TRUE, !.staked = stake, !.is_proxy = isproxy]
    BY <1>2 DEF Voters
  <2> QED
    BY <2>1, <2>2 DEF WithVoter
<1>5. Good(t)
  BY <1>2, <1>3, <1>4, VoterChange
<1> HIDE DEF t, stake
<1>6. /\ t.producers = producers
      /\ t.voters = [voters EXCEPT ![a] =
                       [v EXCEPT !.row = TRUE, !.staked = stake, !.is_proxy = isproxy]]
  BY <1>4 DEF Tables, WithVoter
<1>7. t.voters[a] = [v EXCEPT !.row = TRUE, !.staked = stake, !.is_proxy = isproxy]
      /\ \A x \in Accounts \ {a} : t.voters[x] = voters[x]
  BY <1>1, <1>6
<1>8. t.voters[a].row
  BY <1>2, <1>7 DEF Voters
<1>9. t.voters[a].proxy = v.proxy /\ t.voters[a].producers = v.producers
  BY <1>2, <1>7 DEF Voters
<1>10. t.voters[a].is_proxy = v.is_proxy
  BY <1>2, <1>7 DEF Voters
<1>11. Repeats(t, a, v.proxy, v.producers)
  BY <1>9 DEF Repeats
<1>12. v.proxy # NoOne => /\ v.producers = {} /\ v.proxy # a
                          /\ ~t.voters[a].is_proxy
                          /\ t.voters[v.proxy].row
  <2> SUFFICES ASSUME v.proxy # NoOne
               PROVE  /\ v.producers = {} /\ v.proxy # a
                      /\ ~t.voters[a].is_proxy
                      /\ t.voters[v.proxy].row
    OBVIOUS
  <2>1. v.proxy \in Accounts
    BY <1>2 DEF Voters
  <2>2. v.proxy # a
    <3>1. PICK x \in {a} : Tables.voters[x].proxy \notin {a}
      BY <1>1 DEF Ends
    <3> QED
      BY <3>1, TablesFields
  <2>3. v.producers = {} /\ voters[v.proxy].row
    BY <1>1, TablesFields DEF Linked
  <2>4. t.voters[v.proxy].row
    BY <1>7, <2>1, <2>2, <2>3
  <2>5. ~t.voters[a].is_proxy
    BY <1>3, <1>10
  <2> QED
    BY <2>2, <2>3, <2>4, <2>5
<1>13. v.producers \subseteq {a} /\ (a \in v.producers => t.producers[a].row)
  BY <1>1, <1>6, TablesFields DEF Linked
<1>14. /\ OldVotes(t.voters[a]) \subseteq {a}
       /\ NewVotes(t.voters[a], v.proxy, v.producers) \subseteq v.producers
  BY <1>9, <1>13 DEF OldVotes, NewVotes
<1>15. CanVote(t, a, v.proxy, v.producers, FALSE)
  BY <1>8, <1>12, <1>13, <1>14 DEF CanVote
<1> QED
  BY <1>5, <1>11, <1>15 DEF t

LEMMA RestakeStep ==
  ASSUME VotingInv, NEW a \in Accounts, NEW q \in StakeChanges, Restake(a, q)
  PROVE  /\ Good(Tables)'
         /\ \A x \in Accounts : producers'[x].is_producer = producers[x].is_producer
<1> DEFINE t == Restaked(a, q)
           v == voters[a]
<1>1. q \in Int /\ v.staked + q >= 0 /\ now \in 0 .. LastDay
  BY StakeAssumption DEF Restake, CanRestake, VotingInv
<1>2. /\ Good(t)
      /\ Repeats(t, a, v.proxy, v.producers)
      /\ CanVote(t, a, v.proxy, v.producers, FALSE)
  BY <1>1, RestakedGood
<1>3. v.proxy \in Accounts \cup {NoOne}
  BY TablesFields DEF VotingInv, Good, Sound, TablesType, Voters
<1>4. /\ Become(IF HasVoted(v) THEN Voted(t, a, v.proxy, v.producers) ELSE t)
      /\ now' = now
  BY DEF Restake
<1>6. t.producers = producers
  BY DEF Restaked, Tables
<1>7. ASSUME NEW u, Become(u) PROVE producers' = u.producers
  BY <1>7 DEF Become
<1> HIDE DEF t
<1>5. /\ Good(Voted(t, a, v.proxy, v.producers))
      /\ SameRoles(t, Voted(t, a, v.proxy, v.producers))
  BY <1>1, <1>2, <1>3, VotedGood
<1> QED
  BY <1>2, <1>4, <1>5, <1>6, <1>7, GoodNext DEF SameRoles

(***************************************************************************)
(* The theorems                                                            *)
(***************************************************************************)
\* Summands that are zero may be left out.
LEMMA TotalPart ==
  ASSUME NEW T, NEW S \in SUBSET T, NEW f, NEW g,
         \A x \in S : f[x] = g[x], \A x \in T \ S : g[x] = 0
  PROVE  Total(f, S) = Total(g, T)
<1>1. Units(f, S) = Units(g, T)
  BY DEF Units, UnitsOf
<1> QED
  BY <1>1 DEF Total

LEMMA InitGood ==
  ASSUME VoteInit
  PROVE  VotingInv
<1> DEFINE w == [x \in Accounts |-> Weight(InitialStake[x])]
<1>1. /\ now = 0 /\ now \in 0 .. LastDay /\ activity = Founders
      /\ voters = [x \in Accounts |-> VoterAtStart(x)]
      /\ producers = [x \in Accounts |-> Founded(x)]
      /\ totals = [weight |-> Total(w, Incumbents), share |-> 0, rate |-> Total(w, Incumbents),
                   updated |-> 0]
      /\ activation = [stake |-> Total(InitialStake, Incumbents),
                       done |-> Total(InitialStake, Incumbents) >= MinActivated]
  BY GrowthAssumption DEF VoteInit
<1>2. \A x \in Accounts : /\ InitialStake[x] \in Nat
                          /\ w[x] \in Nat /\ w[x] % 2 = 0 /\ w[x] = Weight(InitialStake[x])
  BY <1>1, StakeAssumption, WeightFacts
<1>3. Incumbents \subseteq Founders /\ Founders \subseteq Accounts /\ IsFiniteSet(Incumbents)
  BY StakeAssumption, AccountsAssumption, FS_Subset
<1> HIDE DEF w
<1>4. Total(w, Incumbents) \in Nat /\ Total(InitialStake, Incumbents) \in Nat
  BY <1>2, <1>3, TotalType
<1>5. ASSUME NEW x \in Accounts
      PROVE  /\ voters[x] \in Voters
             /\ voters[x].proxy = NoOne /\ voters[x].proxied = 0
             /\ voters[x].producers = (IF x \in Incumbents THEN {x} ELSE {})
             /\ voters[x].last = (IF x \in Incumbents THEN w[x] ELSE 0)
             /\ InitialStake[x] > 0 => voters[x].row
             /\ ~voters[x].is_proxy
  <2> DEFINE staked == InitialStake[x]
             has == staked > 0
             list == IF x \in Incumbents THEN {x} ELSE {}
             last == IF x \in Incumbents THEN w[x] ELSE 0
             r == [row |-> has, staked |-> staked, proxy |-> NoOne, producers |-> list,
                   last |-> last, proxied |-> 0, is_proxy |-> FALSE]
  <2>1. staked \in Nat /\ has \in BOOLEAN /\ list \in SUBSET Accounts /\ last \in Int
    BY <1>2
  <2>2. voters[x] = r
    BY <1>1, <1>2 DEF VoterAtStart, NoVoter
  <2> HIDE DEF staked, has, list, last
  <2>3. r \in Voters
    BY <2>1 DEF Voters
  <2>4. r.proxy = NoOne /\ r.proxied = 0 /\ r.producers = list /\ r.last = last
    OBVIOUS
  <2>5. has => r.row
    OBVIOUS
  <2>6. ~r.is_proxy
    OBVIOUS
  <2> HIDE DEF r
  <2> QED
    BY <2>2, <2>3, <2>4, <2>5, <2>6 DEF staked, has, list, last
<1>6. ASSUME NEW x \in Accounts
      PROVE  /\ producers[x] \in Producers
             /\ producers[x].votes = (IF x \in Incumbents THEN w[x] ELSE 0)
             /\ x \in Founders => producers[x].row
             /\ producers[x].claimed = 0 /\ producers[x].share = 0 /\ producers[x].updated = 0
  <2> DEFINE votes == IF x \in Incumbents THEN w[x] ELSE 0
             is == x \in Incumbents
             q == [row |-> TRUE, is_active |-> TRUE, is_producer |-> FALSE, votes |-> 0,
                   claimed |-> 0, share |-> 0, updated |-> 0]
             r == [q EXCEPT !.is_producer = is, !.votes = votes]
  <2>1. votes \in Int /\ is \in BOOLEAN /\ 0 \in 0 .. LastDay
    BY <1>1, <1>2
  <2>2. CASE x \in Founders
    <3>1. producers[x] = r
      <4>1. Registered(NoProducer) = q
        BY <1>1 DEF Registered, NoProducer
      <4>2. Founded(x) = [Registered(NoProducer) EXCEPT !.is_producer = is, !.votes = votes]
        BY <1>2, <2>2 DEF Founded
      <4>3. producers[x] = Founded(x)
        BY <1>1
      <4> QED
        BY <4>1, <4>2, <4>3
    <3>2. q \in Producers
      BY <2>1 DEF Producers
    <3>3. q.row /\ q.claimed = 0 /\ q.share = 0 /\ q.updated = 0
      OBVIOUS
    <3> HIDE DEF is, votes, q
    <3>4. r \in Producers
      BY <2>1, <3>2 DEF Producers
    <3>5. r.votes = votes
      BY <3>2 DEF Producers
    <3>6. r.row
      BY <3>2, <3>3 DEF Producers
    <3>7. r.claimed = 0 /\ r.share = 0
      BY <3>2, <3>3 DEF Producers
    <3>8. r.updated = 0
      BY <3>2, <3>3 DEF Producers
    <3> HIDE DEF r
    <3> QED
      BY <3>1, <3>4, <3>5, <3>6, <3>7, <3>8 DEF votes
  <2>3. CASE x \notin Founders
    <3>1. producers[x] = NoProducer
      BY <1>1, <2>3 DEF Founded
    <3>2. NoProducer \in Producers
      BY <2>1 DEF NoProducer, Producers
    <3>3. /\ NoProducer.votes = 0 /\ NoProducer.claimed = 0 /\ NoProducer.share = 0
          /\ NoProducer.updated = 0
      BY DEF NoProducer
    <3> QED
      BY <1>3, <2>3, <3>1, <3>2, <3>3
  <2> QED
    BY <2>2, <2>3
<1>7. Tables \in TablesType
  <2>1. voters \in [Accounts -> Voters]
    BY <1>1, <1>5
  <2>2. producers \in [Accounts -> Producers]
    BY <1>1, <1>6
  <2>3. totals \in [weight : Int, share : Int, rate : Int, updated : 0 .. LastDay]
    BY <1>1, <1>4
  <2>4. activation \in [stake : Nat, done : BOOLEAN]
    BY <1>1, <1>4
  <2> QED
    BY <2>1, <2>2, <2>3, <2>4 DEF Tables, TablesType
<1>8. Ends(Tables)
  <2> SUFFICES ASSUME NEW S \in (SUBSET Accounts) \ {{}}
               PROVE  \E x \in S : voters[x].proxy \notin S
    BY TablesFields DEF Ends
  <2>1. PICK x \in S : x \in Accounts
    OBVIOUS
  <2> QED
    BY <1>5, <2>1, NoOneAssumption
<1>9. ASSUME NEW x \in Accounts PROVE Linked(Tables, x) /\ Counted(Tables, x)
  <2>1. x \in Incumbents => InitialStake[x] > 0 /\ x \in Founders
    BY <1>3, StakeAssumption
  <2>2. x \in Founders => producers[x].row
    BY <1>6
  <2>3. ~voters[x].is_proxy
    BY <1>5
  <2>4. x \in Incumbents => voters[x].row
    BY <1>5, <2>1
  <2>5. Linked(Tables, x)
    BY <1>5, <2>1, <2>2, <2>3, <2>4, TablesFields DEF Linked
  <2>6. Counted(Tables, x)
    <3>0. 0 % 2 = 0
      OBVIOUS
    <3>1. voters[x].last >= 0 /\ voters[x].last % 2 = 0
      <4>1. voters[x].last = w[x] \/ voters[x].last = 0
        BY <1>5
      <4>2. w[x] \in Nat /\ w[x] % 2 = 0
        BY <1>2
      <4> QED
        BY <3>0, <4>1, <4>2
    <3>2. voters[x].proxied % 2 = 0
      BY <1>5, <3>0
    <3> QED
      BY <3>1, <3>2, TablesFields DEF Counted
  <2> QED
    BY <2>5, <2>6
<1>10. Tallied(Tables)
  <2>1. ASSUME NEW x \in Accounts PROVE producers[x].votes = Own(Tables, x)
    <3>1. producers[x].votes = IF x \in Incumbents THEN w[x] ELSE 0
      BY <1>3, <1>6
    <3>2. Own(Tables, x) = IF x \in Incumbents THEN w[x] ELSE 0
      BY <1>5, TablesFields DEF Own
    <3> QED
      BY <3>1, <3>2
  <2>2. \A x \in Incumbents : w[x] = Votes(Tables)[x]
    BY <1>3, <1>6, TablesFields DEF Votes
  <2>3. \A x \in Accounts \ Incumbents : Votes(Tables)[x] = 0
    BY <1>6, TablesFields DEF Votes
  <2>4. Total(w, Incumbents) = Total(Votes(Tables), Accounts)
    BY <1>3, <2>2, <2>3, TotalPart
  <2> QED
    BY <1>1, <2>1, <2>4, TablesFields DEF Tallied
<1>11. ProxiedFrom(Tables, Accounts, None)
  <2> SUFFICES ASSUME NEW P \in Accounts
               PROVE  voters[P].proxied
                        = Total(Lasts(Tables), ClientsIn(Tables, Accounts, P)) + 0
    BY TablesFields DEF ProxiedFrom, None
  <2>1. ClientsIn(Tables, Accounts, P) = {}
    <3>1. \A x \in Accounts : voters[x].proxy # P
      BY <1>5, NoOneAssumption
    <3> QED
      BY <3>1, TablesFields DEF ClientsIn
  <2>2. Total(Lasts(Tables), {}) = 0
    BY TotalZero
  <2>3. Total(Lasts(Tables), ClientsIn(Tables, Accounts, P)) = 0
    BY <2>1, <2>2
  <2>4. voters[P].proxied = 0
    BY <1>5
  <2> QED
    BY <2>3, <2>4
<1>12. Paid(Tables)
  <2>1. ASSUME NEW x \in Accounts
        PROVE  /\ PaidRow(producers[x])
               /\ RateOf(producers[x]) = producers[x].votes
               /\ ShareNow(producers[x]) = 0
    <3> DEFINE p == producers[x]
    <3>1. p.claimed = 0 /\ p.share = 0 /\ p.updated = 0
      BY <1>6
    <3>2. p.votes \in Int /\ now = 0 /\ ShareLife \in Nat \ {0}
      BY <1>1, <1>6, StakeAssumption DEF Producers
    <3> HIDE DEF p
    <3>3. PaidRow(p) /\ RateOf(p) = p.votes
      BY <3>1, <3>2 DEF PaidRow, RateOf, UpdatedAfter
    <3>4. ShareNow(p) = 0
      <4>1. p.votes * (now - p.updated) = 0
        BY <3>1, <3>2
      <4> QED
        BY <3>1, <4>1 DEF ShareNow
    <3> QED
      BY <3>3, <3>4 DEF p
  <2>2. Rates(Tables) = Votes(Tables) /\ \A x \in Accounts : Shares(Tables)[x] = 0
    BY <2>1, TablesFields DEF Rates, Votes, Shares
  <2>3. Total(Shares(Tables), Accounts) = 0
    BY <2>2, TotalZero
  <2>4. totals.rate = Total(Rates(Tables), Accounts)
    BY <1>1, <1>10, <2>2, TablesFields DEF Tallied
  <2>5. totals.share + totals.rate * (now - totals.updated) = Total(Shares(Tables), Accounts)
    <3>1. totals.share = 0 /\ now - totals.updated = 0 /\ totals.rate \in Int
      BY <1>1, <1>4
    <3> QED
      BY <2>3, <3>1
  <2> QED
    BY <2>1, <2>4, <2>5, TablesFields DEF Paid
<1> QED
  BY <1>1, <1>3, <1>7, <1>8, <1>9, <1>10, <1>11, <1>12 DEF VotingInv, Good, Sound

LEMMA StepGood ==
  ASSUME VotingInv, [VotingNext]_votingVars
  PROVE  VotingInv'
<1>1. now \in 0 .. LastDay /\ now \in Int /\ LastDay \in Nat
      /\ activity \in SUBSET Accounts /\ Good(Tables)
      /\ Signers \subseteq Accounts
  BY GrowthAssumption, AccountsAssumption DEF VotingInv
<1>2. ASSUME UNCHANGED <<voters, producers, totals, activation, now>>
      PROVE  Good(Tables)'
  BY <1>1, <1>2, TablesFields, GoodNext DEF Become
<1>3. ASSUME NEW a \in Signers, Regproducer(a)
      PROVE  VotingInv'
  BY <1>1, <1>3, ProducerSteps DEF Regproducer, RegisterProducer, VotingInv
<1>4. ASSUME NEW a \in Signers, Unregprod(a)
      PROVE  VotingInv'
  BY <1>1, <1>4, ProducerSteps DEF Unregprod, VotingInv
<1>5. ASSUME NEW a \in Signers, Rmvproducer(a)
      PROVE  VotingInv'
  BY <1>1, <1>5, ProducerSteps DEF Rmvproducer, VotingInv, tokenVars
<1>6. ASSUME NEW a \in Signers, NEW proxy \in Accounts \cup {NoOne}, NEW list \in SUBSET Signers,
             Makeprod(a, proxy, list)
      PROVE  VotingInv'
  <2>1. Good(Tables)'
    BY <1>1, <1>6, MakeprodStep
  <2>2. activity' \in SUBSET Accounts /\ now' = now
    BY <1>1, <1>6 DEF Makeprod
  <2> QED
    BY <1>1, <2>1, <2>2 DEF VotingInv
<1>7. ASSUME NEW a \in Signers, NEW isproxy \in BOOLEAN, Regproxy(a, isproxy)
      PROVE  VotingInv'
  <2>1. Good(Tables)'
    BY <1>1, <1>7, RegproxyStep
  <2>2. activity' = activity /\ now' = now
    BY <1>7 DEF Regproxy, tokenVars
  <2> QED
    BY <1>1, <2>1, <2>2 DEF VotingInv
<1>8. ASSUME NEW a \in Signers, NEW q \in StakeChanges, Restake(a, q)
      PROVE  VotingInv'
  <2>1. Good(Tables)'
    BY <1>1, <1>8, RestakeStep
  <2>2. activity' = activity /\ now' = now
    BY <1>8 DEF Restake, tokenVars
  <2> QED
    BY <1>1, <2>1, <2>2 DEF VotingInv
<1>9. CASE Day
  <2>0. /\ Tables \in TablesType /\ Paid(Tables) /\ Tallied(Tables)
        /\ \A x \in Accounts : Counted(Tables, x)
    BY <1>1 DEF Good, Sound
  <2>3. \A x \in Accounts : producers[x].votes >= 0
    BY <2>0, TablesFields DEF Tallied, Own, Counted
  <2>4. Paid(Tables)'
    BY <1>1, <1>9, <2>0, <2>3, PaidDay DEF Day
  <2>5. Tables' = Tables
    BY <1>9 DEF Day, Tables
  <2>1. Good(Tables)'
    <3> DEFINE t == Tables
    <3>1. t' = t /\ Good(t) /\ Paid(t)'
      BY <1>1, <2>4, <2>5
    <3> HIDE DEF t
    <3>2. Good(t)'
      BY <3>1 DEF Good, Sound, Ends, Linked, Counted, Tallied, Own, Votes, ProxiedFrom, Lasts,
                  ClientsIn, None
    <3> QED
      BY <3>2 DEF t
  <2>2. now' \in 0 .. LastDay /\ activity' = activity
    BY <1>1, <1>9 DEF Day, tokenVars
  <2> QED
    BY <1>1, <2>1, <2>2 DEF VotingInv
<1>10. CASE UNCHANGED votingVars
  <2>1. Good(Tables)'
    BY <1>2, <1>10 DEF votingVars, voteVars
  <2>2. activity' = activity /\ now' = now
    BY <1>10 DEF votingVars, voteVars, tokenVars
  <2> QED
    BY <1>1, <2>1, <2>2 DEF VotingInv
<1> QED
  BY <1>3, <1>4, <1>5, <1>6, <1>7, <1>8, <1>9, <1>10 DEF VotingNext, VoteActions

THEOREM VotingSafety == VotingSpec => []VotingInv
BY InitGood, StepGood, PTL DEF VotingSpec, VotingInit

\* What the invariant says of the votes, by itself.
LEMMA VotesFollow ==
  ASSUME VotingInv
  PROVE  VotingTypeOK /\ ProxiesEnd /\ VotesAddUp
<1>1. VotingTypeOK
  BY TablesFields DEF VotingInv, Good, Sound, TablesType, VotingTypeOK
<1>2. ProxiesEnd
  BY TablesFields DEF VotingInv, Good, Sound, Linked, Ends, ProxiesEnd
<1>3. VotesAddUp
  <2>1. Tallied(Tables) /\ \A x \in Accounts : Counted(Tables, x)
    BY DEF VotingInv, Good, Sound
  <2>2. \A x \in Accounts : producers[x].votes = OwnVote(x) /\ voters[x].last >= 0
    BY <2>1, TablesFields DEF Tallied, Own, OwnVote, Counted
  <2>3. Votes(Tables) = [x \in Accounts |-> producers[x].votes]
    BY TablesFields DEF Votes
  <2> QED
    BY <2>1, <2>2, <2>3, TablesFields DEF Tallied, VotesAddUp
<1> QED
  BY <1>1, <1>2, <1>3

LEMMA RestakeFollows ==
  ASSUME VotingInv
  PROVE  RestakeNeverRefused
<1>1. ASSUME NEW a \in Accounts, NEW q \in StakeChanges, voters[a].staked + q >= 0
      PROVE  CanRestake(a, q)
  <2>1. q \in Int
    BY StakeAssumption
  <2>2. CanVote(Restaked(a, q), a, voters[a].proxy, voters[a].producers, FALSE)
    BY <1>1, <2>1, RestakedGood
  <2> QED
    BY <1>1, <2>2 DEF CanRestake
<1> QED
  BY <1>1 DEF RestakeNeverRefused

\* Every table keeps its type, and no stake becomes negative.
THEOREM VotingTypes == VotingSpec => []VotingTypeOK
<1>1. VotingInv => VotingTypeOK
  BY VotesFollow
<1> QED
  BY <1>1, VotingSafety, PTL

\* However accounts choose proxies, register as proxies and withdraw, following
\* a vote's proxies always ends.
THEOREM VotingProxiesEnd == VotingSpec => []ProxiesEnd
<1>1. VotingInv => ProxiesEnd
  BY VotesFollow
<1> QED
  BY <1>1, VotingSafety, PTL

\* A change of stake is never refused because of the vote cast before.
THEOREM VotingNeverStuck == VotingSpec => []RestakeNeverRefused
BY RestakeFollows, VotingSafety, PTL

\* The votes of producers, and their sum, are what the voters last counted.
THEOREM VotingTotals == VotingSpec => []VotesAddUp
<1>1. VotingInv => VotesAddUp
  BY VotesFollow
<1> QED
  BY <1>1, VotingSafety, PTL

\* The shares of the vote pay that have not lapsed make up the total.
LEMMA SharesFollow ==
  ASSUME VotingInv
  PROVE  SharesAddUp
<1> DEFINE Live == {a \in Accounts : ~UpdatedAfter(producers[a])}
           votes == [a \in Accounts |-> producers[a].votes]
<1>1. Paid(Tables)
  BY DEF VotingInv, Good, Sound
<1>2. Shares(Tables) = [a \in Accounts |-> ShareNow(producers[a])]
  BY TablesFields DEF Shares
<1>3. Total(votes, Live) = Total(Rates(Tables), Accounts)
  <2>1. /\ Live \in SUBSET Accounts
        /\ \A x \in Live : votes[x] = Rates(Tables)[x]
        /\ \A x \in Accounts \ Live : Rates(Tables)[x] = 0
    BY TablesFields DEF Rates, RateOf
  <2> HIDE DEF Live, votes
  <2> QED
    BY <2>1, TotalPart
<1> QED
  BY <1>1, <1>2, <1>3, TablesFields DEF Paid, SharesAddUp

\* Day by day, and through claims that drop what lapsed, the total share and its
\* rate stay what the shares of the producers and their votes add up to.
THEOREM VotingShares == VotingSpec => []SharesAddUp
BY SharesFollow, VotingSafety, PTL

LEMMA ProxiedFollows ==
  ASSUME VotingInv
  PROVE  ProxiedAddsUp
<1>1. ASSUME NEW P \in Accounts
      PROVE  voters[P].proxied = Total([a \in Accounts |-> voters[a].last], Clients(P))
  <2>1. ProxiedFrom(Tables, Accounts, None) /\ Tables \in TablesType
        /\ \A x \in Accounts : Counted(Tables, x)
    BY DEF VotingInv, Good, Sound
  <2>2. voters[P].proxied = Total(Lasts(Tables), ClientsIn(Tables, Accounts, P)) + 0
    BY <2>1, TablesFields DEF ProxiedFrom, None
  <2>3. /\ Lasts(Tables) = [a \in Accounts |-> voters[a].last]
        /\ ClientsIn(Tables, Accounts, P) = Clients(P)
    BY TablesFields DEF Lasts, ClientsIn, Clients
  <2>4. Total(Lasts(Tables), ClientsIn(Tables, Accounts, P)) \in Int
    <3>1. /\ Total(Lasts(Tables), ClientsIn(Tables, Accounts \ {P}, P)) \in Nat
          /\ Total(Lasts(Tables), ClientsIn(Tables, Accounts, P))
               = Total(Lasts(Tables), ClientsIn(Tables, Accounts \ {P}, P))
                 + IF Tables.voters[P].proxy = P THEN Tables.voters[P].last ELSE 0
      BY <2>1, OneLess
    <3>2. Tables.voters[P].last \in Int
      BY <2>1 DEF TablesType, Voters
    <3> QED
      BY <3>1, <3>2
  <2> QED
    BY <2>2, <2>3, <2>4
<1> QED
  BY <1>1 DEF ProxiedAddsUp

\* The weight of a proxy is the sum of what its clients last counted.
THEOREM VotingProxied == VotingSpec => []ProxiedAddsUp
BY ProxiedFollows, VotingSafety, PTL
=============================================================================

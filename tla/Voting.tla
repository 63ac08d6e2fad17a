-------------------------------- MODULE Voting --------------------------------
(***************************************************************************)
(* Producers and votes of the inery.system contract: the producers,        *)
(* producers2 and voters tables, the vote totals of the global state, and  *)
(* the activation of the chain. In this fork makeprod is how one votes: a  *)
(* registered producer with Border INR votes for itself, or gives its      *)
(* weight to a proxy. update_votes runs on a record t of the tables,       *)
(* because a change of stake ends with it as well.                         *)
(*                                                                         *)
(* A weight is what stake2vote makes of a stake, as an exact number: the   *)
(* rounding of doubles is left out. Growth holds even numbers, so that two *)
(* weights differ by nothing or by more than 1, as they do in the code,    *)
(* where one unit of stake weighs 2^(years since 2000). Also left out:     *)
(* keys, urls, locations, b1's vesting (module Staking), and rows that     *)
(* earlier versions of the contract wrote without a producers2 row.        *)
(***************************************************************************)
EXTENDS Token

CONSTANTS
    NoOne,          \* the empty name in voter_info.proxy
    Growth,         \* day -> the weight of one unit of stake on that day
    MinActivated,   \* min_activated_stake
    ShareLife,      \* days until a share of the vote pay lapses (3)
    InitialFunds,   \* account -> core tokens it starts with
    InitialStake,   \* account -> staked before anybody votes; 0 without a row
    Founders,       \* producers that registered before anybody votes
    Incumbents,     \* founders with stake that have voted for themselves
    Leavers,        \* BOUND: producers that unregister or are removed
    Proxies,        \* BOUND: accounts that register as proxies, or withdraw that
    Stakers,        \* BOUND: accounts whose stake changes
    StakeChanges,   \* BOUND: changes of stake at a time
    MaxStake,       \* BOUND: stake of an account
    LastDay         \* BOUND: days the clock runs

ASSUME NoOneAssumption == NoOne \notin Accounts
ASSUME GrowthAssumption ==
    /\ LastDay \in Nat
    /\ Growth \in [0 .. LastDay -> Nat]
    /\ \A d \in 0 .. LastDay : Growth[d] > 0 /\ Growth[d] % 2 = 0
ASSUME StakeAssumption ==
    /\ MinActivated \in Nat \ {0} /\ ShareLife \in Nat \ {0}
    /\ Founders \subseteq Signers /\ Incumbents \subseteq Founders
    /\ MaxStake \in Nat /\ StakeChanges \subseteq Int \ {0}
    /\ InitialFunds \in [Accounts -> Nat] /\ InitialStake \in [Accounts -> Nat]
    /\ \A a \in Incumbents : InitialStake[a] > 0 /\ InitialFunds[a] >= Border * Precision

VARIABLES
    voters,     \* account -> its voter_info
    producers,  \* account -> its producer_info and producer_info2
    totals,     \* total_producer_vote_weight, and the vote pay shares of all
    activation, \* total_activated_stake, and whether the threshold was reached
    now         \* the current day

voteVars == <<voters, producers, totals, activation, now>>
votingVars == <<tokenVars, voteVars>>

NoVoter == [row |-> FALSE, staked |-> 0, proxy |-> NoOne, producers |-> {},
            last |-> 0, proxied |-> 0, is_proxy |-> FALSE]
NoProducer == [row |-> FALSE, is_active |-> FALSE, is_producer |-> FALSE, votes |-> 0,
               claimed |-> 0, share |-> 0, updated |-> 0]

Tables == [voters |-> voters, producers |-> producers, totals |-> totals,
           activation |-> activation]

Become(t) ==
    /\ voters' = t.voters
    /\ producers' = t.producers
    /\ totals' = t.totals
    /\ activation' = t.activation

Abs(n) == IF n >= 0 THEN n ELSE -n

\* stake2vote
Weight(stake) == stake * Growth[now]

(***************************************************************************)
(* Vote pay shares: votes times days, until ShareLife days after a claim   *)
(***************************************************************************)
Crossed(p) == p.claimed + ShareLife <= now
UpdatedAfter(p) == p.claimed + ShareLife <= p.updated

\* update_producer_votepay_share, before a reset
ShareNow(p) == p.share + IF UpdatedAfter(p) \/ p.votes <= 0 THEN 0
                         ELSE p.votes * (now - p.updated)

\* Fault: the shares that accrued since the last update are lost.
ShareTotalStale(g, extra, rate) ==
    [g EXCEPT !.share = Larger(0, @ + extra), !.rate = Larger(0, @ + rate), !.updated = now]

\* update_total_votepay_share
ShareTotal(g, extra, rate) ==
    [g EXCEPT !.share = Larger(0, @ + g.rate * (now - g.updated) + extra),
              !.rate = Larger(0, @ + rate),
              !.updated = now]

(***************************************************************************)
(* The votes of producer p change by delta, to count. A share that lapsed  *)
(* since its last update is dropped from the total, with the votes that    *)
(* earned it.                                                              *)
(***************************************************************************)
Lapsed(r) == Crossed(r) /\ ~UpdatedAfter(r)

WithVotes(r, count) ==
    [r EXCEPT !.votes = count,
              !.share = IF Lapsed(r) THEN 0 ELSE ShareNow(r),
              !.updated = now]

\* Fault: a share that lapsed goes on being counted.
TotalsForever(g, r, delta) ==
    ShareTotal([g EXCEPT !.weight = @ + delta], 0, IF Crossed(r) THEN 0 ELSE delta)

TotalsAfter(g, r, delta) ==
    ShareTotal([g EXCEPT !.weight = @ + delta],
               IF Lapsed(r) THEN -ShareNow(r) ELSE 0,
               IF Lapsed(r) THEN -r.votes ELSE IF Crossed(r) THEN 0 ELSE delta)

Recounted(t, p, delta, count) ==
    [t EXCEPT !.producers[p] = WithVotes(@, count),
              !.totals = TotalsAfter(@, t.producers[p], delta)]

(***************************************************************************)
(* propagate_weight_change: it sets the vote of an account to the weight   *)
(* of its own stake, takes the change to the proxy and goes on there, or   *)
(* to the producers voted for; an account whose weight did not change ends *)
(* it. Reached is the smallest set that holds a and follows those proxies. *)
(***************************************************************************)
Change(t, x) == Weight(t.voters[x].staked) - t.voters[x].last
Moves(t, x) == Abs(Change(t, x)) > 1
Forwards(t, x) == Moves(t, x) /\ t.voters[x].proxy # NoOne

Reached(t, a) ==
    {x \in Accounts :
        \A S \in SUBSET Accounts :
            (a \in S /\ \A y \in S : Forwards(t, y) => t.voters[y].proxy \in S) => x \in S}

\* What y gains as the proxy of an account in S; a chain meets it once.
Gained(t, S, y) ==
    LET clients == {x \in S : Forwards(t, x) /\ t.voters[x].proxy = y}
    IN IF clients = {} THEN 0 ELSE Change(t, CHOOSE x \in clients : TRUE)

\* Fault: the weights are set anew, and no proxy hears of the change.
ReweighedAlone(t, S) ==
    [t EXCEPT !.voters = [x \in Accounts |->
        [t.voters[x] EXCEPT !.last = IF x \in S THEN Weight(t.voters[x].staked) ELSE @]]]

Reweighed(t, S) ==
    [t EXCEPT !.voters = [x \in Accounts |->
        [t.voters[x] EXCEPT !.last = IF x \in S THEN Weight(t.voters[x].staked) ELSE @,
                            !.proxied = @ + Gained(t, S, x)]]]

Propagated(t, a) ==
    LET S    == Reached(t, a)
        ends == {x \in S : Moves(t, x) /\ ~Forwards(t, x)}
        u    == Reweighed(t, S)
    IN IF ends = {} THEN u
       ELSE LET e == CHOOSE x \in ends : TRUE
            IN IF e \in t.voters[e].producers
               THEN Recounted(u, e, Change(t, e), u.producers[e].votes + Change(t, e))
               ELSE [u EXCEPT !.totals = ShareTotal(@, 0, 0)]

(***************************************************************************)
(* update_votes: account a votes for the producers in list, or for proxy.  *)
(* voting says whether it does so itself; a change of stake repeats the    *)
(* vote it has. A list is {} or {a}: "You can only vote for yourself."     *)
(***************************************************************************)
NewWeight(v) == Weight(v.staked) + IF v.is_proxy THEN v.proxied ELSE 0

\* The producers whose votes change, of the old list and of the new one.
OldVotes(v) == IF v.last > 0 /\ v.proxy = NoOne THEN v.producers ELSE {}
NewVotes(v, proxy, list) == IF proxy = NoOne /\ NewWeight(v) >= 0 THEN list ELSE {}

\* Fault: whether the proxy may have a proxy itself is not asked.
CanVoteChained(t, a, proxy, list, voting) ==
    LET v == t.voters[a]
    IN /\ v.row
       /\ proxy # NoOne => /\ list = {} /\ proxy # a
                           /\ t.voters[proxy].row
                           /\ voting => t.voters[proxy].is_proxy
       /\ OldVotes(v) \cup NewVotes(v, proxy, list) \subseteq {a}
       /\ \A p \in NewVotes(v, proxy, list) :
             t.producers[p].row /\ (voting => t.producers[p].is_active)

CanVote(t, a, proxy, list, voting) ==
    LET v == t.voters[a]
    IN /\ v.row
       /\ proxy # NoOne => /\ list = {} /\ proxy # a
                           /\ ~v.is_proxy
                           /\ t.voters[proxy].row
                           /\ voting => t.voters[proxy].is_proxy
       /\ OldVotes(v) \cup NewVotes(v, proxy, list) \subseteq {a}
       /\ \A p \in NewVotes(v, proxy, list) :
             t.producers[p].row /\ (voting => t.producers[p].is_active)

\* The first vote of an account adds its stake to total_activated_stake.
Activated(g, v) ==
    IF g.done \/ v.last > 0 THEN g
    ELSE [stake |-> g.stake + v.staked, done |-> g.stake + v.staked >= MinActivated]

\* The old proxy loses the weight last given to it.
Left(t, a) ==
    LET v == t.voters[a]
    IN IF v.last > 0 /\ v.proxy # NoOne
       THEN Propagated([t EXCEPT !.voters[v.proxy].proxied = @ - v.last], v.proxy)
       ELSE t

\* The new proxy gains weight w.
Joined(t, proxy, w) ==
    IF proxy # NoOne /\ w >= 0
    THEN Propagated([t EXCEPT !.voters[proxy].proxied = @ + w], proxy)
    ELSE t

\* Fault: the old vote stays when the new one is cast.
CastTwice(t, a, list, w) ==
    IF list = {} THEN [t EXCEPT !.totals = ShareTotal(@, 0, 0)]
    ELSE Recounted(t, a, w, t.producers[a].votes + w)

\* The votes a gives itself, from the old list to the new one; what rounding
\* would take below 0 is cut off there, and not from the total.
Cast(t, a, list, w) ==
    LET old   == OldVotes(t.voters[a])
        delta == (IF a \in list THEN w ELSE 0) - (IF a \in old THEN t.voters[a].last ELSE 0)
    IN IF old \cup list = {}
       THEN [t EXCEPT !.totals = ShareTotal(@, 0, 0)]
       ELSE Recounted(t, a, delta, Larger(0, t.producers[a].votes + delta))

Voted(t, a, proxy, list) ==
    LET v == t.voters[a]
        w == NewWeight(v)
        u == Cast(Joined(Left(t, a), proxy, w), a, NewVotes(v, proxy, list), w)
    IN [u EXCEPT !.voters[a].last = w,
                 !.voters[a].producers = list,
                 !.voters[a].proxy = proxy,
                 !.activation = Activated(@, v)]

(***************************************************************************)
(* Producers register and leave                                            *)
(***************************************************************************)
Registered(r) ==
    IF r.row THEN [r EXCEPT !.is_active = TRUE]
    ELSE [NoProducer EXCEPT !.row = TRUE, !.is_active = TRUE, !.claimed = now, !.updated = now]

\* regproducer and regproducer2
Regproducer(a) ==
    /\ producers' = [producers EXCEPT ![a] = Registered(@)]
    /\ RegisterProducer(a)
    /\ UNCHANGED <<voters, totals, activation, now>>

Deactivated(r) == [r EXCEPT !.is_active = FALSE, !.is_producer = FALSE]

Unregprod(a) ==
    /\ producers[a].row
    /\ producers' = [producers EXCEPT ![a] = Deactivated(@)]
    /\ activity' = activity \ {a}
    /\ UNCHANGED <<stat, balance, row, voters, totals, activation, now>>

\* The operator removes a producer; its lock stays.
Rmvproducer(a) ==
    /\ producers[a].row
    /\ producers' = [producers EXCEPT ![a] = Deactivated(@)]
    /\ UNCHANGED <<tokenVars, voters, totals, activation, now>>

(***************************************************************************)
(* Voting                                                                  *)
(***************************************************************************)
Producing(a) == [Tables EXCEPT !.producers[a].is_producer = TRUE]

\* Fault: the balance is not looked at.
MayProducePoor(a) == producers[a].row

MayProduce(a) ==
    /\ a \in row[CoreSymbol]
    /\ balance[CoreSymbol][a] \div Precision >= Border
    /\ producers[a].row

\* Every account with a producer row has an accountsact row to turn on.
Makeprod(a, proxy, list) ==
    /\ MayProduce(a)
    /\ CanVote(Tables, a, proxy, list, TRUE)
    /\ Become(Voted(Producing(a), a, proxy, list))
    /\ activity' = activity \cup {a}
    /\ UNCHANGED <<stat, balance, row, now>>

MayBeProxy(a, isproxy) ==
    voters[a].row => /\ isproxy # voters[a].is_proxy
                     /\ isproxy => voters[a].proxy = NoOne

Regproxy(a, isproxy) ==
    /\ MayBeProxy(a, isproxy)
    /\ LET t == [Tables EXCEPT !.voters[a].row = TRUE, !.voters[a].is_proxy = isproxy]
       IN Become(IF voters[a].row THEN Propagated(t, a) ELSE t)
    /\ UNCHANGED <<tokenVars, now>>

(***************************************************************************)
(* update_voting_power, the end of every change of stake: it repeats the   *)
(* vote with the new stake. What the change does besides, and which change *)
(* may happen, is in module Staking.                                       *)
(***************************************************************************)
Restaked(a, q) == [Tables EXCEPT !.voters[a].row = TRUE, !.voters[a].staked = @ + q]

HasVoted(v) == v.producers # {} \/ v.proxy # NoOne

\* Fault: the vote is taken as a new one.
CanRestakeVoting(a, q) ==
    LET v == voters[a]
    IN /\ v.staked + q >= 0
       /\ HasVoted(v) => CanVote(Restaked(a, q), a, v.proxy, v.producers, TRUE)

\* Fault: more may be withdrawn than was staked.
CanRestakeBelow(a, q) ==
    LET v == voters[a]
    IN HasVoted(v) => CanVote(Restaked(a, q), a, v.proxy, v.producers, FALSE)

CanRestake(a, q) ==
    LET v == voters[a]
    IN /\ v.staked + q >= 0
       /\ HasVoted(v) => CanVote(Restaked(a, q), a, v.proxy, v.producers, FALSE)

Restake(a, q) ==
    /\ voters[a].staked + q <= MaxStake
    /\ CanRestake(a, q)
    /\ Become(IF HasVoted(voters[a])
              THEN Voted(Restaked(a, q), a, voters[a].proxy, voters[a].producers)
              ELSE Restaked(a, q))
    /\ UNCHANGED <<tokenVars, now>>

Day ==
    /\ now < LastDay
    /\ now' = now + 1
    /\ UNCHANGED <<tokenVars, voters, producers, totals, activation>>

(***************************************************************************)
(* The specification. The core token is issued and handed out, and stake   *)
(* is held; the founders have registered, and the incumbents have voted.  *)
(***************************************************************************)
CoreFunded(issuer, cap) ==
    /\ stat = [s \in Symbols |->
                 IF s = CoreSymbol
                 THEN [supply |-> Total(InitialFunds, Accounts), max_supply |-> cap,
                       issuer |-> issuer]
                 ELSE NoStat]
    /\ balance = [s \in Symbols |->
                    IF s = CoreSymbol THEN InitialFunds ELSE [a \in Accounts |-> 0]]
    /\ row = [s \in Symbols |->
                IF s = CoreSymbol THEN {a \in Accounts : InitialFunds[a] > 0} ELSE {}]

\* A founder, and an incumbent that voted for itself on day 0.
Founded(a) ==
    IF a \notin Founders THEN NoProducer
    ELSE [Registered(NoProducer) EXCEPT
            !.is_producer = a \in Incumbents,
            !.votes = IF a \in Incumbents THEN Weight(InitialStake[a]) ELSE 0]

VoterAtStart(a) ==
    [NoVoter EXCEPT !.row = InitialStake[a] > 0,
                    !.staked = InitialStake[a],
                    !.producers = IF a \in Incumbents THEN {a} ELSE {},
                    !.last = IF a \in Incumbents THEN Weight(InitialStake[a]) ELSE 0]

VoteInit ==
    /\ now = 0
    /\ voters = [a \in Accounts |-> VoterAtStart(a)]
    /\ producers = [a \in Accounts |-> Founded(a)]
    /\ activity = Founders
    /\ LET votes == Total([a \in Accounts |-> Weight(InitialStake[a])], Incumbents)
       IN totals = [weight |-> votes, share |-> 0, rate |-> votes, updated |-> 0]
    /\ LET stake == Total(InitialStake, Incumbents)
       IN activation = [stake |-> stake, done |-> stake >= MinActivated]

VotingInit == CoreFunded(Creator, Total(InitialFunds, Accounts) + 1) /\ VoteInit

VoteActions ==
    \E a \in Signers :
        \/ Regproducer(a)
        \/ a \in Leavers /\ (Unregprod(a) \/ Rmvproducer(a))
        \/ \E proxy \in Accounts \cup {NoOne}, list \in SUBSET Signers : Makeprod(a, proxy, list)
        \/ a \in Proxies /\ \E isproxy \in BOOLEAN : Regproxy(a, isproxy)
        \/ a \in Stakers /\ \E q \in StakeChanges : Restake(a, q)

VotingNext == VoteActions \/ Day

VotingSpec == VotingInit /\ [][VotingNext]_votingVars

(***************************************************************************)
(* Properties                                                              *)
(***************************************************************************)
Voters == [row : BOOLEAN, staked : Nat, proxy : Accounts \cup {NoOne},
           producers : SUBSET Accounts, last : Int, proxied : Int, is_proxy : BOOLEAN]
Producers == [row : BOOLEAN, is_active : BOOLEAN, is_producer : BOOLEAN, votes : Int,
              claimed : 0 .. LastDay, share : Int, updated : 0 .. LastDay]

\* Every table holds values of its type, and a stake is never negative ("stake
\* for voting cannot be negative", update_voting_power).
VotingTypeOK ==
    /\ voters \in [Accounts -> Voters]
    /\ producers \in [Accounts -> Producers]
    /\ totals \in [weight : Int, share : Int, rate : Int, updated : 0 .. LastDay]
    /\ activation \in [stake : Nat, done : BOOLEAN]
    /\ now \in 0 .. LastDay
    /\ activity \in SUBSET Accounts

\* Proxies form no cycle: in every group of accounts one has its proxy outside
\* or has none. propagate_weight_change recurses along them without a bound, so
\* a cycle would stop every change of stake of the accounts that lead to it.
\* An account may use a proxy that later uses one itself.
ProxiesEnd ==
    /\ \A a \in Accounts : voters[a].is_proxy => voters[a].proxy = NoOne
    /\ \A S \in (SUBSET Accounts) \ {{}} : \E x \in S : voters[x].proxy \notin S

\* A change of stake that leaves no debt is never refused on account of a vote
\* cast before, whatever became of the producer or the proxy since: the stake
\* of an account cannot get stuck behind its vote.
RestakeNeverRefused ==
    \A a \in Accounts, q \in StakeChanges :
        voters[a].staked + q >= 0 => CanRestake(a, q)

OwnVote(a) == IF a \in voters[a].producers THEN voters[a].last ELSE 0

\* The votes of a producer are the weight its own vote was last counted with,
\* and total_producer_vote_weight is "the sum of all producer votes"
\* (inery.system.hpp), though both are only ever moved by differences.
VotesAddUp ==
    /\ \A a \in Accounts : producers[a].votes = OwnVote(a) /\ voters[a].last >= 0
    /\ totals.weight = Total([a \in Accounts |-> producers[a].votes], Accounts)

Clients(P) == {a \in Accounts : voters[a].proxy = P}

\* proxied_vote_weight is "the total vote weight delegated to this voter as a
\* proxy" (inery.system.hpp), through changes of proxy, of stake, of time, and
\* of the proxies of proxies.
ProxiedAddsUp ==
    \A P \in Accounts :
        voters[P].proxied = Total([a \in Accounts |-> voters[a].last], Clients(P))

\* The total of the vote pay shares is what the rows have accrued, day by day, and
\* it grows at the rate of the votes that go on earning: those that no recount has
\* met since they lapsed.
SharesAddUp ==
    LET Live   == {a \in Accounts : ~UpdatedAfter(producers[a])}
        Accrued == [a \in Accounts |-> ShareNow(producers[a])]
    IN /\ totals.rate = Total([a \in Accounts |-> producers[a].votes], Live)
       /\ totals.share + totals.rate * (now - totals.updated) = Total(Accrued, Accounts)

\* "If voting for a `proxy`, the producer votes will not change until the proxy
\* updates their own vote" (inery.system.hpp, makeprod).
ProxyVotesStand ==
    [][\A a \in Signers, P \in Accounts :
          Makeprod(a, P, {}) => producers'[P].votes = producers[P].votes]_votingVars
=============================================================================

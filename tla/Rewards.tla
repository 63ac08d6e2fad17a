------------------------------- MODULE Rewards -------------------------------
(***************************************************************************)
(* The pay of producers in inery.system: onblock counts the blocks and     *)
(* proposes the schedule, claimrewards issues the inflation since the last *)
(* claim, fills the buckets with it and pays a producer from them. The     *)
(* buckets are numbers of the global state; the tokens lie with inery.bpay *)
(* and inery.vpay, and move by inline transfers at the end of the action.  *)
(*                                                                         *)
(* A day is the unit of time; blocks of a day differ in order only. Votes  *)
(* are divided exactly, as doubles do up to rounding. Left out: the column *)
(* tokens_claim, which nothing reads, the order of the proposed schedule   *)
(* (a sort by votes cut to 16 bits), and the branch of claimrewards for a  *)
(* revision above 0, which no action sets.                                 *)
(***************************************************************************)
EXTENDS Voting

CONSTANTS
    System, Saving, BlockPayer, VotePayer,  \* inery, inery.saving, .bpay, .vpay
    MaxSupply,      \* max_supply of the core token
    PayDelay,       \* days that must have passed since the last claim (1)
    PayPrecision,   \* pay_factor_precision (10000)
    MinVotePay,     \* min_pervote_daily_pay
    ContinuousRate, \* annual rate -> new tokens per YearUnits tokens and day
    YearUnits,      \* the denominator of the rates
    InitialRates,   \* annual rate and pay factors the chain starts with
    RateChanges,    \* BOUND: arguments of setinflation
    MaxElected,     \* the most producers proposed (101)
    MaxUnpaid       \* BOUND: unpaid blocks

ASSUME PayersAssumption ==
    /\ {System, Saving, BlockPayer, VotePayer} \subseteq Accounts \ Signers
    /\ System \notin {Saving, BlockPayer, VotePayer, Creator}
    /\ Saving \notin {BlockPayer, VotePayer, Creator}
    /\ BlockPayer \notin {VotePayer, Creator} /\ VotePayer # Creator
ASSUME PayAssumption ==
    /\ PayPrecision \in Nat \ {0} /\ YearUnits \in Nat \ {0}
    /\ MinVotePay \in Nat \ {0} /\ PayDelay \in Nat /\ MaxElected \in Nat \ {0}
    /\ MaxSupply \in Nat /\ MaxUnpaid \in Nat
ASSUME RateAssumption ==
    /\ InitialRates \in Nat \X Nat \X Nat /\ RateChanges \subseteq Int \X Int \X Int
    /\ InitialRates[2] >= PayPrecision /\ InitialRates[3] >= PayPrecision
    /\ \A r \in RateChanges \cup {InitialRates} : r[1] >= 0 => ContinuousRate[r[1]] \in Nat
\* The issuer has issued what the holders start with.
ASSUME SupplyAssumption == Total(InitialFunds, Accounts) <= MaxSupply

VARIABLES
    unpaid,     \* producer_info.unpaid_blocks
    totalUnpaid,\* total_unpaid_blocks
    buckets,    \* pervote_bucket, perblock_bucket, last_pervote_bucket_fill
    inflation,  \* continuous_rate and the two pay factors
    proposed,   \* the producers last passed to set_proposed_producers
    fresh       \* whether the block before looked at the schedule

payVars == <<unpaid, totalUnpaid, buckets, inflation, proposed, fresh>>
rewardVars == <<votingVars, payVars>>

NotStarted == -1

(***************************************************************************)
(* onblock                                                                 *)
(***************************************************************************)
Eligible == {p \in Accounts : producers[p].is_active /\ producers[p].votes > 0}

\* The schedules update_elected_producers may propose: the first MaxElected by
\* votes, where the names of the producers decide between equals.
Elections ==
    {S \in SUBSET Eligible :
        /\ Cardinality(S) = IF Cardinality(Eligible) < MaxElected
                            THEN Cardinality(Eligible) ELSE MaxElected
        /\ \A p \in S, q \in Eligible \ S : producers[p].votes >= producers[q].votes}

\* Fault: a schedule never shrinks, as in the lines that are commented out.
MayProposeMore == Eligible # {} /\ \A S \in Elections : Cardinality(S) >= Cardinality(proposed)

\* The last schedule stays when nobody is left.
MayPropose == Eligible # {}

\* More than one slot since the last look.
Looked(missed) == missed \/ ~fresh

\* missed: no block in the slot before. A producer without a row is not paid.
Onblock(p, missed) ==
    /\ activation.done
    /\ buckets' = [buckets EXCEPT !.filled = IF @ = NotStarted THEN now ELSE @]
    /\ IF producers[p].row
       THEN /\ totalUnpaid < MaxUnpaid
            /\ totalUnpaid' = totalUnpaid + 1
            /\ unpaid' = [unpaid EXCEPT ![p] = @ + 1]
       ELSE UNCHANGED <<unpaid, totalUnpaid>>
    /\ fresh' = Looked(missed)
    /\ IF Looked(missed) /\ MayPropose THEN proposed' \in Elections ELSE UNCHANGED proposed
    /\ UNCHANGED <<votingVars, inflation>>

(***************************************************************************)
(* claimrewards: new tokens and where they go                              *)
(***************************************************************************)
NewTokens ==
    IF buckets.filled # NotStarted /\ now > buckets.filled
    THEN (inflation.rate * stat[CoreSymbol].supply * (now - buckets.filled)) \div YearUnits
    ELSE 0

ToProducers == (NewTokens * PayPrecision) \div inflation.pay_factor
ToBlocks == (ToProducers * PayPrecision) \div inflation.vote_factor
ToVotes == ToProducers - ToBlocks

\* Fault: what goes to savings is counted into the vote bucket too.
FilledTwice == [pervote |-> buckets.pervote + NewTokens - ToBlocks,
                perblock |-> buckets.perblock + ToBlocks,
                filled |-> IF buckets.filled = NotStarted THEN NotStarted ELSE now]

Filled == [pervote |-> buckets.pervote + ToVotes,
           perblock |-> buckets.perblock + ToBlocks,
           filled |-> IF buckets.filled = NotStarted THEN NotStarted ELSE now]

(***************************************************************************)
(* claimrewards: the pay of one producer. The vote pay is a fraction: the  *)
(* transfer rounds it down, the bucket loses it rounded up.                *)
(***************************************************************************)
BlockPay(p) == IF totalUnpaid > 0 THEN (Filled.perblock * unpaid[p]) \div totalUnpaid ELSE 0

\* Numerator of the vote pay over the total weight; 0 below the minimum.
VoteShare(p) ==
    LET share == Filled.pervote * producers[p].votes
    IN IF totals.weight > 0 /\ share >= MinVotePay * totals.weight THEN share ELSE 0

VotePay(p) == IF VoteShare(p) = 0 THEN 0 ELSE VoteShare(p) \div totals.weight

\* Fault: a whole token more leaves the bucket when nothing is rounded.
VoteCostMore(p) == IF VoteShare(p) = 0 THEN 0 ELSE VotePay(p) + 1

VoteCost(p) == IF VoteShare(p) = 0 THEN 0
               ELSE (VoteShare(p) + totals.weight - 1) \div totals.weight

(***************************************************************************)
(* The inline actions, in their order; ok says whether all could be done.  *)
(***************************************************************************)
Sent(w, from, to, q) ==
    IF q = 0 THEN w
    ELSE [balance |-> Moved(w.balance, CoreSymbol, from, to, q),
          row |-> RowsWith(w.row, CoreSymbol, to),
          ok |-> w.ok /\ CanMove(w.balance, w.row, CoreSymbol, from, to, q)]

Minted == [balance |-> Credited(balance, CoreSymbol, System, NewTokens),
           row |-> IF NewTokens > 0 THEN RowsWith(row, CoreSymbol, System) ELSE row,
           ok |-> NewTokens > 0 =>
                    /\ System \in {stat[CoreSymbol].issuer, Creator}
                    /\ NewTokens <= stat[CoreSymbol].max_supply - stat[CoreSymbol].supply]

\* Fault: the part of the vote bucket goes to the savings.
DistributedShort ==
    Sent(Sent(Minted, System, Saving, NewTokens - ToBlocks), System, BlockPayer, ToBlocks)

Distributed ==
    Sent(Sent(Sent(Minted, System, Saving, NewTokens - ToProducers),
              System, BlockPayer, ToBlocks),
         System, VotePayer, ToVotes)

Wallets(p) ==
    Sent(Sent(Distributed, BlockPayer, p, BlockPay(p)), VotePayer, p, VotePay(p))

MayClaim(p) ==
    /\ producers[p].row
    /\ producers[p].is_active
    /\ now - producers[p].claimed > PayDelay

\* Fault: a block too few leaves the total when several are paid.
UnpaidAfterOne(p) == totalUnpaid - IF unpaid[p] > 0 THEN 1 ELSE 0

UnpaidAfter(p) == totalUnpaid - unpaid[p]

\* The share starts anew; votes that had stopped earning earn again.
Claimed(r) == [r EXCEPT !.share = 0, !.updated = now, !.claimed = now]
ClaimTotals(r) == ShareTotal(totals, -ShareNow(r), IF UpdatedAfter(r) THEN r.votes ELSE 0)

Claimrewards(p) ==
    /\ MayClaim(p)
    /\ Wallets(p).ok
    /\ stat' = [stat EXCEPT ![CoreSymbol].supply = @ + NewTokens]
    /\ balance' = Wallets(p).balance
    /\ row' = Wallets(p).row
    /\ buckets' = [Filled EXCEPT !.pervote = @ - VoteCost(p), !.perblock = @ - BlockPay(p)]
    /\ totalUnpaid' = UnpaidAfter(p)
    /\ unpaid' = [unpaid EXCEPT ![p] = 0]
    /\ producers' = [producers EXCEPT ![p] = Claimed(@)]
    /\ totals' = ClaimTotals(producers[p])
    /\ UNCHANGED <<activity, voters, activation, now, inflation, proposed, fresh>>

\* annual_rate, inflation_pay_factor and votepay_factor, set by the operator.
Setinflation(annual, pay_factor, vote_factor) ==
    /\ annual >= 0
    /\ pay_factor >= PayPrecision
    /\ vote_factor >= PayPrecision
    /\ inflation' = [rate |-> ContinuousRate[annual], pay_factor |-> pay_factor,
                     vote_factor |-> vote_factor]
    /\ UNCHANGED <<votingVars, unpaid, totalUnpaid, buckets, proposed, fresh>>

(***************************************************************************)
(* The specification                                                       *)
(***************************************************************************)
PayInit ==
    /\ unpaid = [a \in Accounts |-> 0]
    /\ totalUnpaid = 0
    /\ buckets = [pervote |-> 0, perblock |-> 0, filled |-> NotStarted]
    /\ inflation = [rate |-> ContinuousRate[InitialRates[1]],
                    pay_factor |-> InitialRates[2], vote_factor |-> InitialRates[3]]
    /\ proposed = {}
    /\ fresh = FALSE

RewardsInit == CoreFunded(System, MaxSupply) /\ VoteInit /\ PayInit

Blocks == \E p \in Signers \cup {System}, missed \in BOOLEAN : Onblock(p, missed)

\* What holders and voters do meanwhile.
Traffic ==
    /\ \/ VoteActions
       \/ Day
       \/ /\ \E a, b \in Signers, q \in Quantities : Transfer(a, b, CoreSymbol, q)
          /\ UNCHANGED voteVars
    /\ UNCHANGED payVars

RewardsNext ==
    \/ Traffic
    \/ Blocks
    \/ \E p \in Signers : Claimrewards(p)
    \/ \E r \in RateChanges : Setinflation(r[1], r[2], r[3])

RewardsSpec == RewardsInit /\ [][RewardsNext]_rewardVars

\* Blocks keep coming, each with its onblock transaction. Nobody has to claim.
RewardsFairSpec == RewardsSpec /\ WF_rewardVars(Blocks)

(***************************************************************************)
(* Properties                                                              *)
(***************************************************************************)
\* Counters and buckets are natural numbers: no claim takes more blocks or pay
\* out of them than is in them.
RewardsTypeOK ==
    /\ unpaid \in [Accounts -> 0 .. MaxUnpaid]
    /\ totalUnpaid \in 0 .. MaxUnpaid
    /\ buckets \in [pervote : Nat, perblock : Nat, filled : NotStarted .. LastDay]
    /\ inflation \in [rate : Nat, pay_factor : Nat \ {0}, vote_factor : Nat \ {0}]
    /\ proposed \in SUBSET Accounts
    /\ fresh \in BOOLEAN

\* total_unpaid_blocks is what the producers have not been paid for; claims of
\* several producers, and of producers that left, divide the bucket by it.
BlocksAddUp == totalUnpaid = Total(unpaid, Accounts)

\* The tokens that the buckets promise lie with the accounts that pay them,
\* through all roundings, whoever claims first.
BucketsCovered ==
    /\ balance[CoreSymbol][BlockPayer] >= buckets.perblock
    /\ balance[CoreSymbol][VotePayer] >= buckets.pervote

\* A producer can claim once a day, unless the inflation since the last claim
\* would exceed the maximum supply: no transfer inside the claim ever fails.
ClaimPayable ==
    \A p \in Signers :
        (MayClaim(p) /\ stat[CoreSymbol].supply + NewTokens <= stat[CoreSymbol].max_supply)
            => Wallets(p).ok

\* Whoever is a block producer has the balance that makeprod asked for, until it
\* unregisters or is removed: the lock of the token contract is on as long as
\* is_producer is, though two contracts and three actions set the two flags.
ProducersBacked ==
    \A a \in Accounts :
        producers[a].is_producer => /\ a \in activity
                                    /\ balance[CoreSymbol][a] >= Border * Precision

\* When the votes settle, the schedule does: blocks alone bring it about.
ScheduleSettles ==
    \A S \in (SUBSET Signers) \ {{}} :
        <>[](activation.done /\ Elections = {S}) => <>[](proposed = S)
=============================================================================

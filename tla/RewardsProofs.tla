---------------------------- MODULE RewardsProofs ----------------------------
(***************************************************************************)
(* The pay of producers, for every set of accounts, all rates, factors,    *)
(* supplies and growths of weights: a block is paid once, the accounts     *)
(* that pay hold what the buckets promise, no claim fails inside, and      *)
(* who produces keeps its balance.                                         *)
(*                                                                         *)
(* A claim divides the buckets by the totals of blocks and votes. That it  *)
(* takes no more than is there needs BlocksAddUp for the one, and the      *)
(* invariant of the votes for the other; and the inline transfers go       *)
(* through because the buckets are covered.                                *)
(***************************************************************************)
EXTENDS Rewards, VotingProofs

Stats == [supply : Nat, max_supply : Nat, issuer : Accounts \cup {NoIssuer}]

(***************************************************************************)
(* The parts of the invariant                                              *)
(***************************************************************************)
\* The tables of the token, before a claim and between its inline actions.
Purse(w) ==
    /\ w.balance \in Balances
    /\ w.row \in [Symbols -> SUBSET Accounts]
    /\ \A a \in Accounts : w.balance[CoreSymbol][a] > 0 => a \in w.row[CoreSymbol]

Purses ==
    /\ Purse([balance |-> balance, row |-> row])
    /\ stat \in [Symbols -> Stats]
    /\ stat[CoreSymbol].issuer = System
    /\ activity \in SUBSET Signers

PayType ==
    /\ unpaid \in [Accounts -> Nat]
    /\ totalUnpaid \in 0 .. MaxUnpaid
    /\ buckets \in [pervote : Nat, perblock : Nat, filled : NotStarted .. LastDay]
    /\ inflation \in [rate : Nat, pay_factor : Nat, vote_factor : Nat]
    /\ inflation.pay_factor >= PayPrecision /\ inflation.vote_factor >= PayPrecision
    /\ proposed \in SUBSET Accounts
    /\ fresh \in BOOLEAN

PayInv == /\ VotingInv
          /\ Purses
          /\ PayType
          /\ BlocksAddUp
          /\ BucketsCovered
          /\ ProducersBacked

(***************************************************************************)
(* Divisions                                                               *)
(***************************************************************************)
\* A part of a, by a counter k of a total b.
LEMMA PartOf ==
  ASSUME NEW a \in Nat, NEW k \in Nat, NEW b \in Nat, b > 0, k <= b
  PROVE  (a * k) \div b \in 0 .. a
<1> DEFINE m == a * k
           q == m \div b
<1>1. m \in Nat /\ m <= a * b
  OBVIOUS
<1> HIDE DEF m
<1>2. q \in Nat /\ q * b <= m
  BY <1>1
<1> HIDE DEF q
<1>3. ASSUME q > a PROVE FALSE
  <2>1. q >= a + 1
    BY <1>2, <1>3
  <2>2. q * b >= (a + 1) * b
    BY <1>2, <2>1
  <2>3. (a + 1) * b = a * b + b /\ a * b \in Nat
    OBVIOUS
  <2> QED
    BY <1>1, <1>2, <2>2, <2>3
<1>4. q \in 0 .. a
  BY <1>2, <1>3
<1> QED
  BY <1>4 DEF q, m

\* A fraction s / b of at most a, rounded down and up.
LEMMA Fraction ==
  ASSUME NEW a \in Nat, NEW s \in Nat, NEW b \in Nat, b > 0, s <= a * b
  PROVE  /\ s \div b \in Nat
         /\ (s + b - 1) \div b \in 0 .. a
         /\ s \div b <= (s + b - 1) \div b
<1> DEFINE lo == s \div b
           u == s + b - 1
           hi == u \div b
<1>1. lo \in Nat /\ lo * b <= s /\ s < lo * b + b
  OBVIOUS
<1>2. u \in Nat
  OBVIOUS
<1>3. hi \in Nat /\ hi * b <= u /\ u < hi * b + b
  <2> HIDE DEF u
  <2> QED
    BY <1>2
<1> HIDE DEF lo, hi
<1>4. ASSUME hi > a PROVE FALSE
  <2>1. hi * b >= (a + 1) * b
    BY <1>3, <1>4
  <2>2. (a + 1) * b = a * b + b /\ a * b \in Nat
    OBVIOUS
  <2> QED
    BY <1>3, <2>1, <2>2
<1>5. ASSUME lo > hi PROVE FALSE
  <2>1. lo * b >= (hi + 1) * b
    BY <1>1, <1>3, <1>5
  <2>2. (hi + 1) * b = hi * b + b /\ hi * b \in Nat
    BY <1>3
  <2> QED
    BY <1>1, <1>3, <2>1, <2>2
<1>6. lo \in Nat /\ hi \in 0 .. a /\ lo <= hi
  BY <1>1, <1>3, <1>4, <1>5
<1> QED
  BY <1>6 DEF lo, hi, u

(***************************************************************************)
(* The amounts of a claim                                                  *)
(***************************************************************************)
LEMMA VoteSums ==
  ASSUME VotingInv, NEW p \in Accounts
  PROVE  producers[p].votes \in Nat /\ totals.weight \in Nat /\ producers[p].votes <= totals.weight
<1> DEFINE votes == Votes(Tables)
<1>1. Tables \in TablesType /\ Tallied(Tables) /\ \A x \in Accounts : Counted(Tables, x)
  BY DEF VotingInv, Good, Sound
<1>2. \A x \in Accounts : votes[x] = producers[x].votes
  BY TablesFields DEF Votes
<1>3. ASSUME NEW x \in Accounts PROVE votes[x] \in Nat
  <2>1. producers[x].votes = Own(Tables, x)
    BY <1>1, TablesFields DEF Tallied
  <2>2. Tables.voters[x].last \in Int /\ Tables.voters[x].last >= 0
    BY <1>1 DEF TablesType, Voters, Counted
  <2> QED
    BY <1>2, <2>1, <2>2 DEF Own
<1>4. totals.weight = Total(votes, Accounts)
  BY <1>1, TablesFields DEF Tallied
<1> HIDE DEF votes
<1> QED
  BY <1>2, <1>3, <1>4, TotalType, TotalBound, AccountsAssumption

LEMMA NewTokensType ==
  ASSUME PayInv
  PROVE  /\ NewTokens \in Nat
         /\ ToProducers \in 0 .. NewTokens
         /\ ToBlocks \in 0 .. ToProducers
         /\ ToVotes \in Nat /\ ToVotes = ToProducers - ToBlocks
<1>1. /\ inflation.rate \in Nat /\ inflation.pay_factor \in Nat /\ inflation.vote_factor \in Nat
      /\ inflation.pay_factor >= PayPrecision /\ inflation.vote_factor >= PayPrecision
      /\ buckets.filled \in Int /\ now \in Int
      /\ stat[CoreSymbol].supply \in Nat
      /\ PayPrecision \in Nat \ {0} /\ YearUnits \in Nat \ {0}
  BY PayAssumption, SymbolAssumption, DaysAreNumbers, GrowthAssumption
     DEF PayInv, PayType, Purses, Stats, VotingInv, NotStarted
<1>2. NewTokens \in Nat
  <2> DEFINE n == inflation.rate * stat[CoreSymbol].supply
             d == now - buckets.filled
  <2>1. n \in Nat
    BY <1>1
  <2>2. CASE buckets.filled # NotStarted /\ now > buckets.filled
    <3>1. d \in Nat
      BY <1>1, <2>2
    <3> HIDE DEF n, d
    <3>2. n * d \in Nat
      BY <2>1, <3>1
    <3>3. (n * d) \div YearUnits \in Nat
      BY <1>1, <3>2
    <3> QED
      BY <2>2, <3>3 DEF NewTokens, n, d
  <2>3. CASE ~(buckets.filled # NotStarted /\ now > buckets.filled)
    BY <2>3 DEF NewTokens
  <2> QED
    BY <2>2, <2>3
<1>3. ToProducers \in 0 .. NewTokens
  BY <1>1, <1>2, PartOf DEF ToProducers
<1>4. ToBlocks \in 0 .. ToProducers
  BY <1>1, <1>2, <1>3, PartOf DEF ToBlocks
<1> QED
  BY <1>2, <1>3, <1>4 DEF ToVotes

LEMMA FilledFields ==
  ASSUME PayInv
  PROVE  /\ Filled \in [pervote : Nat, perblock : Nat, filled : NotStarted .. LastDay]
         /\ Filled.pervote = buckets.pervote + ToVotes
         /\ Filled.perblock = buckets.perblock + ToBlocks
<1>1. buckets \in [pervote : Nat, perblock : Nat, filled : NotStarted .. LastDay]
  BY DEF PayInv, PayType
<1>2. ToVotes \in Nat /\ ToBlocks \in Nat
  BY NewTokensType
<1>3. now \in NotStarted .. LastDay /\ NotStarted \in NotStarted .. LastDay
  BY GrowthAssumption DEF PayInv, VotingInv, NotStarted
<1> QED
  BY <1>1, <1>2, <1>3 DEF Filled

LEMMA PayFacts ==
  ASSUME PayInv, NEW p \in Accounts
  PROVE  /\ BlockPay(p) \in 0 .. Filled.perblock
         /\ VotePay(p) \in Nat /\ VoteCost(p) \in 0 .. Filled.pervote
         /\ VotePay(p) <= VoteCost(p)
         /\ unpaid[p] \in 0 .. totalUnpaid
<1>1. Filled.pervote \in Nat /\ Filled.perblock \in Nat
  BY FilledFields
<1>2. unpaid[p] \in 0 .. totalUnpaid /\ totalUnpaid \in Nat
  <2>1. /\ \A x \in Accounts : unpaid[x] \in Nat
        /\ totalUnpaid = Total(unpaid, Accounts)
    BY DEF PayInv, PayType, BlocksAddUp
  <2> QED
    BY <2>1, TotalType, TotalBound, AccountsAssumption
<1>3. BlockPay(p) \in 0 .. Filled.perblock
  BY <1>1, <1>2, PartOf DEF BlockPay
<1>4. producers[p].votes \in Nat /\ totals.weight \in Nat /\ producers[p].votes <= totals.weight
  BY VoteSums DEF PayInv
<1> DEFINE v == producers[p].votes
           share == Filled.pervote * v
<1>5. share \in Nat /\ share <= Filled.pervote * totals.weight
  <2> HIDE DEF v
  <2> QED
    BY <1>1, <1>4 DEF v
<1>6. VoteShare(p) = share \/ VoteShare(p) = 0
  BY DEF VoteShare
<1>7. VoteShare(p) # 0 => totals.weight > 0
  BY DEF VoteShare
<1> HIDE DEF share
<1>8. CASE VoteShare(p) = 0
  BY <1>1, <1>2, <1>3, <1>8 DEF VotePay, VoteCost
<1>9. CASE VoteShare(p) # 0
  <2>1. VotePay(p) \in Nat /\ VoteCost(p) \in 0 .. Filled.pervote /\ VotePay(p) <= VoteCost(p)
    BY <1>1, <1>4, <1>5, <1>6, <1>7, <1>9, Fraction DEF VotePay, VoteCost
  <2> QED
    BY <1>2, <1>3, <2>1
<1> QED
  BY <1>8, <1>9

(***************************************************************************)
(* The inline actions of a claim                                           *)
(***************************************************************************)
Coins(w, a) == w.balance[CoreSymbol][a]

\* One that cannot be done ends the claim.
LEMMA SentOk ==
  ASSUME NEW w, NEW from, NEW to, NEW q, Sent(w, from, to, q).ok
  PROVE  w.ok
<1>1. CASE q = 0
  BY <1>1 DEF Sent
<1>2. CASE q # 0
  <2> DEFINE bal == Moved(w.balance, CoreSymbol, from, to, q)
             rows == RowsWith(w.row, CoreSymbol, to)
             ok == w.ok /\ CanMove(w.balance, w.row, CoreSymbol, from, to, q)
  <2>1. Sent(w, from, to, q) = [balance |-> bal, row |-> rows, ok |-> ok]
    BY <1>2 DEF Sent
  <2>2. Sent(w, from, to, q).ok = ok
    <3> HIDE DEF bal, rows, ok
    <3> QED
      BY <2>1
  <2>3. ok
    BY <2>2
  <2> QED
    BY <2>3
<1> QED
  BY <1>1, <1>2

\* An inline transfer that could be done moves q, and nothing else.
LEMMA SentDone ==
  ASSUME NEW w, Purse(w), activity \in SUBSET Accounts, NEW from \in Accounts, NEW to \in Accounts \ {from}, NEW q \in Nat,
         Sent(w, from, to, q).ok
  PROVE  /\ Purse(Sent(w, from, to, q))
         /\ \A a \in Accounts :
               Coins(Sent(w, from, to, q), a)
                 = Coins(w, a) - (IF a = from THEN q ELSE 0) + (IF a = to THEN q ELSE 0)
         /\ Fair(w.balance, w.row, Sent(w, from, to, q).balance, Sent(w, from, to, q).row)
<1> DEFINE bal == Moved(w.balance, CoreSymbol, from, to, q)
           rows == RowsWith(w.row, CoreSymbol, to)
           ok == w.ok /\ CanMove(w.balance, w.row, CoreSymbol, from, to, q)
           u == Sent(w, from, to, q)
<1>1. /\ CoreSymbol \in Symbols
      /\ w.balance \in [Symbols -> [Accounts -> Nat]]
      /\ w.row \in [Symbols -> SUBSET Accounts]
      /\ \A a \in Accounts : w.balance[CoreSymbol][a] > 0 => a \in w.row[CoreSymbol]
  BY SymbolAssumption DEF Purse, Balances
<1>2. CASE q = 0
  <2>1. u = w
    BY <1>2 DEF Sent
  <2>2. \A a \in Accounts : Coins(w, a) \in Nat
    BY <1>1 DEF Coins
  <2>3. Fair(w.balance, w.row, w.balance, w.row)
    BY FairStill DEF Purse
  <2> QED
    BY <1>2, <2>1, <2>2, <2>3
<1>3. CASE q > 0
  <2>1. u = [balance |-> bal, row |-> rows, ok |-> ok]
    BY <1>3 DEF Sent
  <2>2. u.balance = bal /\ u.row = rows /\ u.ok = ok
    <3> HIDE DEF bal, rows, ok, u
    <3> QED
      BY <2>1
  <2>3. ok
    BY <2>2
  <2>4. w.ok /\ w.balance[CoreSymbol][from] >= q
    BY <2>3 DEF CanMove, CanSub
  <2>5. \A a \in Accounts :
          bal[CoreSymbol][a]
            = w.balance[CoreSymbol][a] - (IF a = from THEN q ELSE 0) + (IF a = to THEN q ELSE 0)
    BY <1>1 DEF Moved, Credited, Debited
  <2>6. bal \in [Symbols -> [Accounts -> Nat]]
    <3>1. bal \in [Symbols -> [Accounts -> Int]] /\ \A s \in Symbols \ {CoreSymbol} : bal[s] = w.balance[s]
      BY <1>1 DEF Moved, Credited, Debited
    <3>2. \A a \in Accounts : bal[CoreSymbol][a] \in Nat
      BY <1>1, <2>4, <2>5
    <3> HIDE DEF bal
    <3> QED
      BY <1>1, <3>1, <3>2
  <2>7. rows \in [Symbols -> SUBSET Accounts] /\ rows[CoreSymbol] = w.row[CoreSymbol] \cup {to}
    BY <1>1 DEF RowsWith
  <2>11. Fair(w.balance, w.row, bal, rows)
    BY <1>1, <2>3, FairMove DEF Balances
  <2> HIDE DEF bal, rows, ok, u
  <2>8. \A a \in Accounts : bal[CoreSymbol][a] > 0 => a \in rows[CoreSymbol]
    BY <1>1, <2>4, <2>5, <2>7
  <2>9. Purse(u)
    BY <2>2, <2>6, <2>7, <2>8 DEF Purse, Balances
  <2>10. \A a \in Accounts :
           Coins(u, a) = Coins(w, a) - (IF a = from THEN q ELSE 0) + (IF a = to THEN q ELSE 0)
    BY <2>2, <2>5 DEF Coins
  <2>12. Fair(w.balance, w.row, u.balance, u.row)
    BY <2>2, <2>11
  <2> QED
    BY <1>3, <2>4, <2>9, <2>10, <2>12 DEF u, Coins
<1> QED
  BY <1>2, <1>3

\* It can be done if the sender has q, and nobody watches its balance.
LEMMA SentPossible ==
  ASSUME NEW w, Purse(w), w.ok, NEW from \in Accounts \ activity, NEW to \in Accounts \ {from, Creator},
         NEW q \in Nat, Coins(w, from) >= q
  PROVE  Sent(w, from, to, q).ok
<1>1. CASE q = 0
  BY <1>1 DEF Sent
<1>2. CASE q > 0
  <2>1. from \in w.row[CoreSymbol]
    BY <1>2, SymbolAssumption DEF Purse, Balances, Coins
  <2>2. CanMove(w.balance, w.row, CoreSymbol, from, to, q)
    BY <1>2, <2>1, SymbolAssumption DEF CanMove, CanSub, LockRespected, Coins
  <2> QED
    BY <1>2, <2>2 DEF Sent
<1> QED
  BY <1>1, <1>2

\* What the three payers and the producer have before and after.
Payers == {System, Saving, BlockPayer, VotePayer}

LEMMA PayersApart ==
  /\ System \in Accounts /\ Saving \in Accounts \ {System}
  /\ BlockPayer \in Accounts \ {System, Saving}
  /\ VotePayer \in Accounts \ {System, Saving, BlockPayer}
  /\ Creator \notin Payers /\ Payers \cap Signers = {}
BY PayersAssumption DEF Payers

LEMMA MintedFields ==
  ASSUME PayInv
  PROVE  /\ Purse(Minted)
         /\ \A a \in Accounts :
               Coins(Minted, a) = balance[CoreSymbol][a] + (IF a = System THEN NewTokens ELSE 0)
         /\ Minted.ok <=> (NewTokens > 0 =>
                              stat[CoreSymbol].supply + NewTokens <= stat[CoreSymbol].max_supply)
<1> DEFINE bal == Credited(balance, CoreSymbol, System, NewTokens)
           rows == IF NewTokens > 0 THEN RowsWith(row, CoreSymbol, System) ELSE row
<1>1. /\ CoreSymbol \in Symbols /\ System \in Accounts
      /\ balance \in [Symbols -> [Accounts -> Nat]]
      /\ row \in [Symbols -> SUBSET Accounts]
      /\ \A a \in Accounts : balance[CoreSymbol][a] > 0 => a \in row[CoreSymbol]
      /\ stat[CoreSymbol].supply \in Nat /\ stat[CoreSymbol].max_supply \in Nat
      /\ stat[CoreSymbol].issuer = System
  BY SymbolAssumption, PayersApart DEF PayInv, Purses, Purse, Balances, Stats
<1>2. NewTokens \in Nat
  BY NewTokensType
<1>3. Minted.balance = bal /\ Minted.row = rows
  BY DEF Minted
<1>4. Minted.ok <=> (NewTokens > 0 =>
                       stat[CoreSymbol].supply + NewTokens <= stat[CoreSymbol].max_supply)
  <2> DEFINE ok == NewTokens > 0 =>
                     /\ System \in {stat[CoreSymbol].issuer, Creator}
                     /\ NewTokens <= stat[CoreSymbol].max_supply - stat[CoreSymbol].supply
  <2>1. Minted.ok = ok
    BY DEF Minted
  <2>2. ok <=> (NewTokens > 0 =>
                  stat[CoreSymbol].supply + NewTokens <= stat[CoreSymbol].max_supply)
    BY <1>1, <1>2
  <2> HIDE DEF ok
  <2> QED
    BY <2>1, <2>2
<1>5. bal \in [Symbols -> [Accounts -> Nat]]
  BY <1>1, <1>2 DEF Credited
<1>6. \A a \in Accounts :
        bal[CoreSymbol][a] = balance[CoreSymbol][a] + (IF a = System THEN NewTokens ELSE 0)
  BY <1>1, <1>2 DEF Credited
<1>7. rows \in [Symbols -> SUBSET Accounts]
      /\ rows[CoreSymbol] = row[CoreSymbol] \cup (IF NewTokens > 0 THEN {System} ELSE {})
  BY <1>1 DEF RowsWith
<1> HIDE DEF bal, rows
<1>8. \A a \in Accounts : bal[CoreSymbol][a] > 0 => a \in rows[CoreSymbol]
  BY <1>1, <1>2, <1>6, <1>7
<1> QED
  BY <1>3, <1>4, <1>5, <1>6, <1>7, <1>8 DEF Purse, Balances, Coins

ToSavings == NewTokens - ToProducers

\* What account a holds after a claim of p.
CoinsAfter(p, a) ==
    balance[CoreSymbol][a]
      + (IF a = Saving THEN ToSavings ELSE 0)
      + (IF a = BlockPayer THEN ToBlocks - BlockPay(p) ELSE 0)
      + (IF a = VotePayer THEN ToVotes - VotePay(p) ELSE 0)
      + (IF a = p THEN BlockPay(p) + VotePay(p) ELSE 0)

LEMMA ClaimAmounts ==
  ASSUME PayInv, NEW p \in Accounts
  PROVE  /\ NewTokens \in Nat /\ ToSavings \in Nat /\ ToBlocks \in Nat /\ ToVotes \in Nat
         /\ NewTokens = ToSavings + ToBlocks + ToVotes
         /\ BlockPay(p) \in Nat /\ VotePay(p) \in Nat
         /\ BlockPay(p) <= balance[CoreSymbol][BlockPayer] + ToBlocks
         /\ VotePay(p) <= balance[CoreSymbol][VotePayer] + ToVotes
         /\ \A a \in Accounts : balance[CoreSymbol][a] \in Nat
<1>1. /\ NewTokens \in Nat /\ ToProducers \in 0 .. NewTokens /\ ToBlocks \in 0 .. ToProducers
      /\ ToVotes \in Nat /\ ToVotes = ToProducers - ToBlocks
  BY NewTokensType
<1>2. /\ BlockPay(p) \in 0 .. Filled.perblock /\ VotePay(p) \in Nat
      /\ VoteCost(p) \in 0 .. Filled.pervote /\ VotePay(p) <= VoteCost(p)
  BY PayFacts
<1>3. /\ Filled.pervote = buckets.pervote + ToVotes
      /\ Filled.perblock = buckets.perblock + ToBlocks
      /\ Filled.pervote \in Nat /\ Filled.perblock \in Nat
  BY FilledFields
<1>4. buckets.pervote \in Nat /\ buckets.perblock \in Nat
      /\ balance[CoreSymbol][BlockPayer] >= buckets.perblock
      /\ balance[CoreSymbol][VotePayer] >= buckets.pervote
  BY DEF PayInv, PayType, BucketsCovered
<1>5. \A a \in Accounts : balance[CoreSymbol][a] \in Nat
  BY SymbolAssumption DEF PayInv, Purses, Purse, Balances
<1> QED
  BY <1>1, <1>2, <1>3, <1>4, <1>5, PayersApart DEF ToSavings

\* The purses after the inline actions, one after the other.
FirstSent == Sent(Minted, System, Saving, ToSavings)
SecondSent == Sent(FirstSent, System, BlockPayer, ToBlocks)
FourthSent(p) == Sent(Distributed, BlockPayer, p, BlockPay(p))

LEMMA WalletsSteps ==
  /\ Distributed = Sent(SecondSent, System, VotePayer, ToVotes)
  /\ \A p : Wallets(p) = Sent(FourthSent(p), VotePayer, p, VotePay(p))
BY DEF Distributed, SecondSent, FirstSent, FourthSent, Wallets, ToSavings

\* A claim whose inline actions are done pays what it says.
LEMMA WalletsDone ==
  ASSUME PayInv, NEW p \in Signers, Wallets(p).ok
  PROVE  /\ Purse(Wallets(p))
         /\ \A a \in Accounts : Coins(Wallets(p), a) = CoinsAfter(p, a)
         /\ Minted.ok
         /\ Fair(Minted.balance, Minted.row, Wallets(p).balance, Wallets(p).row)
<1>1. p \in Accounts /\ p \notin Payers /\ Saving \in Payers /\ System \in Payers
      /\ BlockPayer \in Payers /\ VotePayer \in Payers
  BY AccountsAssumption, PayersApart DEF Payers
<1>2. /\ NewTokens \in Nat /\ ToSavings \in Nat /\ ToBlocks \in Nat /\ ToVotes \in Nat
      /\ NewTokens = ToSavings + ToBlocks + ToVotes
      /\ BlockPay(p) \in Nat /\ VotePay(p) \in Nat
      /\ \A a \in Accounts : balance[CoreSymbol][a] \in Nat
  BY <1>1, ClaimAmounts
<1>3. /\ Purse(Minted)
      /\ \A a \in Accounts :
            Coins(Minted, a) = balance[CoreSymbol][a] + (IF a = System THEN NewTokens ELSE 0)
  BY MintedFields
<1>4. FourthSent(p).ok /\ Distributed.ok /\ SecondSent.ok /\ FirstSent.ok /\ Minted.ok
  <2>1. FourthSent(p).ok
    BY WalletsSteps, SentOk
  <2>2. Distributed.ok
    BY <2>1, SentOk DEF FourthSent
  <2>3. SecondSent.ok
    BY <2>2, WalletsSteps, SentOk
  <2>4. FirstSent.ok
    BY <2>3, SentOk DEF SecondSent
  <2> QED
    BY <2>1, <2>2, <2>3, <2>4, SentOk DEF FirstSent
<1> DEFINE Sends(w, u, from, to, q) ==
      /\ Purse(u)
      /\ \A a \in Accounts :
            Coins(u, a) = Coins(w, a) - (IF a = from THEN q ELSE 0) + (IF a = to THEN q ELSE 0)
      /\ Fair(w.balance, w.row, u.balance, u.row)
<1>0. activity \in SUBSET Accounts
  BY AccountsAssumption DEF PayInv, Purses
<1>5. Sends(Minted, FirstSent, System, Saving, ToSavings)
  BY <1>0, <1>2, <1>3, <1>4, PayersApart, SentDone DEF FirstSent
<1>6. Sends(FirstSent, SecondSent, System, BlockPayer, ToBlocks)
  BY <1>0, <1>2, <1>4, <1>5, PayersApart, SentDone DEF SecondSent
<1>7. Sends(SecondSent, Distributed, System, VotePayer, ToVotes)
  BY <1>0, <1>2, <1>4, <1>6, PayersApart, SentDone, WalletsSteps
<1>8. Sends(Distributed, FourthSent(p), BlockPayer, p, BlockPay(p))
  BY <1>0, <1>1, <1>2, <1>4, <1>7, PayersApart, SentDone DEF FourthSent
<1>9. Sends(FourthSent(p), Wallets(p), VotePayer, p, VotePay(p))
  BY <1>0, <1>1, <1>2, <1>8, PayersApart, SentDone, WalletsSteps
<1>10. ASSUME NEW a \in Accounts
       PROVE  Coins(Wallets(p), a) = CoinsAfter(p, a)
  BY <1>1, <1>2, <1>3, <1>5, <1>6, <1>7, <1>8, <1>9, PayersApart DEF CoinsAfter
<1>11. Fair(Minted.balance, Minted.row, Wallets(p).balance, Wallets(p).row)
  <2> DEFINE Follows(u, v) ==
               (Purse(u) /\ Fair(Minted.balance, Minted.row, u.balance, u.row)
                  /\ Purse(v) /\ Fair(u.balance, u.row, v.balance, v.row))
               => Fair(Minted.balance, Minted.row, v.balance, v.row)
  <2>1. ASSUME NEW u, NEW v PROVE Follows(u, v)
    BY <1>0, <1>3, FairChain DEF Purse
  <2>2. /\ Follows(FirstSent, SecondSent) /\ Follows(SecondSent, Distributed)
        /\ Follows(Distributed, FourthSent(p)) /\ Follows(FourthSent(p), Wallets(p))
    BY <2>1
  <2> QED
    BY <1>5, <1>6, <1>7, <1>8, <1>9, <2>2
<1> QED
  BY <1>4, <1>9, <1>10, <1>11

\* When the supply allows the inflation, every inline action can be done.
LEMMA WalletsPossible ==
  ASSUME PayInv, NEW p \in Signers \ {Creator}, Minted.ok
  PROVE  Wallets(p).ok
<1>1. p \in Accounts /\ p \notin Payers /\ Saving \in Payers /\ System \in Payers
      /\ BlockPayer \in Payers /\ VotePayer \in Payers
  BY AccountsAssumption, PayersApart DEF Payers
<1>2. /\ NewTokens \in Nat /\ ToSavings \in Nat /\ ToBlocks \in Nat /\ ToVotes \in Nat
      /\ NewTokens = ToSavings + ToBlocks + ToVotes
      /\ BlockPay(p) \in Nat /\ VotePay(p) \in Nat
      /\ BlockPay(p) <= balance[CoreSymbol][BlockPayer] + ToBlocks
      /\ VotePay(p) <= balance[CoreSymbol][VotePayer] + ToVotes
      /\ \A a \in Accounts : balance[CoreSymbol][a] \in Nat
  BY <1>1, ClaimAmounts
<1>3. /\ Purse(Minted)
      /\ \A a \in Accounts :
            Coins(Minted, a) = balance[CoreSymbol][a] + (IF a = System THEN NewTokens ELSE 0)
  BY MintedFields
<1>4. Payers \cap activity = {} /\ Creator \notin Payers
  BY PayersApart DEF PayInv, Purses
<1> DEFINE Sends(w, u, from, to, q) ==
      /\ u.ok
      /\ Purse(u)
      /\ \A a \in Accounts :
            Coins(u, a) = Coins(w, a) - (IF a = from THEN q ELSE 0) + (IF a = to THEN q ELSE 0)
<1>5. ASSUME NEW w, Purse(w), w.ok, NEW from \in Accounts \ activity,
             NEW to \in Accounts \ {from, Creator}, NEW q \in Nat, Coins(w, from) >= q
      PROVE  Sends(w, Sent(w, from, to, q), from, to, q)
  <2>1. activity \in SUBSET Accounts
    BY AccountsAssumption DEF PayInv, Purses
  <2> QED
    BY <1>5, <2>1, SentPossible, SentDone
<1> HIDE DEF Sends
<1>6. Sends(Minted, FirstSent, System, Saving, ToSavings)
  <2>1. Coins(Minted, System) >= ToSavings
    BY <1>2, <1>3, PayersApart
  <2> QED
    BY <1>1, <1>2, <1>3, <1>4, <1>5, <2>1, PayersApart DEF FirstSent
<1>7. Sends(FirstSent, SecondSent, System, BlockPayer, ToBlocks)
  <2>1. Coins(FirstSent, System) >= ToBlocks
    BY <1>2, <1>3, <1>6, PayersApart DEF Sends
  <2>2. FirstSent.ok /\ Purse(FirstSent)
    BY <1>6 DEF Sends
  <2> QED
    BY <1>1, <1>2, <1>4, <1>5, <2>1, <2>2, PayersApart DEF SecondSent
<1>8. Sends(SecondSent, Distributed, System, VotePayer, ToVotes)
  <2>1. Coins(SecondSent, System) >= ToVotes
    BY <1>2, <1>3, <1>6, <1>7, PayersApart DEF Sends
  <2>2. SecondSent.ok /\ Purse(SecondSent)
    BY <1>7 DEF Sends
  <2> QED
    BY <1>1, <1>2, <1>4, <1>5, <2>1, <2>2, PayersApart, WalletsSteps
<1>9. Sends(Distributed, FourthSent(p), BlockPayer, p, BlockPay(p))
  <2>1. Coins(Distributed, BlockPayer) >= BlockPay(p)
    BY <1>2, <1>3, <1>6, <1>7, <1>8, PayersApart DEF Sends
  <2>2. Distributed.ok /\ Purse(Distributed)
    BY <1>8 DEF Sends
  <2> QED
    BY <1>1, <1>2, <1>4, <1>5, <2>1, <2>2, PayersApart DEF FourthSent
<1>10. Sends(FourthSent(p), Wallets(p), VotePayer, p, VotePay(p))
  <2>1. Coins(FourthSent(p), VotePayer) >= VotePay(p)
    BY <1>1, <1>2, <1>3, <1>6, <1>7, <1>8, <1>9, PayersApart DEF Sends
  <2>2. FourthSent(p).ok /\ Purse(FourthSent(p))
    BY <1>9 DEF Sends
  <2> QED
    BY <1>1, <1>2, <1>4, <1>5, <2>1, <2>2, PayersApart, WalletsSteps
<1> QED
  BY <1>10 DEF Sends

(***************************************************************************)
(* The initial states                                                      *)
(***************************************************************************)
LEMMA FirstRoles ==
  ASSUME VoteInit, NEW a \in Accounts
  PROVE  producers[a].is_producer => a \in Incumbents
<1>1. producers[a] = Founded(a)
  BY DEF VoteInit
<1>2. CASE a \notin Founders
  <2>1. producers[a] = NoProducer
    BY <1>1, <1>2 DEF Founded
  <2>2. NoProducer.is_producer = FALSE
    BY DEF NoProducer
  <2> QED
    BY <2>1, <2>2
<1>3. CASE a \in Founders
  <2> DEFINE votes == IF a \in Incumbents THEN Weight(InitialStake[a]) ELSE 0
             is == a \in Incumbents
             q == [row |-> TRUE, is_active |-> TRUE, is_producer |-> FALSE, votes |-> 0,
                   claimed |-> now, share |-> 0, updated |-> now]
  <2>1. Registered(NoProducer) = q
    BY DEF Registered, NoProducer
  <2>2. producers[a] = [Registered(NoProducer) EXCEPT !.is_producer = is, !.votes = votes]
    BY <1>1, <1>3 DEF Founded
  <2>3. producers[a] = [q EXCEPT !.is_producer = is, !.votes = votes]
    BY <2>1, <2>2
  <2>4. producers[a].is_producer = is
    <3> HIDE DEF is, votes
    <3> QED
      BY <2>3
  <2> QED
    BY <2>4
<1> QED
  BY <1>2, <1>3

LEMMA PayInvInit ==
  ASSUME RewardsInit
  PROVE  PayInv
<1>1. /\ CoreFunded(System, MaxSupply) /\ VoteInit /\ PayInit
      /\ CoreSymbol \in Symbols /\ MaxSupply \in Nat /\ MaxUnpaid \in Nat
      /\ InitialFunds \in [Accounts -> Nat]
      /\ System \in Accounts
  BY SymbolAssumption, PayAssumption, StakeAssumption, PayersApart DEF RewardsInit
<1>2. VotingInv
  BY <1>1, InitGood
<1>3. Total(InitialFunds, Accounts) \in Nat
  BY <1>1, TotalType, AccountsAssumption
<1>4. balance[CoreSymbol] = InitialFunds
  BY <1>1 DEF CoreFunded
<1>5. Purses
  <2>1. balance \in Balances
    BY <1>1 DEF CoreFunded, Balances
  <2>2. row \in [Symbols -> SUBSET Accounts]
    BY <1>1 DEF CoreFunded
  <2>3. \A a \in Accounts : balance[CoreSymbol][a] > 0 => a \in row[CoreSymbol]
    BY <1>1, <1>4 DEF CoreFunded
  <2>4. NoStat \in Stats
    BY DEF NoStat, Stats
  <2>5. stat \in [Symbols -> Stats] /\ stat[CoreSymbol].issuer = System
    <3> DEFINE core == [supply |-> Total(InitialFunds, Accounts), max_supply |-> MaxSupply,
                        issuer |-> System]
    <3>1. core \in Stats /\ core.issuer = System
      BY <1>1, <1>3 DEF Stats
    <3>2. stat = [s \in Symbols |-> IF s = CoreSymbol THEN core ELSE NoStat]
      BY <1>1 DEF CoreFunded
    <3> HIDE DEF core
    <3> QED
      BY <1>1, <2>4, <3>1, <3>2
  <2>6. activity \in SUBSET Signers
    BY <1>1, StakeAssumption DEF VoteInit
  <2>7. Purse([balance |-> balance, row |-> row])
    BY <2>1, <2>2, <2>3 DEF Purse
  <2> QED
    BY <2>5, <2>6, <2>7 DEF Purses
<1>6. PayType
  <2>1. unpaid \in [Accounts -> Nat] /\ totalUnpaid \in 0 .. MaxUnpaid
    BY <1>1 DEF PayInit
  <2>5. proposed \in SUBSET Accounts /\ fresh \in BOOLEAN
    BY <1>1, Zenon DEF PayInit
  <2>2. buckets \in [pervote : Nat, perblock : Nat, filled : NotStarted .. LastDay]
    BY <1>1, GrowthAssumption DEF PayInit, NotStarted
  <2>3. /\ ContinuousRate[InitialRates[1]] \in Nat /\ InitialRates[2] \in Nat
        /\ InitialRates[3] \in Nat /\ InitialRates[2] >= PayPrecision
        /\ InitialRates[3] >= PayPrecision
    BY RateAssumption
  <2>4. inflation = [rate |-> ContinuousRate[InitialRates[1]],
                     pay_factor |-> InitialRates[2], vote_factor |-> InitialRates[3]]
    BY <1>1 DEF PayInit
  <2> QED
    BY <2>1, <2>2, <2>3, <2>4, <2>5 DEF PayType
<1>7. BlocksAddUp
  BY <1>1, TotalZero DEF PayInit, BlocksAddUp
<1>8. BucketsCovered
  BY <1>1, <1>4, PayersApart DEF PayInit, BucketsCovered
<1>9. ProducersBacked
  <2> SUFFICES ASSUME NEW a \in Accounts, producers[a].is_producer
               PROVE  a \in activity /\ balance[CoreSymbol][a] >= Border * Precision
    BY DEF ProducersBacked
  <2>1. a \in Incumbents
    BY <1>1, FirstRoles
  <2> QED
    BY <1>1, <1>4, <2>1, StakeAssumption DEF VoteInit
<1> QED
  BY <1>2, <1>5, <1>6, <1>7, <1>8, <1>9 DEF PayInv

(***************************************************************************)
(* The steps                                                               *)
(***************************************************************************)
\* Only balances, roles and locks matter to ProducersBacked.
LEMMA StillBacked ==
  ASSUME ProducersBacked,
         \A a \in Accounts : producers'[a].is_producer =>
            \/ /\ producers[a].is_producer
               /\ a \in activity => a \in activity'
               /\ \/ balance'[CoreSymbol][a] >= balance[CoreSymbol][a]
                  \/ balance'[CoreSymbol][a] >= Border * Precision
            \/ a \in activity' /\ balance'[CoreSymbol][a] >= Border * Precision,
         \A a \in Accounts : balance[CoreSymbol][a] \in Int /\ balance'[CoreSymbol][a] \in Int
  PROVE  ProducersBacked'
<1>1. Border * Precision \in Int
  BY AmountAssumption
<1> QED
  BY <1>1 DEF ProducersBacked

\* What registers, votes and changes stake moves no tokens.
LEMMA VoteKeepsMoney ==
  ASSUME PayInv, UNCHANGED payVars, UNCHANGED <<stat, balance, row>>,
         VotingInv', activity' \in SUBSET Signers, ProducersBacked'
  PROVE  PayInv'
<1>1. Purses'
  BY DEF PayInv, Purses
<1>2. PayType' /\ BlocksAddUp' /\ BucketsCovered'
  BY DEF PayInv, PayType, BlocksAddUp, BucketsCovered, payVars
<1> QED
  BY <1>1, <1>2 DEF PayInv

\* A balance of Border whole tokens.
LEMMA BorderKept ==
  ASSUME NEW n \in Int, n \div Precision >= Border
  PROVE  n >= Border * Precision
<1>1. Precision \in Nat \ {0} /\ Border \in Nat
  BY AmountAssumption
<1> DEFINE k == n \div Precision
<1>2. k \in Int /\ k * Precision <= n
  BY <1>1
<1> HIDE DEF k
<1>3. k >= Border => k * Precision >= Border * Precision
  BY <1>1, <1>2
<1>4. Border * Precision \in Int /\ k * Precision \in Int
  BY <1>1, <1>2
<1> QED
  BY <1>2, <1>3, <1>4 DEF k

LEMMA VoteSteps ==
  ASSUME PayInv, VoteActions, UNCHANGED payVars
  PROVE  PayInv'
<1>1. /\ VotingInv /\ ProducersBacked /\ activity \in SUBSET Signers
      /\ Signers \subseteq Accounts
      /\ \A a \in Accounts : balance[CoreSymbol][a] \in Nat
      /\ producers \in [Accounts -> Producers]
  BY AccountsAssumption, SymbolAssumption, TablesFields
     DEF PayInv, Purses, Purse, Balances, VotingInv, Good, Sound, TablesType
<1>2. VotingInv'
  BY <1>1, StepGood DEF VotingNext
<1>3. ASSUME NEW a \in Signers, Regproducer(a)
      PROVE  PayInv'
  <2>1. activity' = activity \cup {a} /\ UNCHANGED <<stat, balance, row>>
    BY <1>3 DEF Regproducer, RegisterProducer
  <2>2. ASSUME NEW x \in Accounts, producers'[x].is_producer
        PROVE  producers[x].is_producer
    <3>1. CASE x # a
      BY <1>1, <1>3, <2>2, <3>1 DEF Regproducer
    <3>2. CASE x = a
      <4>1. producers'[a] = Registered(producers[a])
        BY <1>1, <1>3 DEF Regproducer
      <4>2. CASE producers[a].row
        <5>1. Registered(producers[a]) = [producers[a] EXCEPT !.is_active = TRUE]
          BY <4>2 DEF Registered
        <5>2. Registered(producers[a]).is_producer = producers[a].is_producer
          BY <1>1, <5>1 DEF Producers
        <5> QED
          BY <2>2, <3>2, <4>1, <5>2
      <4>3. CASE ~producers[a].row
        <5>1. Registered(producers[a])
                = [row |-> TRUE, is_active |-> TRUE, is_producer |-> FALSE, votes |-> 0,
                   claimed |-> now, share |-> 0, updated |-> now]
          BY <4>3 DEF Registered, NoProducer
        <5>2. Registered(producers[a]).is_producer = FALSE
          BY <5>1
        <5> QED
          BY <2>2, <3>2, <4>1, <5>2
      <4> QED
        BY <4>2, <4>3
    <3> QED
      BY <3>1, <3>2
  <2>3. ProducersBacked'
    BY <1>1, <2>1, <2>2, StillBacked
  <2> QED
    BY <1>1, <1>2, <2>1, <2>3, VoteKeepsMoney
<1>4. ASSUME NEW a \in Signers, Unregprod(a) \/ Rmvproducer(a)
      PROVE  PayInv'
  <2>1. /\ UNCHANGED <<stat, balance, row>>
        /\ activity' \in {activity, activity \ {a}}
        /\ producers' = [producers EXCEPT ![a] = Deactivated(@)]
    BY <1>4 DEF Unregprod, Rmvproducer, tokenVars
  <2>2. producers'[a].is_producer = FALSE
    <3>1. producers'[a] = Deactivated(producers[a]) /\ producers[a] \in Producers
      BY <1>1, <2>1
    <3> QED
      BY <3>1 DEF Deactivated, Producers
  <2>3. \A x \in Accounts \ {a} : producers'[x] = producers[x]
    BY <1>1, <2>1
  <2>4. ProducersBacked'
    BY <1>1, <2>1, <2>2, <2>3, StillBacked
  <2> QED
    BY <1>1, <1>2, <2>1, <2>4, VoteKeepsMoney
<1>5. ASSUME NEW a \in Signers, NEW proxy \in Accounts \cup {NoOne}, NEW list \in SUBSET Signers,
             Makeprod(a, proxy, list)
      PROVE  PayInv'
  <2>1. activity' = activity \cup {a} /\ UNCHANGED <<stat, balance, row>>
    BY <1>5 DEF Makeprod
  <2>2. \A x \in Accounts : producers'[x].is_producer = Producing(a).producers[x].is_producer
    BY <1>1, <1>5, MakeprodStep
  <2>3. \A x \in Accounts \ {a} : producers'[x].is_producer = producers[x].is_producer
    BY <1>1, <2>2 DEF Producing, Tables
  <2>4. balance[CoreSymbol][a] >= Border * Precision
    <3>1. balance[CoreSymbol][a] \div Precision >= Border /\ balance[CoreSymbol][a] \in Nat
      BY <1>1, <1>5 DEF Makeprod, MayProduce
    <3> QED
      BY <3>1, BorderKept
  <2>5. ProducersBacked'
    BY <1>1, <2>1, <2>3, <2>4, StillBacked
  <2> QED
    BY <1>1, <1>2, <2>1, <2>5, VoteKeepsMoney
<1>6. ASSUME NEW a \in Signers, NEW isproxy \in BOOLEAN, Regproxy(a, isproxy)
      PROVE  PayInv'
  <2>1. activity' = activity /\ UNCHANGED <<stat, balance, row>>
    BY <1>6 DEF Regproxy, tokenVars
  <2>2. \A x \in Accounts : producers'[x].is_producer = producers[x].is_producer
    BY <1>1, <1>6, RegproxyStep
  <2>3. ProducersBacked'
    BY <1>1, <2>1, <2>2, StillBacked
  <2> QED
    BY <1>1, <1>2, <2>1, <2>3, VoteKeepsMoney
<1>7. ASSUME NEW a \in Signers, NEW q \in StakeChanges, Restake(a, q)
      PROVE  PayInv'
  <2>1. activity' = activity /\ UNCHANGED <<stat, balance, row>>
    BY <1>7 DEF Restake, tokenVars
  <2>2. \A x \in Accounts : producers'[x].is_producer = producers[x].is_producer
    BY <1>1, <1>7, RestakeStep
  <2>3. ProducersBacked'
    BY <1>1, <2>1, <2>2, StillBacked
  <2> QED
    BY <1>1, <1>2, <2>1, <2>3, VoteKeepsMoney
<1> QED
  BY <1>3, <1>4, <1>5, <1>6, <1>7 DEF VoteActions

\* A day, and what holders send each other.
LEMMA VotesStay ==
  ASSUME VotingInv, UNCHANGED voteVars, activity' = activity
  PROVE  VotingInv'
<1>1. voters' = voters /\ producers' = producers /\ totals' = totals
      /\ activation' = activation /\ now' = now
  BY DEF voteVars
<1>2. Tables' = Tables
  BY <1>1 DEF Tables
<1>3. Good(Tables)'
  BY <1>1, <1>2, TablesFields, GoodNext DEF VotingInv, Become
<1> QED
  BY <1>1, <1>3 DEF VotingInv

LEMMA DayStep ==
  ASSUME PayInv, Day, UNCHANGED payVars
  PROVE  PayInv'
<1>1. VotingInv'
  BY StepGood DEF PayInv, VotingNext
<1>2. /\ UNCHANGED <<stat, balance, row>>
      /\ activity' = activity /\ producers' = producers
  BY DEF Day, tokenVars
<1>3. activity' \in SUBSET Signers /\ ProducersBacked'
  BY <1>2 DEF PayInv, Purses, ProducersBacked
<1> QED
  BY <1>1, <1>2, <1>3, VoteKeepsMoney

LEMMA TransferStep ==
  ASSUME PayInv, NEW a \in Signers, NEW b \in Signers, NEW q \in Quantities,
         Transfer(a, b, CoreSymbol, q), UNCHANGED voteVars, UNCHANGED payVars
  PROVE  PayInv'
<1> DEFINE w == [balance |-> balance, row |-> row, ok |-> TRUE]
<1>0. activity \in SUBSET Accounts
  BY AccountsAssumption DEF PayInv, Purses
<1>1. /\ a \in Accounts /\ b \in Accounts /\ q \in Int
      /\ stat' = stat /\ activity' = activity /\ producers' = producers
      /\ balance' = Moved(balance, CoreSymbol, a, b, q)
      /\ row' = RowsWith(row, CoreSymbol, b)
      /\ CanMove(balance, row, CoreSymbol, a, b, q)
      /\ \A x \in Accounts : balance[CoreSymbol][x] \in Nat
  BY AccountsAssumption, AmountAssumption, SymbolAssumption
     DEF Transfer, voteVars, PayInv, Purses, Purse, Balances
<1>2. a # b /\ q > 0 /\ q \in Nat
  BY <1>1 DEF CanMove
<1>3. /\ Sent(w, a, b, q).ok
      /\ Sent(w, a, b, q).balance = balance' /\ Sent(w, a, b, q).row = row'
  <2> DEFINE bal == Moved(balance, CoreSymbol, a, b, q)
             rows == RowsWith(row, CoreSymbol, b)
             ok == w.ok /\ CanMove(w.balance, w.row, CoreSymbol, a, b, q)
             u == Sent(w, a, b, q)
  <2>1. u = [balance |-> bal, row |-> rows, ok |-> ok]
    BY <1>2 DEF Sent
  <2>2. bal = balance' /\ rows = row' /\ ok
    BY <1>1
  <2> HIDE DEF bal, rows, ok, u
  <2>3. u.balance = bal /\ u.row = rows /\ u.ok = ok
    BY <2>1
  <2>4. u.ok /\ u.balance = balance' /\ u.row = row'
    BY <2>2, <2>3
  <2> QED
    BY <2>4 DEF u
<1>4. Purse(w) /\ \A x \in Accounts : Coins(w, x) = balance[CoreSymbol][x]
  BY DEF PayInv, Purses, Purse, Coins
<1> HIDE DEF w
<1>5. /\ Purse(Sent(w, a, b, q))
      /\ \A x \in Accounts :
            Coins(Sent(w, a, b, q), x)
              = Coins(w, x) - (IF x = a THEN q ELSE 0) + (IF x = b THEN q ELSE 0)
  BY <1>0, <1>1, <1>2, <1>3, <1>4, SentDone
<1>6. \A x \in Accounts :
        balance'[CoreSymbol][x]
          = balance[CoreSymbol][x] - (IF x = a THEN q ELSE 0) + (IF x = b THEN q ELSE 0)
  BY <1>3, <1>4, <1>5 DEF Coins
<1>7. Purse([balance |-> balance, row |-> row])'
  BY <1>3, <1>5 DEF Purse
<1>8. Purses'
  BY <1>1, <1>7 DEF PayInv, Purses
<1>9. VotingInv'
  BY <1>1, VotesStay DEF PayInv
<1>10. PayType' /\ BlocksAddUp'
  BY <1>9 DEF PayInv, PayType, BlocksAddUp, payVars
<1>11. BucketsCovered'
  <2>1. BlockPayer \in Accounts \ {a, b} /\ VotePayer \in Accounts \ {a, b}
    BY PayersApart DEF Payers
  <2> QED
    BY <1>1, <1>6, <2>1 DEF PayInv, BucketsCovered, payVars
<1>12. ProducersBacked'
  <2>1. a \in activity => balance'[CoreSymbol][a] >= Border * Precision
    <3> SUFFICES ASSUME a \in activity PROVE balance'[CoreSymbol][a] >= Border * Precision
      OBVIOUS
    <3>1. Debited(balance, CoreSymbol, a, q)[CoreSymbol][a] \div Precision >= Border
      BY <1>1 DEF CanMove, CanSub, LockRespected
    <3>2. Debited(balance, CoreSymbol, a, q)[CoreSymbol][a] = balance[CoreSymbol][a] - q
      BY <1>1, SymbolAssumption DEF Debited, PayInv, Purses, Purse, Balances
    <3>3. balance[CoreSymbol][a] - q >= Border * Precision
      BY <1>1, <3>1, <3>2, BorderKept
    <3> QED
      BY <1>1, <1>2, <1>6, <3>3
  <2>2. \A x \in Accounts \ {a} : balance'[CoreSymbol][x] >= balance[CoreSymbol][x]
    BY <1>1, <1>2, <1>6
  <2>3. \A x \in Accounts : balance'[CoreSymbol][x] \in Int
    BY <1>1, <1>6
  <2>4. \A x \in Accounts : producers[x].is_producer => x \in activity
    BY DEF PayInv, ProducersBacked
  <2> QED
    BY <1>1, <2>1, <2>2, <2>3, <2>4, StillBacked DEF PayInv
<1> QED
  BY <1>8, <1>9, <1>10, <1>11, <1>12 DEF PayInv

\* A block is counted for its producer and in the total.
LEMMA OnblockStep ==
  ASSUME PayInv, NEW p \in Accounts, NEW missed \in BOOLEAN, Onblock(p, missed)
  PROVE  PayInv'
<1>1. /\ UNCHANGED votingVars /\ inflation' = inflation
      /\ buckets' = [buckets EXCEPT !.filled = IF @ = NotStarted THEN now ELSE @]
      /\ fresh' = Looked(missed)
  BY DEF Onblock
<1>2. /\ UNCHANGED <<stat, balance, row, activity, producers, now>> /\ UNCHANGED voteVars
  BY <1>1 DEF votingVars, tokenVars, voteVars
<1>3. VotingInv' /\ Purses' /\ ProducersBacked'
  BY <1>2, VotesStay DEF PayInv, Purses, ProducersBacked
<1>4. /\ buckets' \in [pervote : Nat, perblock : Nat, filled : NotStarted .. LastDay]
      /\ buckets'.pervote = buckets.pervote /\ buckets'.perblock = buckets.perblock
  <2> DEFINE filled == IF buckets.filled = NotStarted THEN now ELSE buckets.filled
  <2>1. filled \in NotStarted .. LastDay
    BY GrowthAssumption DEF PayInv, PayType, VotingInv, NotStarted
  <2>2. buckets' = [buckets EXCEPT !.filled = filled]
    BY <1>1
  <2> HIDE DEF filled
  <2> QED
    BY <2>1, <2>2 DEF PayInv, PayType
<1>5. BucketsCovered'
  BY <1>2, <1>4 DEF PayInv, BucketsCovered
<1>6. fresh' \in BOOLEAN
  BY <1>1 DEF Looked, PayInv, PayType
<1>7. proposed' \in SUBSET Accounts
  <2>1. proposed' \in Elections \/ proposed' = proposed
    BY DEF Onblock
  <2> QED
    BY <2>1 DEF Elections, Eligible, PayInv, PayType
<1>8. /\ unpaid' \in [Accounts -> Nat] /\ totalUnpaid' \in 0 .. MaxUnpaid
      /\ BlocksAddUp'
  <2>0. /\ unpaid \in [Accounts -> Nat] /\ totalUnpaid \in 0 .. MaxUnpaid /\ MaxUnpaid \in Nat
        /\ totalUnpaid = Total(unpaid, Accounts)
    BY PayAssumption DEF PayInv, PayType, BlocksAddUp
  <2>1. CASE producers[p].row
    <3>1. /\ totalUnpaid < MaxUnpaid
          /\ totalUnpaid' = totalUnpaid + 1
          /\ unpaid' = [unpaid EXCEPT ![p] = @ + 1]
      BY <2>1 DEF Onblock
    <3>2. /\ unpaid' \in [Accounts -> Nat] /\ unpaid'[p] = unpaid[p] + 1
          /\ \A x \in Accounts \ {p} : unpaid[x] = unpaid'[x]
      BY <2>0, <3>1
    <3>3. Total(unpaid', Accounts) = Total(unpaid, Accounts) - unpaid[p] + unpaid'[p]
      BY <2>0, <3>2, TotalChange, AccountsAssumption
    <3>4. Total(unpaid', Accounts) = totalUnpaid'
      BY <2>0, <3>1, <3>2, <3>3
    <3> QED
      BY <2>0, <3>1, <3>2, <3>4 DEF BlocksAddUp
  <2>2. CASE ~producers[p].row
    <3>1. unpaid' = unpaid /\ totalUnpaid' = totalUnpaid
      BY <2>2 DEF Onblock
    <3> QED
      BY <2>0, <3>1 DEF BlocksAddUp
  <2> QED
    BY <2>1, <2>2
<1>9. PayType'
  BY <1>1, <1>4, <1>6, <1>7, <1>8 DEF PayInv, PayType
<1> QED
  BY <1>3, <1>5, <1>8, <1>9 DEF PayInv

LEMMA SetinflationStep ==
  ASSUME PayInv, NEW r \in RateChanges, Setinflation(r[1], r[2], r[3])
  PROVE  PayInv'
<1>1. /\ UNCHANGED votingVars /\ UNCHANGED <<unpaid, totalUnpaid, buckets, proposed, fresh>>
      /\ r[1] >= 0 /\ r[2] >= PayPrecision /\ r[3] >= PayPrecision
      /\ inflation' = [rate |-> ContinuousRate[r[1]], pay_factor |-> r[2], vote_factor |-> r[3]]
  BY DEF Setinflation
<1>2. UNCHANGED <<stat, balance, row, activity, producers, now>> /\ UNCHANGED voteVars
  BY <1>1 DEF votingVars, tokenVars, voteVars
<1>3. VotingInv' /\ Purses' /\ ProducersBacked' /\ BlocksAddUp' /\ BucketsCovered'
  BY <1>1, <1>2, VotesStay DEF PayInv, Purses, ProducersBacked, BlocksAddUp, BucketsCovered
<1>4. ContinuousRate[r[1]] \in Nat /\ r[2] \in Nat /\ r[3] \in Nat
  BY <1>1, RateAssumption, PayAssumption
<1>5. PayType'
  BY <1>1, <1>4 DEF PayInv, PayType
<1> QED
  BY <1>3, <1>5 DEF PayInv

\* The share of a producer that claims leaves the total, and its votes earn again.
ClaimedTotals(g, r) == ShareTotal(g, -ShareNow(r), IF UpdatedAfter(r) THEN r.votes ELSE 0)

LEMMA PaidClaim ==
  ASSUME now \in 0 .. LastDay, NEW t \in TablesType, Paid(t), NEW u \in TablesType,
         \A x \in Accounts : t.producers[x].votes >= 0,
         NEW p \in Accounts, \A x \in Accounts \ {p} : u.producers[x] = t.producers[x],
         u.producers[p] = Claimed(t.producers[p]),
         Claimed(t.producers[p]).votes = t.producers[p].votes,
         Claimed(t.producers[p]).row = t.producers[p].row,
         u.totals = ClaimedTotals(t.totals, t.producers[p])
  PROVE  Paid(u)
<1> DEFINE r == t.producers[p]
           c == u.producers[p]
           g == t.totals
           extra == -ShareNow(r)
           rate == IF UpdatedAfter(r) THEN r.votes ELSE 0
<1>1. /\ r \in Producers /\ r.votes \in Nat
      /\ g \in [weight : Int, share : Int, rate : Int, updated : 0 .. LastDay]
  BY DEF TablesType, Producers
<1>2. c.share = 0 /\ c.updated = now /\ c.claimed = now /\ c.votes = r.votes
  <2>1. c = [r EXCEPT !.share = 0, !.updated = now, !.claimed = now]
    BY DEF Claimed
  <2>2. c.votes = r.votes
    OBVIOUS
  <2> HIDE DEF c, r
  <2> QED
    BY <1>1, <2>1, <2>2 DEF Producers
<1>3. now \in Int /\ ShareLife \in Nat \ {0} /\ ShareNow(r) \in Int
  BY <1>1, DaysAreNumbers, ShareNowType, StakeAssumption
<1>4. u.totals = ShareTotal(g, extra, rate)
  BY DEF ClaimedTotals
<1> HIDE DEF r, c, g
<1>5. PaidRow(c) /\ ~UpdatedAfter(c)
  BY <1>2, <1>3 DEF PaidRow, UpdatedAfter
<1>6. ShareNow(c) = 0
  <2>1. c.votes * (now - c.updated) = 0
    BY <1>1, <1>2, <1>3
  <2> QED
    BY <1>2, <2>1 DEF ShareNow
<1>7. extra \in Int /\ rate \in Int
  BY <1>1, <1>3
<1>8. ShareNow(c) = ShareNow(r) + extra /\ RateOf(c) = RateOf(r) + rate
  BY <1>1, <1>2, <1>3, <1>5, <1>6 DEF RateOf
<1> HIDE DEF extra, rate
<1>9. ShareNow(u.producers[p]) = ShareNow(t.producers[p]) + extra
      /\ RateOf(u.producers[p]) = RateOf(t.producers[p]) + rate
  BY <1>8 DEF r, c
<1>10. PaidRow(u.producers[p]) /\ u.producers[p].votes >= 0
  BY <1>1, <1>2, <1>5 DEF c
<1>11. g.share = t.totals.share /\ g.rate = t.totals.rate /\ g.updated = t.totals.updated
  BY DEF g
<1> QED
  BY <1>1, <1>4, <1>7, <1>9, <1>10, <1>11, PaidChange

\* A claim changes no vote: only shares and the time of the claim.
LEMMA ClaimVotes ==
  ASSUME VotingInv, NEW p \in Accounts,
         producers' = [producers EXCEPT ![p] = Claimed(@)],
         totals' = ClaimTotals(producers[p]),
         UNCHANGED <<activity, voters, activation, now>>
  PROVE  /\ VotingInv'
         /\ \A x \in Accounts : producers'[x].is_producer = producers[x].is_producer
<1> DEFINE r == producers[p]
           u == [voters |-> voters, producers |-> producers', totals |-> totals',
                 activation |-> activation]
<1>1. /\ now \in 0 .. LastDay /\ activity \in SUBSET Accounts /\ Good(Tables)
      /\ Tables \in TablesType
  BY DEF VotingInv, Good, Sound
<1>2. /\ voters \in [Accounts -> Voters] /\ producers \in [Accounts -> Producers]
      /\ totals \in [weight : Int, share : Int, rate : Int, updated : 0 .. LastDay]
      /\ activation \in [stake : Nat, done : BOOLEAN]
  BY <1>1 DEF TablesType, Tables
<1>3. /\ Claimed(r) \in Producers /\ Claimed(r).votes = r.votes /\ Claimed(r).row = r.row
      /\ Claimed(r).is_producer = r.is_producer
  <2>1. r \in Producers
    BY <1>2
  <2>2. Claimed(r) = [r EXCEPT !.share = 0, !.updated = now, !.claimed = now]
    BY DEF Claimed
  <2> HIDE DEF r
  <2>3. Claimed(r) \in Producers
    <3>1. now \in 0 .. LastDay /\ 0 \in Int
      BY <1>1
    <3> QED
      BY <2>1, <2>2, <3>1 DEF Producers
  <2>4. Claimed(r).votes = r.votes
    BY <2>1, <2>2 DEF Producers
  <2>5. Claimed(r).row = r.row
    BY <2>1, <2>2 DEF Producers
  <2>6. Claimed(r).is_producer = r.is_producer
    BY <2>1, <2>2 DEF Producers
  <2> QED
    BY <2>3, <2>4, <2>5, <2>6
<1>4. /\ totals' \in [weight : Int, share : Int, rate : Int, updated : 0 .. LastDay]
      /\ totals'.weight = totals.weight
  <2> DEFINE extra == -ShareNow(r)
             rate == IF UpdatedAfter(r) THEN r.votes ELSE 0
  <2>1. r \in Producers /\ r.votes \in Int
    BY <1>2 DEF Producers
  <2>2. extra \in Int /\ rate \in Int
    BY <1>1, <2>1, ShareNowType
  <2>3. totals' = ShareTotal(totals, extra, rate)
    BY DEF ClaimTotals
  <2> HIDE DEF extra, rate
  <2> QED
    BY <1>1, <1>2, <2>2, <2>3, ShareTotalType
<1>5. /\ producers' \in [Accounts -> Producers]
      /\ \A x \in Accounts : /\ producers'[x].votes = producers[x].votes
                             /\ producers'[x].row = producers[x].row
                             /\ producers'[x].is_producer = producers[x].is_producer
  <2>1. producers'[p] = Claimed(r) /\ \A x \in Accounts \ {p} : producers'[x] = producers[x]
    BY <1>2
  <2>2. producers' \in [Accounts -> Producers]
    BY <1>2, <1>3
  <2> HIDE DEF r
  <2> QED
    BY <1>3, <2>1, <2>2 DEF r
<1>6. /\ u \in TablesType
      /\ u.voters = voters /\ u.producers = producers' /\ u.totals = totals'
      /\ u.activation = activation
  BY <1>2, <1>4, <1>5 DEF TablesType
<1> HIDE DEF u
<1>7. \A x \in Accounts : voters[x].is_proxy => voters[x].proxy = NoOne
  BY <1>1, TablesFields DEF Good, Sound, Linked
<1>8. Good(u)
  <2>1. u.totals.weight = Tables.totals.weight
    BY <1>4, <1>6, TablesFields
  <2>2. \A x \in Accounts :
          /\ u.voters[x].proxy = Tables.voters[x].proxy
          /\ u.voters[x].producers = Tables.voters[x].producers
          /\ u.voters[x].last = Tables.voters[x].last
          /\ u.voters[x].proxied = Tables.voters[x].proxied
          /\ Tables.voters[x].row => u.voters[x].row
          /\ u.voters[x].is_proxy => Tables.voters[x].proxy = NoOne
          /\ Tables.producers[x].row => u.producers[x].row
          /\ u.producers[x].votes = Tables.producers[x].votes
    BY <1>5, <1>6, <1>7, TablesFields
  <2>3. Paid(u)
    <3> DEFINE t == Tables
    <3>1. /\ t \in TablesType /\ Paid(t) /\ t.producers = producers /\ t.totals = totals
          /\ \A x \in Accounts : t.producers[x].votes >= 0
      BY <1>1, TablesFields DEF Good, Sound, Tallied, Own, Counted
    <3> HIDE DEF t
    <3>2. /\ u.producers[p] = Claimed(t.producers[p])
          /\ \A x \in Accounts \ {p} : u.producers[x] = t.producers[x]
      BY <1>2, <1>6, <3>1
    <3>3. Claimed(t.producers[p]).votes = t.producers[p].votes
          /\ Claimed(t.producers[p]).row = t.producers[p].row
      BY <1>3, <3>1
    <3>4. u.totals = ClaimedTotals(t.totals, t.producers[p])
      BY <1>6, <3>1 DEF ClaimTotals, ClaimedTotals
    <3> QED
      BY <1>1, <1>6, <3>1, <3>2, <3>3, <3>4, PaidClaim
  <2> QED
    BY <1>1, <1>6, <2>1, <2>2, <2>3, StillGood
<1>9. Become(u)
  BY <1>6 DEF Become
<1>10. Good(Tables)'
  BY <1>8, <1>9, GoodNext
<1> QED
  BY <1>1, <1>5, <1>10 DEF VotingInv

\* A claim takes the blocks of one producer out of the total, and from the
\* buckets and from the accounts behind them no more than is there.
LEMMA ClaimStep ==
  ASSUME PayInv, NEW p \in Signers, Claimrewards(p)
  PROVE  PayInv'
<1>1. /\ Wallets(p).ok
      /\ stat' = [stat EXCEPT ![CoreSymbol].supply = @ + NewTokens]
      /\ balance' = Wallets(p).balance /\ row' = Wallets(p).row
      /\ buckets' = [Filled EXCEPT !.pervote = @ - VoteCost(p), !.perblock = @ - BlockPay(p)]
      /\ totalUnpaid' = totalUnpaid - unpaid[p]
      /\ unpaid' = [unpaid EXCEPT ![p] = 0]
      /\ UNCHANGED <<activity, voters, activation, now, inflation, proposed, fresh>>
      /\ p \in Accounts
  BY AccountsAssumption DEF Claimrewards, UnpaidAfter
<1>2. /\ VotingInv'
      /\ \A x \in Accounts : producers'[x].is_producer = producers[x].is_producer
  BY <1>1, ClaimVotes DEF Claimrewards, PayInv
<1>3. Purse(Wallets(p)) /\ \A a \in Accounts : balance'[CoreSymbol][a] = CoinsAfter(p, a)
  BY <1>1, WalletsDone DEF Coins
<1>4. /\ NewTokens \in Nat /\ ToSavings \in Nat /\ ToBlocks \in Nat /\ ToVotes \in Nat
      /\ BlockPay(p) \in Nat /\ VotePay(p) \in Nat
      /\ BlockPay(p) <= balance[CoreSymbol][BlockPayer] + ToBlocks
      /\ VotePay(p) <= balance[CoreSymbol][VotePayer] + ToVotes
      /\ \A a \in Accounts : balance[CoreSymbol][a] \in Nat
  BY <1>1, ClaimAmounts
<1>5. Purses'
  <2>1. Purse([balance |-> balance, row |-> row])'
    BY <1>1, <1>3 DEF Purse
  <2>2. stat' \in [Symbols -> Stats] /\ stat'[CoreSymbol].issuer = System
    <3>1. /\ stat \in [Symbols -> Stats] /\ stat[CoreSymbol].issuer = System
          /\ stat[CoreSymbol] \in Stats
      BY SymbolAssumption DEF PayInv, Purses
    <3> DEFINE core == [stat[CoreSymbol] EXCEPT !.supply = @ + NewTokens]
    <3>2. core \in Stats /\ core.issuer = System
      BY <1>4, <3>1 DEF Stats
    <3>3. stat' = [stat EXCEPT ![CoreSymbol] = core]
      BY <1>1
    <3> HIDE DEF core
    <3> QED
      BY <3>1, <3>2, <3>3, SymbolAssumption
  <2> QED
    BY <1>1, <2>1, <2>2 DEF PayInv, Purses
<1>6. /\ BlockPay(p) \in 0 .. Filled.perblock /\ VoteCost(p) \in 0 .. Filled.pervote
      /\ VotePay(p) <= VoteCost(p) /\ unpaid[p] \in 0 .. totalUnpaid
  BY <1>1, PayFacts
<1>7. /\ buckets' \in [pervote : Nat, perblock : Nat, filled : NotStarted .. LastDay]
      /\ buckets'.pervote = buckets.pervote + ToVotes - VoteCost(p)
      /\ buckets'.perblock = buckets.perblock + ToBlocks - BlockPay(p)
  <2> DEFINE f == Filled
             cost == VoteCost(p)
             pay == BlockPay(p)
  <2>1. /\ f \in [pervote : Nat, perblock : Nat, filled : NotStarted .. LastDay]
        /\ f.pervote = buckets.pervote + ToVotes /\ f.perblock = buckets.perblock + ToBlocks
    BY FilledFields
  <2>2. buckets' = [f EXCEPT !.pervote = @ - cost, !.perblock = @ - pay]
    BY <1>1
  <2>3. pay \in 0 .. f.perblock /\ cost \in 0 .. f.pervote
    BY <1>6
  <2> HIDE DEF f, cost, pay
  <2>4. f.pervote - cost \in Nat /\ f.perblock - pay \in Nat
    BY <2>1, <2>3
  <2>5. buckets' \in [pervote : Nat, perblock : Nat, filled : NotStarted .. LastDay]
    BY <2>1, <2>2, <2>4
  <2>6. buckets'.pervote = f.pervote - cost /\ buckets'.perblock = f.perblock - pay
    BY <2>1, <2>2
  <2>7. /\ buckets'.pervote = buckets.pervote + ToVotes - cost
        /\ buckets'.perblock = buckets.perblock + ToBlocks - pay
    <3>1. buckets.pervote \in Nat /\ buckets.perblock \in Nat /\ cost \in Int /\ pay \in Int
      BY <2>1, <2>3 DEF PayInv, PayType
    <3> QED
      BY <1>4, <2>1, <2>6, <3>1
  <2> QED
    BY <2>5, <2>7 DEF cost, pay
<1>8. /\ unpaid' \in [Accounts -> Nat] /\ totalUnpaid' \in 0 .. MaxUnpaid /\ BlocksAddUp'
  <2>1. /\ unpaid \in [Accounts -> Nat] /\ totalUnpaid \in 0 .. MaxUnpaid /\ MaxUnpaid \in Nat
        /\ totalUnpaid = Total(unpaid, Accounts)
    BY PayAssumption DEF PayInv, PayType, BlocksAddUp
  <2>2. /\ unpaid' \in [Accounts -> Nat] /\ unpaid'[p] = 0
        /\ \A x \in Accounts \ {p} : unpaid[x] = unpaid'[x]
    BY <1>1, <2>1
  <2>3. Total(unpaid', Accounts) = Total(unpaid, Accounts) - unpaid[p] + unpaid'[p]
    <3>1. \A x \in Accounts : unpaid[x] \in Nat /\ unpaid'[x] \in Nat
      BY <2>1, <2>2
    <3>2. p \in Accounts
      BY <1>1
    <3> QED
      BY <2>2, <3>1, <3>2, TotalChange, AccountsAssumption
  <2>4. totalUnpaid' = Total(unpaid', Accounts)
    BY <1>1, <2>1, <2>2, <2>3
  <2>5. totalUnpaid' \in 0 .. MaxUnpaid
    BY <1>1, <1>6, <2>1
  <2> QED
    BY <2>2, <2>4, <2>5 DEF BlocksAddUp
<1>9. PayType'
  BY <1>1, <1>7, <1>8 DEF PayInv, PayType
<1>10. BucketsCovered'
  <2>1. /\ balance[CoreSymbol][BlockPayer] >= buckets.perblock
        /\ balance[CoreSymbol][VotePayer] >= buckets.pervote
        /\ buckets.perblock \in Nat /\ buckets.pervote \in Nat
    BY DEF PayInv, PayType, BucketsCovered
  <2>2. p # BlockPayer /\ p # VotePayer
    BY PayersApart DEF Payers
  <2>3. balance'[CoreSymbol][BlockPayer] = balance[CoreSymbol][BlockPayer] + ToBlocks - BlockPay(p)
    BY <1>3, <1>4, <2>2, PayersApart DEF CoinsAfter
  <2>4. balance'[CoreSymbol][VotePayer] = balance[CoreSymbol][VotePayer] + ToVotes - VotePay(p)
    BY <1>3, <1>4, <2>2, PayersApart DEF CoinsAfter
  <2>5. balance'[CoreSymbol][BlockPayer] >= buckets'.perblock
    BY <1>4, <1>7, <2>1, <2>3, PayersApart
  <2>6. balance'[CoreSymbol][VotePayer] >= buckets'.pervote
    <3>1. VoteCost(p) \in Int /\ VotePay(p) <= VoteCost(p)
      BY <1>6, FilledFields
    <3> QED
      BY <1>4, <1>7, <2>1, <2>4, <3>1, PayersApart
  <2> QED
    BY <2>5, <2>6 DEF BucketsCovered
<1>11. ProducersBacked'
  <2>1. \A a \in Signers : a \in Accounts /\ balance'[CoreSymbol][a] >= balance[CoreSymbol][a]
    <3> SUFFICES ASSUME NEW a \in Signers
                 PROVE  a \in Accounts /\ balance'[CoreSymbol][a] >= balance[CoreSymbol][a]
      OBVIOUS
    <3>1. a \in Accounts /\ a \notin {Saving, BlockPayer, VotePayer}
      BY AccountsAssumption, PayersApart DEF Payers
    <3>2. balance'[CoreSymbol][a]
            = balance[CoreSymbol][a] + (IF a = p THEN BlockPay(p) + VotePay(p) ELSE 0)
      BY <1>3, <1>4, <3>1 DEF CoinsAfter
    <3> QED
      BY <1>4, <3>1, <3>2
  <2>2. \A a \in Accounts : producers[a].is_producer => a \in Signers
    BY DEF PayInv, Purses, ProducersBacked
  <2>3. \A a \in Accounts : balance'[CoreSymbol][a] \in Int
    BY <1>1, <1>3, SymbolAssumption DEF Purse, Balances
  <2> QED
    BY <1>1, <1>2, <1>4, <2>1, <2>2, <2>3, StillBacked DEF PayInv
<1> QED
  BY <1>2, <1>5, <1>8, <1>9, <1>10, <1>11 DEF PayInv

(***************************************************************************)
(* The tokens                                                              *)
(***************************************************************************)
Tokens == Conservation /\ Backed

\* Everything but the core token's holders begins empty.
LEMMA TokensInit ==
  ASSUME CoreFunded(System, MaxSupply)
  PROVE  Tokens
<1>1. ASSUME NEW s \in Symbols PROVE Total(balance[s], Accounts) = stat[s].supply
  <2>1. CASE s = CoreSymbol
    BY <2>1 DEF CoreFunded
  <2>2. CASE s # CoreSymbol
    <3>1. (\A a \in Accounts : balance[s][a] = 0) /\ stat[s].supply = 0
      BY <2>2 DEF CoreFunded, NoStat
    <3> QED
      BY <3>1, TotalZero
  <2> QED
    BY <2>1, <2>2
<1>2. \A s \in Symbols, a \in Accounts : balance[s][a] > 0 => a \in row[s]
  BY DEF CoreFunded
<1>3. \A s \in Symbols : stat[s].supply <= stat[s].max_supply
  BY SupplyAssumption DEF CoreFunded, NoStat
<1> QED
  BY <1>1, <1>2, <1>3 DEF Tokens, Conservation, Backed

\* Votes, blocks, days and rates move no tokens.
LEMMA TokensStill ==
  ASSUME PayInv, Tokens, UNCHANGED <<stat, balance, row>>
  PROVE  Tokens' /\ LockKept
<1>1. activity \in SUBSET Accounts /\ balance \in Balances
  BY AccountsAssumption DEF PayInv, Purses, Purse
<1>2. Fair(balance, row, balance', row')
  BY <1>1, FairStill
<1> QED
  BY <1>2, FairKeeps DEF Tokens

\* What holders send each other.
LEMMA TokensSent ==
  ASSUME PayInv, Tokens, NEW a \in Signers, NEW b \in Signers, NEW q \in Quantities,
         Transfer(a, b, CoreSymbol, q)
  PROVE  Tokens' /\ LockKept
<1>1. /\ activity \in SUBSET Accounts /\ balance \in Balances
      /\ row \in [Symbols -> SUBSET Accounts]
      /\ a \in Accounts /\ b \in Accounts /\ q \in Int
  BY AccountsAssumption, AmountAssumption DEF PayInv, Purses, Purse
<1>2. /\ stat' = stat
      /\ balance' = Moved(balance, CoreSymbol, a, b, q)
      /\ row' = RowsWith(row, CoreSymbol, b)
      /\ CanMove(balance, row, CoreSymbol, a, b, q)
  BY DEF Transfer
<1>3. Fair(balance, row, balance', row')
  BY <1>1, <1>2, FairMove
<1> QED
  BY <1>2, <1>3, FairKeeps DEF Tokens

\* A claim makes what it adds to the supply, up to the maximum, and its
\* transfers share that out.
LEMMA TokensClaimed ==
  ASSUME PayInv, Tokens, NEW p \in Signers, Claimrewards(p)
  PROVE  Tokens' /\ LockKept
<1>1. /\ Wallets(p).ok
      /\ stat' = [stat EXCEPT ![CoreSymbol].supply = @ + NewTokens]
      /\ balance' = Wallets(p).balance /\ row' = Wallets(p).row
      /\ activity' = activity
  BY DEF Claimrewards
<1>2. /\ CoreSymbol \in Symbols /\ System \in Accounts \ activity
      /\ activity \in SUBSET Accounts
      /\ balance \in Balances /\ stat \in [Symbols -> Stats]
      /\ NewTokens \in Nat
  BY AccountsAssumption, SymbolAssumption, PayersApart, NewTokensType
     DEF PayInv, Purses, Purse, Payers
<1> DEFINE made == Minted.balance
           held == Minted.row
<1>3. /\ Purse(Minted) /\ Fair(made, held, balance', row')
      /\ NewTokens > 0 => stat[CoreSymbol].supply + NewTokens <= stat[CoreSymbol].max_supply
  BY <1>1, MintedFields, WalletsDone
<1>4. made = Credited(balance, CoreSymbol, System, NewTokens)
  BY DEF Minted
<1>5. \A s \in Symbols \ {CoreSymbol} : held[s] = row[s]
  BY <1>2 DEF Minted, RowsWith, PayInv, Purses, Purse
<1>6. /\ Total(made[CoreSymbol], Accounts) = Total(balance[CoreSymbol], Accounts) + NewTokens
      /\ \A s \in Symbols \ {CoreSymbol} : made[s] = balance[s]
  BY <1>2, <1>4, CreditTotal
<1>7. \A a \in activity : made[CoreSymbol][a] = balance[CoreSymbol][a]
  BY <1>2, <1>4 DEF Credited, Balances
<1>8. /\ stat'[CoreSymbol].supply = stat[CoreSymbol].supply + NewTokens
      /\ stat'[CoreSymbol].max_supply = stat[CoreSymbol].max_supply
      /\ \A s \in Symbols \ {CoreSymbol} : stat'[s] = stat[s]
      /\ stat[CoreSymbol].supply \in Nat /\ stat[CoreSymbol].max_supply \in Nat
  BY <1>1, <1>2 DEF Stats
<1> HIDE DEF made, held
<1>9. Conservation'
  BY <1>2, <1>3, <1>6, <1>8 DEF Tokens, Conservation, Fair
<1>10. \A s \in Symbols, a \in Accounts : made[s][a] > 0 => a \in held[s]
  BY <1>3, <1>5, <1>6 DEF Purse, Tokens, Backed, made, held
<1>11. Backed'
  <2>1. \A s \in Symbols, a \in Accounts : balance'[s][a] > 0 => a \in row'[s]
    BY <1>3, <1>10 DEF Fair
  <2>2. \A s \in Symbols : stat'[s].supply <= stat'[s].max_supply
    BY <1>2, <1>3, <1>8 DEF Tokens, Backed
  <2> QED
    BY <2>1, <2>2 DEF Backed
<1>12. LockKept
  BY <1>3, <1>7 DEF LockKept, Fair
<1> QED
  BY <1>9, <1>11, <1>12 DEF Tokens

LEMMA TokensNext ==
  ASSUME PayInv, Tokens, [RewardsNext]_rewardVars
  PROVE  Tokens' /\ LockKept
<1>1. ASSUME NEW a \in Signers, NEW b \in Signers, NEW q \in Quantities,
             Transfer(a, b, CoreSymbol, q)
      PROVE  Tokens' /\ LockKept
  BY <1>1, TokensSent
<1>2. ASSUME NEW p \in Signers, Claimrewards(p)
      PROVE  Tokens' /\ LockKept
  BY <1>2, TokensClaimed
<1>3. CASE VoteActions
  BY <1>3, TokensStill
     DEF VoteActions, Regproducer, RegisterProducer, Unregprod, Rmvproducer, Makeprod,
         Regproxy, Restake, tokenVars
<1>4. CASE Day \/ UNCHANGED rewardVars
  BY <1>4, TokensStill DEF Day, tokenVars, rewardVars, votingVars
<1>5. CASE Blocks
  BY <1>5, TokensStill DEF Blocks, Onblock, votingVars, tokenVars
<1>6. ASSUME NEW r \in RateChanges, Setinflation(r[1], r[2], r[3])
      PROVE  Tokens' /\ LockKept
  BY <1>6, TokensStill DEF Setinflation, votingVars, tokenVars
<1> QED
  BY <1>1, <1>2, <1>3, <1>4, <1>5, <1>6 DEF RewardsNext, Traffic

(***************************************************************************)
(* The theorems                                                            *)
(***************************************************************************)
LEMMA PayInvNext ==
  ASSUME PayInv, [RewardsNext]_rewardVars
  PROVE  PayInv'
<1>0. Signers \subseteq Accounts /\ System \in Accounts
  BY AccountsAssumption, PayersApart
<1>1. CASE Traffic
  BY <1>1, VoteSteps, DayStep, TransferStep DEF Traffic
<1>2. CASE Blocks
  BY <1>0, <1>2, OnblockStep DEF Blocks
<1>3. ASSUME NEW p \in Signers, Claimrewards(p)
      PROVE  PayInv'
  BY <1>3, ClaimStep
<1>4. ASSUME NEW r \in RateChanges, Setinflation(r[1], r[2], r[3])
      PROVE  PayInv'
  BY <1>4, SetinflationStep
<1>5. CASE UNCHANGED rewardVars
  <2>1. /\ UNCHANGED <<stat, balance, row, activity, producers>> /\ UNCHANGED voteVars
        /\ UNCHANGED payVars
    BY <1>5 DEF rewardVars, votingVars, tokenVars, voteVars
  <2>2. VotingInv' /\ ProducersBacked'
    BY <2>1, VotesStay DEF PayInv, ProducersBacked
  <2> QED
    BY <2>1, <2>2, VoteKeepsMoney DEF PayInv, Purses
<1> QED
  BY <1>1, <1>2, <1>3, <1>4, <1>5 DEF RewardsNext

THEOREM RewardsSafety == RewardsSpec => []PayInv
BY PayInvInit, PayInvNext, PTL DEF RewardsSpec

\* Counters, buckets and rates keep their types: no claim takes more out of a
\* bucket, or more blocks, than are there.
THEOREM RewardsTypes == RewardsSpec => []RewardsTypeOK
<1>1. ASSUME PayInv PROVE RewardsTypeOK
  <2>1. unpaid \in [Accounts -> 0 .. MaxUnpaid]
    <3>1. unpaid \in [Accounts -> Nat] /\ totalUnpaid \in 0 .. MaxUnpaid /\ MaxUnpaid \in Nat
      BY <1>1, PayAssumption DEF PayInv, PayType
    <3>2. \A x \in Accounts : unpaid[x] <= totalUnpaid
      BY <1>1, <3>1, TotalBound, AccountsAssumption DEF PayInv, BlocksAddUp
    <3>3. \A x \in Accounts : unpaid[x] \in 0 .. MaxUnpaid
      BY <3>1, <3>2
    <3> QED
      BY <3>1, <3>3
  <2>2. inflation \in [rate : Nat, pay_factor : Nat \ {0}, vote_factor : Nat \ {0}]
    BY <1>1, PayAssumption DEF PayInv, PayType
  <2> QED
    BY <1>1, <2>1, <2>2 DEF PayInv, PayType, RewardsTypeOK
<1> QED
  BY <1>1, RewardsSafety, PTL

\* The blocks that are still to be paid add up to the total that claims divide
\* the bucket by.
THEOREM RewardsBlocks == RewardsSpec => []BlocksAddUp
<1>1. PayInv => BlocksAddUp
  BY DEF PayInv
<1> QED
  BY <1>1, RewardsSafety, PTL

\* The accounts that pay hold what the buckets promise.
THEOREM RewardsCovered == RewardsSpec => []BucketsCovered
<1>1. PayInv => BucketsCovered
  BY DEF PayInv
<1> QED
  BY <1>1, RewardsSafety, PTL

\* A block producer is locked and has the balance that makeprod asked for,
\* through transfers, claims, votes and changes of stake.
THEOREM RewardsBacked == RewardsSpec => []ProducersBacked
<1>1. PayInv => ProducersBacked
  BY DEF PayInv
<1> QED
  BY <1>1, RewardsSafety, PTL

\* Claims take the share of one producer out of the total, and its votes earn
\* shares again: the total is what the shares add up to, for every claim too.
THEOREM RewardsShares == RewardsSpec => []SharesAddUp
<1>1. PayInv => VotingInv
  BY DEF PayInv
<1> QED
  BY <1>1, SharesFollow, RewardsSafety, PTL

\* No transfer inside a claim fails, as long as the supply allows for the
\* inflation and createacc, to which nobody can send, is not the producer.
THEOREM RewardsPayable ==
  ASSUME Creator \notin Signers
  PROVE  RewardsSpec => []ClaimPayable
<1>1. ASSUME PayInv PROVE ClaimPayable
  <2> SUFFICES ASSUME NEW p \in Signers,
                      stat[CoreSymbol].supply + NewTokens <= stat[CoreSymbol].max_supply
               PROVE  Wallets(p).ok
    BY DEF ClaimPayable
  <2>1. Minted.ok
    BY <1>1, MintedFields
  <2> QED
    BY <1>1, <2>1, WalletsPossible
<1> QED
  BY <1>1, RewardsSafety, PTL
\* The supply stays the sum of the balances through every claim's new tokens and
\* transfers, never exceeds the maximum, and every balance has its row.
THEOREM RewardsToken == RewardsSpec => [](Conservation /\ Backed)
<1>1. RewardsInit => Tokens
  BY TokensInit DEF RewardsInit
<1>2. PayInv /\ Tokens /\ [RewardsNext]_rewardVars => Tokens'
  BY TokensNext
<1>3. RewardsSpec => []Tokens
  BY <1>1, <1>2, RewardsSafety, PTL DEF RewardsSpec
<1> QED
  BY <1>3, PTL DEF Tokens

\* No claim, and no transfer, takes INR from an active producer so that fewer
\* than Border whole INR remain.
THEOREM RewardsLock == RewardsSpec => ProducerLock
<1>1. PayInv /\ Tokens /\ [RewardsNext]_rewardVars => [LockKept]_tokenVars
  BY TokensNext
<1>2. RewardsSpec => []Tokens
  BY RewardsToken, PTL DEF Tokens
<1>3. ProducerLock <=> [][LockKept]_tokenVars
  BY PTL DEF ProducerLock, LockKept
<1> QED
  BY <1>1, <1>2, <1>3, RewardsSafety, PTL DEF RewardsSpec

\* Claims, blocks and transfers between them leave the votes in order: what is
\* counted, to whom it is forwarded, and that a stake may always change.
THEOREM RewardsVotes ==
  RewardsSpec => [](/\ VotingTypeOK /\ ProxiesEnd /\ VotesAddUp
                    /\ RestakeNeverRefused /\ ProxiedAddsUp)
<1>1. PayInv => /\ VotingTypeOK /\ ProxiesEnd /\ VotesAddUp
                /\ RestakeNeverRefused /\ ProxiedAddsUp
  BY VotesFollow, RestakeFollows, ProxiedFollows DEF PayInv
<1> QED
  BY <1>1, RewardsSafety, PTL
=============================================================================

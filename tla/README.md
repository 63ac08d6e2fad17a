# A specification of the inery contracts

The repository holds the system contracts of the Inery chain, a fork of the
EOSIO system contracts: `inery.token`, `inery.system`, `inery.msig`,
`inery.wrap` and `inery.bios` under `src/contracts`. This directory specifies
them in TLA+, checks the specifications with TLC on small instances, and proves
what matters most about the token, staking, the memory market, votes, rewards and
the multisignature with TLAPS for all instances.

A contract runs one transaction at a time. An action runs to its end or aborts
and leaves no trace, and so do the inline actions it sends. An action of the
specification is therefore one contract action with its inline actions, guarded
by every `check` that can stop it. What interleaves is the order of the
transactions of different accounts, the operator's actions, the blocks that pass
between them, and the *deferred* transactions that the contracts schedule, which
run later, on their own, once, and may fail or expire.

## The system

| Part | State | Operations | Works with |
|---|---|---|---|
| `inery.token` | `stat` (supply, maximum, issuer), `accounts` (balances) | create, issue, retire, transfer, open, close | reads `accountsact` of the system contract to lock a producer's INR; every other contract moves tokens by inline transfers |
| staking (`delegate_bandwidth.cpp`) | `delband`, `userres`, `refunds`, `voters.staked`, deferred refunds | delegatebw, undelegatebw, refund, `changebw` inside other actions | transfers to and from `inery.stake`; sets the chain's limits; recounts votes |
| resource limits (`inery.system.cpp`) | limits in the chain, managed flags of `voters` | setalimits, setacctmem, setacctnet, setacctcpu | staking and the market set the same limits |
| MEM market (`delegate_bandwidth.cpp`, `exchange_state.cpp`) | `memmarket`, the memory fields of `global`, `userres.mem_bytes` | buyresources, buymembytes, sellres, setmem, setmemrate | every purchase delegates stake, every sale withdraws it; transfers to and from `inery.mem` |
| producers and votes (`voting.cpp`) | `producers`, `producers2`, `voters`, `accountsact`, vote totals and activation in `global*` | regproducer(2), unregprod, rmvproducer, makeprod, regproxy | a vote asks the token for the voter's balance; `update_voting_power` is called by every change of stake |
| rewards (`producer_pay.cpp`, `update_elected_producers`) | buckets and counters of `global*`, `unpaid_blocks`, the proposed schedule | onblock, claimrewards, setinflation | divides the buckets by votes and blocks; issues tokens, pays from `inery.bpay` and `inery.vpay` |
| `inery.msig` | proposals, approvals, invalidations | propose, approve, unapprove, cancel, exec, invalidate | sends a deferred transaction |
| `inery.wrap` | none | exec | sends a deferred transaction |
| `inery.bios`, native actions | ABI hashes | pass their arguments to the chain | |

What makes each part correct, and where it is hard:

* **Token.** Supply and balances agree; the maximum holds; no row is dropped with
  tokens in it. The fork adds two rules that reach across contracts: an active
  producer keeps 50000 INR, read from a row of *another* token than the one that
  moves, and `createacc` may issue tokens but never receive them.
* **Staking.** The same stake is booked three times (`delband`, `userres`,
  `voters`), the same tokens are either staked, being refunded, or free, and
  `inery.stake` must cover the first two. Refund rows absorb new stake, restart
  their clock on new withdrawals, and are paid by a deferred transaction that
  other actions cancel, or by hand.
* **Limits.** Three kinds of actions set them; managed ones must not follow stake.
* **Market.** Memory and the tokens paid for it are conserved under two different
  roundings, a lazily growing supply and nested stake changes.
* **Votes.** In this fork `makeprod` is how one votes: a registered producer with
  50000 INR votes for itself, or gives its weight to a proxy. A weight grows with
  time and is counted again only when its owner does something, so the totals of
  producers and proxies are sums of weights of different days, and they are only
  ever moved by differences, along chains of proxies. Such chains must end, and no
  change of stake may be refused because of a vote cast long before. The shares of
  the vote pay lapse, and are dropped from their total by the first recount after.
* **Rewards.** Every claim first fills the buckets with the inflation since the
  claim before, whoever made it, and then takes its part by counters that other
  claims and blocks change. The buckets are numbers; the tokens lie elsewhere and
  move at the end by inline actions, each of which may take back the whole claim.
  The proposed schedule must follow the votes.
* **Multisignature.** Only what was approved runs, once, after the last moment of
  invalidation. `propose` keeps the requested levels as the list it is given, which
  may name a level twice: such a level is approved, taken back and invalidated entry
  by entry.

## The modules

| Module | Models |
|---|---|
| `Sums` | `Total(f, S)`, the sum of a function over a set, as the cardinality of a set of units; it needs no recursion, so it can be proved about |
| `Ledger` | the abstract specification of one token: holdings, what is issued, the cap; launch, mint, burn, pay |
| `Token` | `inery.token` |
| `Vault` | the abstract specification of staking: an account's tokens are free, locked or leaving |
| `Staking` | staking, refunds, deferred transactions and limits, on top of `Token` |
| `Depot` | the abstract specification of the memory market: what is for sale, what each account holds, the till |
| `MemMarket` | the MEM market, and the producer roles a sale depends on, on top of `Staking` |
| `Consent` | the abstract specification of a multisignature: slots with a transaction, who agrees to it, what is queued |
| `Multisig` | `inery.msig` |
| `Voting` | producers, votes, proxies, the vote totals and vote pay shares, on top of `Token` |
| `Rewards` | blocks, the proposed schedule, claims and inflation, on top of `Voting` |
| `SumTheorems`, `TokenProofs`, `StakingProofs`, `MemMarketProofs`, `VotingProofs`, `RewardsProofs`, `MultisigProofs` | theorems |
| `MCToken`, `MCStaking`, `MCMemMarket`, `MCMultisig`, `MCVoting`, `MCRewards` | the instances TLC checks |

`Staking` and `Voting` extend `Token`, `MemMarket` extends `Staking` and `Rewards`
extends `Voting`, as the contracts call each other: the helpers of `transfer` take
the tables as arguments, and so do `changebw` and `update_votes` (a record `t` of
the tables), so that one action of the specification can chain what one
transaction does: `Buymembytes` pays, delegates, sets limits and delegates once
more, each step on the tables the one before left, and aborts as a whole when a
later one fails. `Voted` leaves the old proxy, joins the new one and moves votes
in the same way, and `Wallets` is the sequence of the inline actions of a claim.

`Staking` and `Voting` are two views of one contract. `changebw` ends with
`update_voting_power`: `Voting!Restake` is a change of stake seen from the votes,
and `Staking` leaves the vote out. `RestakeNeverRefused` is what makes that
separation sound, since it says that the vote never stops the change of stake; a
vote moves no tokens either.

### How state corresponds

* An amount is a number of units of the token; `Precision` is 10000 in the code
  and 1 or 2 in the runs. `balance[s][a]` is 0 without a row, and `row[s]` says
  who has one.
* `activity` holds the accounts whose `accountsact` row says `is_active_prod`.
* `delband[<<from, to>>]`, `userres[to]`, `staked[owner]`, `refunds[owner]`: a row
  that is absent holds zeros. `userres` keeps a flag for the row because
  `setalimits` and `sellres` ask for it, and `voters` the accounts with a voter
  row, which `makeprod` asks for.
* Time passes in half-second slots. A refund row keeps its age rather than a
  date. `request_time` is cut to seconds, so a row written in the second half of
  a second is one slot old at once; the deferred transaction is not cut. The
  variable `half` is that half second; it is what makes the two clocks differ.
* `deferred[a]` is the number of slots until the refund transaction of `a` runs.
* `limits` are the three limits kept by the chain, -1 for unlimited.
* In `Voting` and `Rewards` the clock counts days, which is what weights, shares,
  buckets and claims depend on; the order of blocks and actions within a day is
  free. `voters` and `producers` hold whole rows there, `producers` those of
  `producers` and `producers2` together.
* A weight is an exact number, `Growth` of the day times the stake. `Growth` holds
  even numbers: the code ignores changes of a weight up to 1.0, and one unit of
  stake weighs 2^20 and more, so that a difference is nothing or more than 1.
* `propagate_weight_change` is recursive in the code; `Reached` is the set of
  accounts it visits, the smallest one that follows the proxies of accounts whose
  weight changed, and `Propagated` changes them all.
* `activity` is set by registering and by `makeprod`, cleared by `unregprod`, and
  left alone by `rmvproducer`.
* `fresh` says whether the block before looked at the schedule: the code does so
  when more than one slot has passed since it did. `missed` is a slot without a
  block. `proposed` is what was last passed to `set_proposed_producers`.
* `buckets.filled` is `NotStarted` until the first block after activation.
* `market` joins the `memmarket` row with the memory fields of the global state.
  `reserved` is an unsigned counter, taken modulo `Word`, and when memory is sold
  a `float`, of which `FloatFloor` keeps `FloatBits` bits.
* In `Multisig` a transaction is a model value with the set of permission levels
  that authorize it (`Needs`), which stands for `check_transaction_authorization`;
  a hash is the transaction it belongs to. Expirations and the time they are
  compared with are whole seconds (`Second`), the times of approvals and
  invalidations are slots, because several actions fall into one block.
* `requested` and `provided` are lists in the code, searched by level, in which only
  the order among equal levels matters. `requested[level]` is how often the level is
  left on the first, `provided[level]` the times of its entries on the second, in
  their order. `approve` moves one entry and stamps it (`Given`), `unapprove` moves
  the first one back (`TakenBack`); `exec` passes on every entry newer than the
  actor's invalidation, and the chain looks at the levels among them, so `Counted` is
  a set. Rows of the older table have the same form, with `Never` for each time.
* `agree` is a history variable: the levels that approved since their account last
  invalidated, and have not taken back each of their approvals. No table holds it;
  `ImplementsConsent` compares with it what `exec` computes from times.
* Operators marked *Fault* are not part of a specification. Each is a definition
  with a plausible mistake, and PROJECT.json names the property that finds it.

### Initial states

`Token` starts before any token exists. `Staking` starts with the core token
issued and handed out (`InitialFunds`), and with accounts made by `newaccount` (a
`userres` row and limits of 0) beside older ones (no row, unlimited). `MemMarket`
starts after `init`. `Multisig` starts empty or with a proposal of the contract's
first version, whose approvals have no times (`Legacy`). `Voting` and `Rewards`
start with the token handed out and stake held by some accounts; the `Founders`
have registered, and of them the `Incumbents` have voted for themselves. All of it
can be reached by their actions; starting there saves steps. `voting` has no
incumbents and starts before the chain is activated, the other two after it.

## The runs

| Run | Instance | Shows |
|---|---|---|
| `token` | 3 accounts, one of them createacc, 2 tokens with at most 3 units, amounts -1 to 2, a lock of 2 units | `TypeOK`, `Conservation`, `Backed`, `ProducerLock`, `ImplementsLedger` |
| `staking` | 2 holders with 2 units, delay of 2 slots, deferred transactions may expire | `StakeTypeOK`, `StakeTablesAgree`, `StakeBacked`, `RefundPayable`, `DeferredNotEarly`, `StakePaysDueRefunds`, `WithdrawalRestartsClock`, `ImplementsVault` |
| `staking_live` | 2 holders with 1 unit each | `RefundArrives` |
| `mem_market` | 14 units, memory at 3 bytes for 2 units, 8 bytes for sale | `MarketTypeOK`, `MemConserved`, `MemBacked`, `StakeTablesAgree`, `ImplementsDepot` |
| `mem_limits` | one account, limits -1 and 2 set by the operator | `MemLimitCovers`, `LimitsFollowStake`, `ManagedLimitsStay` |
| `multisig` | 1 proposer and name, 3 levels of 2 accounts, one of which a list may name twice, 2 transactions, 4 slots | `MsigTypeOK`, `RowsMatch`, `NoLevelLost`, `ImplementsConsent` |
| `voting` | 3 accounts with a unit each, two of them with stake; one stake changes by 1, one account may leave, all may be proxies; weights double after a day | `VotingTypeOK`, `ProxiesEnd`, `RestakeNeverRefused`, `VotesAddUp`, `ProxiedAddsUp`, `SharesAddUp` |
| `rewards` | 2 producers with stakes 1 and 2, one votes from the start and may leave and return; 3 days, a supply that inflation uses up | `RewardsTypeOK`, `BlocksAddUp`, `BucketsCovered`, `ClaimPayable`, `SharesAddUp`, `Conservation` |
| `schedule` | 2 producers that leave, return, move tokens and change their stake within a day | `ProducersBacked`, `ScheduleSettles` |

Three more runs end in a counterexample, each to a sentence of the repository that
the code does not keep. The findings in PROJECT.json quote the sentence.

* `staking_scheduled`: a refund that waits has a deferred transaction that pays
  it. Delegating to somebody else cancels it, and nothing sends it again; the owner
  has to sign `refund`.
* `mem_receiver`: the receiver of bought memory can sell it. It cannot when
  another account paid, because the sale withdraws stake that the receiver never
  delegated.
* `voting_proxy`: voting for a proxy leaves the votes of the proxy alone. They
  change at once, and lose what others had given the proxy before: what is
  propagated is the weight of the proxy's own stake.

Why the bounds are enough: two units let a stake be withdrawn in part, a refund
exist beside a stake, and net and cpu differ; two holders let one delegate to
the other with and without the transfer flag; a delay of two slots separates
"not yet due" from "due" and lets the half second decide. Three bytes for two
units make both directions of the market round. 14 units buy up all 8 bytes, so
the check for the last bytes is met; 16 slots of `SlotWord` never wrap
in these runs (below). One name is enough for `multisig`, since only
`invals` is shared between proposals and the name is used again after each
`cancel` and `exec`; four slots hold an approval before, in and after the slot of
an invalidation, on both sides of an expiration. Of a level named twice, one approval
may be older and one newer than an invalidation, and one given while the other is
still requested; the level named twice is one that both transactions need. The bounds on inputs are marked `BOUND` at
their constants. `MaxSince` and `MaxSupply` limit how long the market is idle and
how far the rate lets the supply grow.

In `voting` three accounts are the fewest in which a proxy itself uses a proxy, as
it may after it withdrew and took another; two days let a weight be counted before
and after it grew, with a share that lapses in between (`ShareLife` 1). One account
that leaves (`Leavers`) and one whose stake changes (`Stakers`) are enough, as the
third may use either as its proxy. The run is closed under the clock: `LastDay`
ends it, and `MaxStake` keeps the stake below 2.

In `rewards` three days let each producer claim twice, with shares that lapse in
between (`ShareLife` 2). `PayPrecision` over factors of 3 gives fractions in both
divisions, and stakes 1 and 2 give fractions of the vote bucket. The maximum supply
is what two fillings issue at most, to the last unit, so that `ClaimPayable` is
checked up to it. `MaxUnpaid` of 2 lets two producers share a block bucket and one
have it alone. In `schedule` `MaxElected` of 2 lets a schedule grow and shrink, and
nothing depends on the day.

## Fairness

`staking_live` assumes that blocks keep coming (`Tick`), and that a deferred
transaction that stays due gets into one of them (`RunDeferred`). Both are the
chain's part. Nobody is obliged to sign anything, so `refund` has no fairness,
and the run excludes expiry, which nothing in the contract can prevent.
`RefundArrives` says "unless the owner's stake changes first" because
`staking_scheduled` shows that such a change may cancel the payment.

`schedule` assumes that blocks keep coming, each of which runs `onblock`
(`WF(Blocks)`). Whose block it is and whether slots are missed is left open.
`ScheduleSettles` is about votes that come to rest: then blocks alone bring the
schedule in line with them, in at most two blocks. A block of the system account
has no producer row, so that blocks go on when `MaxUnpaid` is reached; they do on
the chain as well, where only the count would be higher. Voters, claims and the
operator have no fairness.

## What is proved

`SumTheorems` proves the facts about `Total` that the others cite: its type, that
equal functions have equal totals, what changing one or two entries does, and that
the total of a sum is the sum of the totals.

`TokenProofs` proves, for every finite set of accounts, all symbols, amounts and
bounds:

* `TokenTypes`, `TokenConserves`, `TokenBacked`: the invariants of the run. They
  are inductive together (`TokenInv`): the cap in `Backed` needs that `supply` is
  a natural number, and that `retire` keeps it one needs `Conservation`, since
  the code never compares the retired amount with the supply.
* `TokenKeepsLock`: the action property `ProducerLock`.
* `TokenImplementsLedger`: every token is a `Ledger`.

The specifications on top of `Token` do several transfers in one step, so their steps
are not steps of `Token`. What they keep of its promises goes through `Fair`, a
relation between the tables before and after: every total is the same, nobody holds
tokens without a row, and no active producer has less than before and less than the
border. A transfer is fair (`FairMove`), fair steps in a row are (`FairChain`), and a
fair step keeps `Conservation`, `Backed` and `ProducerLock` (`FairKeeps`). The lock
survives a transaction of several transfers because each of them checks it.

Assumptions of `TokenProofs`: accounts are finitely many, `NoIssuer` is none of them, amounts are
integers and `Precision` is positive.

`MultisigProofs` proves, for any proposers, names, levels, accounts, transactions
and what they need:

* `MultisigTypes`, `MultisigRowsMatch`, `MultisigKeepsLevels`: the invariants of
  the run and its action property, for lists that name levels any number of times.
* `MultisigImplementsConsent`: the contract implements `Consent`, for the same lists. A
  level agrees as long as one of its approvals is left, so that an `unapprove` that
  leaves another is a stutter of `Consent`.
* `MultisigRevokes`: if every list names a level at most once, then `unapprove` leaves
  nothing of it, as the header says (`UnapproveRevokes`). For other lists it is false;
  see the observations.

The invariant (`MsigInv`) has three parts beside the types: the tables match
(`Together`), a row names each level as often as some list does (`Listed`), and what
`exec` counts was agreed to (`CountedAgree`). The step of `exec` needs the last, and
that is inductive only beside the types: an approval of a later slot would survive an
invalidation. `Given` and `TakenBack` move one entry of one level (`GivenRow`,
`TakenBackRow`); a level has something left after `unapprove` only if it had before.

Its assumptions are that the two model values for "no row" and "no transaction"
are neither rows nor transactions, and that a list names each level a natural number
of times.

`StakingProofs` proves, for all accounts, amounts, delays and gifts of memory, every
safety property of the staking runs. The invariant (`Sound`) is stated of a record
of the tables, because `changebw` is, with the managed flags beside it. Its core:

* every account's `staked` is the sum of what it delegates, and the net and cpu of
  `userres` the sums of what an account is given (two sums over one table, so a
  change of a row changes one term of each);
* `inery.stake` holds the sum of all stakes and refunds. `changebw` moves three
  numbers at once: what it transfers is exactly what stake and refund grow by
  together (`Held`), netted resource by resource;
* a deferred transaction is never closer than its row is to being due.

`StakingToken` and `StakingLock` say that stakes and refunds keep `Conservation`,
`Backed` and `ProducerLock`: `changebw`, its transfers and a refund are fair.

A trade of memory delegates in its middle, when a limit lags behind; `SoundBut`
is `Sound` without that limit, and is what `changebw` is shown to keep.
`StakingVault` is the refinement: each of the actions is a `Vault` step on free,
locked and leaving tokens. `StakingPayable` assumes that `createacc` does not stake
(it can never be paid a refund, see below).

`MemMarketProofs` extends it to the market, for all prices, supplies and rates:
`MarketTypeOK`, `MemConserved`, `MemBacked`, `MemLimitCovers`, and the invariant of
staking through every nested change of stake. The step that carries them is that a
purchase and a sale move `base` and `mem_bytes`, and `stake` and the till, by the same
numbers, and that both roundings favour the till. Then:

* `MarketTypes` needs that `FloatFloor`, which chooses an exponent at which a quotient
  fits, is a number. Such an exponent exists because `2^n > n`; the provers know no
  powers, but the library counts subsets, and a set of `n` elements has more subsets
  than elements (`PowerOfTwo`).
* All that is proved of staking holds with the market beside it, except its
  refinement (below): `MarketStakeTypes`, `MarketNotEarly`, `MarketPayable`,
  `MarketManaged`, `MarketClock`, `MarketPays`, and `MarketToken` and `MarketLock` of
  the token. Every step is a trade or a step of `StakeNext` (`TradeOrStaking`), so only
  trades are new. A trade is `Careful`: it is fair, takes nothing from `inery.stake`, no
  managed limit moves, and a refund that grows starts its clock again. Each of the
  pieces of a trade is careful, and so is their sequence.
* `MarketDepot` is the refinement: every purchase is a sale out of a `Depot`, every
  sale is taken back by it, and nothing else touches its stock but `setmem` and the
  growth of the supply. It says of one trade what `MemBacked` says of the sum: the price
  of the bytes is charged at least, and paid at most, to a single account. What makes
  each sale possible at all is part of it: the till holds what is paid.

A trade is several steps of a `Vault`, which transfers, locks and frees once at a time,
so that `ImplementsVault` is a property of `Staking` alone.

`VotingProofs` proves `ProxiesEnd`, `RestakeNeverRefused`, `VotesAddUp`,
`ProxiedAddsUp` and `SharesAddUp` for any number of accounts and any growth of
weights. They need each other: a vote is checked only while its weight is not
negative, and it never is because what a proxy was given is a sum of weights; it
stays that sum because a change travels along a chain in which nobody occurs twice;
and that is because proxies end. `Ends` says it of sets (every group of accounts has
one whose proxy is outside or none), which needs no induction along the chain.

`SharesAddUp` is the part `Paid` of the same invariant, which says it of every
producer: what has accrued up to now (`Shares`) and the votes that still earn
(`Rates`). A recount, a lapse or a claim adds to the total what it adds to the row of
one producer (`PaidChange`), so the cuts at 0 in the code never bite; on a new day
every live share grows by its votes, and the total by the rate (`PaidDay`, which needs
the total of a sum).

Their assumptions, beyond those of the modules: accounts are finitely many.

`RewardsProofs` proves `BlocksAddUp`, `BucketsCovered`, `ProducersBacked`,
`ClaimPayable` and, with claims, `SharesAddUp` for all rates, factors, supplies and
growths of weights. Its invariant (`PayInv`) joins `VotingInv` with typed balances,
whose issuer is the system account (`Purses`), and typed counters (`PayType`):

* a claim takes the parts `unpaid / totalUnpaid` and `votes / weight` of the
  buckets. Each is at most the bucket because the total is a sum that contains the
  counter: `BlocksAddUp` for the one, `Tallied` of the votes for the other;
* the account behind a bucket loses the vote pay rounded down and the bucket loses
  it rounded up, so that it stays covered (`Fraction`);
* six inline actions are followed one by one (`SentDone`): `CoinsAfter` is what each
  account holds in the end. In the other direction (`WalletsPossible`) each can be
  done because the buckets are covered and no payer is locked;
* a producer's lock is on (`activity`), so that a transfer cannot take it below the
  border, and no vote, recount or change of stake touches `is_producer` or the lock.

`RewardsToken`, `RewardsLock` and `RewardsVotes` carry over what claims could break
elsewhere. A claim changes the supply, so it is fair only from the issue on: the issue
adds the same number to the supply and to one balance, below the maximum, and the five
transfers after it are fair. `RewardsVotes` gives `VotingTypeOK`, `ProxiesEnd`,
`VotesAddUp`, `RestakeNeverRefused` and `ProxiedAddsUp` of the composed system.

The assumptions say that the issuer has issued what the holders start with, that the
paying accounts are distinct, are not `createacc` and sign nothing, and that the
factors are at least the precision, which `setinflation` checks. `RewardsPayable`
assumes that `createacc` signs nothing either, since nobody can send to it.

Only model-checked: `RefundArrives` and `ScheduleSettles`, which are liveness under
fairness, and the three counterexamples. Every other property of a run is a theorem of
the specification that the run checks.

## Left out

* Memos, symbol precision, table payers, notifications, and the 2^62 bound of
  `asset` (amounts stay below it because the supply does).
* The vote that `changebw` repeats, in `Staking`: see `Voting` above.
* The rounding of doubles: weights, shares and the division of the vote bucket are
  exact. In the code a total may differ from its sum by rounding.
* `tokens_claim` (nothing reads it), the branch of `claimrewards` for a `revision`
  above 0 (nothing sets it), and the order of the proposed schedule.
* Producer keys, urls and locations, and producer rows of earlier versions.
* `b1`'s vesting curve: `VestedFloor` stands for what it may not claim yet.
* The fractions of a byte in the computation of the reserved counter.
* In `inery.msig`, how the chain computes an authority from keys, weights and linked
  permissions. That it takes the levels it is given as a set is an assumption about the
  chain, whose code is not in this repository.
* `inery.wrap` keeps no table: its one action sends a deferred transaction.
* `newaccount` and `init` are the initial states of `Staking` and `MemMarket`.
* Native actions without a body, `setabi`, `setparams`, `setpriv`, `activate`,
  `inery.bios`: they hand their arguments to the chain or store a hash.

## Observations

What else the modelling met. Most of it no comment, document or test contradicts;
where one does, it is named.

* A producer that holds INR and another token cannot move the other token
  without an INR row: the lock reads the row of the core token whatever moves
  (`inery.token.cpp:146`).
* A refund of `createacc` can never be paid, as no transfer to it is allowed
  (`inery.token.cpp:117`).
* The `reserved` counter of the market can pass the maximum supply, since it is added
  to and subtracted from with different roundings (`delegate_bandwidth.cpp:75`, `:144`).
  It is taken modulo `Word`, so `MarketTypeOK` says nothing of its size.
* The growth of the supply is a 32-bit product of slots and rate, which wraps when
  the market is idle long enough (`inery.system.cpp:92`); `SlotWord` models it.
* The stake that activates the chain is counted at an account's first vote and not
  taken back when it is withdrawn (`voting.cpp:284`). The comment above that line says
  that stake cannot be withdrawn before the activation; nothing in `undelegatebw`
  prevents it.
* `unapprove` "is the reverse of the `approve` action": the level "is erased from
  internal `provided_approvals`", and thus revoked (`inery.msig.hpp:55`). `propose`
  accepts a list that names a level twice (`inery.msig.cpp:53`). Such a level may
  approve twice; `unapprove` erases its first entry only (`:100`), the level is still
  provided, and `exec` counts it. So `UnapproveRevokes` is false of the code in four
  steps (propose, approve, approve, unapprove), and `ImplementsConsent` lets a level
  agree until it has taken back all its approvals. `invalidate` does revoke them all.
* `inery.msig.hpp:84` has as a precondition of `exec` that all requested approvals are
  received. The code asks the chain whether those that count authorize the transaction
  (`inery.msig.cpp:177`) and never looks at the requested ones that are left: who was
  asked but is not needed need not have approved.
* `inery.msig.hpp:86` has as a precondition of `exec` that the approving accounts are
  not found in the invalidations table. The code compares times
  (`inery.msig.cpp:160`): an account that invalidated once counts again with its next
  approval, which is what `ImplementsConsent` is about. For rows of the older table,
  which have no times, the sentence is what the code does (`:170`).
* The ricardian clause of `undelegatebw` (`inery.system.contracts.md.in:371`) takes the
  quantities off the vote weight of the receiver. The code, the model and the clause of
  `delegatebw` say it of the account that delegates.
* `rmvproducer` leaves the token's lock on the producer's balance, which only
  `unregprod` lifts; `ProducersBacked` is an implication for that reason.
* The size of the last schedule, which once kept a schedule from shrinking, is
  never assigned (`voting.cpp:147`).

## The plan

1. `Token`, `Staking`, `MemMarket`, `Multisig`, `Voting`, `Rewards`: done, with
   proofs of every safety property the runs check.
2. The memory market beside rewards and votes: both extend `Token`, and what each
   needs of the other is that it is fair.

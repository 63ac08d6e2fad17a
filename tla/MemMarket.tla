------------------------------ MODULE MemMarket ------------------------------
(***************************************************************************)
(* The MEM market of the inery.system contract: buying and selling memory  *)
(* at the fixed price of BytesPerINR bytes for Precision units, the stake  *)
(* that every purchase delegates and every sale withdraws, and the growth  *)
(* of the supply. Only the part of the producers table that sellres reads  *)
(* is kept: who has a row, and whose row says is_producer.                 *)
(*                                                                         *)
(* The reserved counter is a uint64_t modulo Word, computed in double and, *)
(* when selling, in float, of which the model keeps FloatBits of mantissa; *)
(* a fraction below one byte is dropped before rounding.                   *)
(***************************************************************************)
EXTENDS Staking

CONSTANTS
    MemAccount,     \* inery.mem; it signs nothing by itself
    BytesPerINR,    \* 1024 * 1024
    InitialMax,     \* max_mem_size at init (505 TB)
    InitialBase,    \* base of the market at init (353.5 TB)
    InitialQuote,   \* quote of the market at init (supply / 1000)
    MaxRealistic,   \* bound setmem puts on max_mem_size (1 PB)
    Word,           \* 2^64, the range of total_mem_bytes_reserved
    SlotWord,       \* 2^32, the range of a product with a block slot
    FloatBits,      \* bits of a float's mantissa (24)
    Buys,           \* BOUND: quantities passed to buyresources
    Bytes,          \* BOUND: bytes passed to buymembytes and sellres
    MemSizes,       \* BOUND: sizes passed to setmem
    Rates,          \* BOUND: rates passed to setmemrate
    MaxSince,       \* BOUND: slots between two updates of the supply
    MaxSupply       \* BOUND: size of the supply that the rate may grow it to

ASSUME MemAccountAssumption == MemAccount \in Accounts \ (Signers \cup {StakeAccount})
ASSUME MarketAssumption ==
    /\ BytesPerINR \in Nat \ {0} /\ FloatBits \in Nat \ {0}
    /\ {InitialMax, InitialBase, InitialQuote, MaxSince, MaxSupply, MaxRealistic} \subseteq Nat
    /\ InitialBase \in 1 .. InitialMax
    /\ Word \in Nat \ {0} /\ SlotWord \in Nat \ {0}
    /\ Buys \cup Bytes \cup MemSizes \subseteq Int /\ Rates \subseteq Nat

VARIABLES
    market,     \* memmarket row and memory fields of the global state
    producers   \* account -> its row in the producers table, as sellres sees it

memVars == <<market, producers>>
systemVars == <<allVars, memVars>>

(***************************************************************************)
(* The market                                                              *)
(***************************************************************************)
\* Fault: a byte too many is sold when the division leaves a rest.
BytesForUp(q) == (q * BytesPerINR + Precision - 1) \div Precision

\* direct_convert, both ways; a sale pays whole INR for whole INR worth of bytes.
BytesFor(q) == (q * BytesPerINR) \div Precision

\* Fault: a started INR's worth of bytes is paid in full.
ProceedsUp(bytes) == ((bytes + BytesPerINR - 1) \div BytesPerINR) * Precision

ProceedsOf(bytes) == (bytes \div BytesPerINR) * Precision

\* Fault: the new memory is not put up for sale.
SuppliedApart(m) == [m EXCEPT !.max = @ + ((m.since * m.rate) % SlotWord), !.since = 0]

\* update_mem_supply: the product of two unsigned numbers may wrap around.
Supplied(m) ==
    LET new == (m.since * m.rate) % SlotWord
    IN [m EXCEPT !.max = @ + new, !.base = @ + new, !.since = 0]

\* num/den as a float, cut to an integer.
FloatFloor(num, den) ==
    LET fits(n) == num < den * 2 ^ (FloatBits + n)
        k == CHOOSE n \in 0 .. num : fits(n) /\ \A m \in 0 .. n - 1 : ~fits(m)
    IN IF k = 0 THEN num \div den
       ELSE ((2 * num + den * 2 ^ k) \div (2 * den * 2 ^ k)) * 2 ^ k

Bought(m, q) ==
    [m EXCEPT !.base = @ - BytesFor(q),
              !.quote = @ + q,
              !.reserved = (@ + (BytesFor(q) * m.max) \div m.base) % Word,
              !.stake = @ + q]

Sold(m, bytes) ==
    LET base == m.base + bytes
        whole == (bytes \div BytesPerINR) * BytesPerINR
    IN [m EXCEPT !.base = base,
                 !.quote = @ - ProceedsOf(bytes),
                 !.reserved = (@ - FloatFloor(whole * m.max, base)) % Word,
                 !.stake = @ - ProceedsOf(bytes)]

(***************************************************************************)
(* buyresources, on the tables t and the market m                          *)
(***************************************************************************)
\* Fault: the row is made anew although it is there.
WithMemAnew(t, a, bytes) ==
    [t EXCEPT !.userres[a] = [row |-> TRUE, net |-> 0, cpu |-> 0, mem |-> @.mem + bytes]]

WithMem(t, a, bytes) ==
    [t EXCEPT !.userres[a] = [t.userres[a] EXCEPT !.row = TRUE, !.mem = @ + bytes]]

\* Fault: the other limits are the ones read before stake changed them.
WithMemLimitStale(t, a, mem) ==
    IF "mem" \in managed[a] THEN t
    ELSE [t EXCEPT !.limits[a] = [limits[a] EXCEPT !.mem = mem + MemGift]]

WithMemLimit(t, a, mem) ==
    IF "mem" \in managed[a] THEN t ELSE [t EXCEPT !.limits[a].mem = mem + MemGift]

\* The stake delegated with a purchase, net and cpu alike.
StakeFor(bytes) == (bytes * Precision) \div BytesPerINR

Charged(t, payer, receiver, q) ==
    WithMem(Paid(t, payer, MemAccount, q), receiver, BytesFor(q))

\* Fault: what is for sale is not compared with what is bought.
CanBuyAny(t, m, payer, receiver, q) ==
    LET stake == StakeFor(BytesFor(q)) IN
    /\ q > 0 /\ BytesFor(q) > 0
    /\ CanPay(t, payer, MemAccount, q)
    /\ CanDelegate(Charged(t, payer, receiver, q), payer, receiver, stake, stake, FALSE)

CanBuy(t, m, payer, receiver, q) ==
    LET bytes == BytesFor(q) stake == StakeFor(bytes) IN
    /\ q > 0
    /\ CanPay(t, payer, MemAccount, q)
    /\ m.base - bytes > bytes
    /\ bytes > 0
    /\ CanDelegate(Charged(t, payer, receiver, q), payer, receiver, stake, stake, FALSE)

AfterBuy(t, payer, receiver, q) ==
    LET stake == StakeFor(BytesFor(q))
        new   == Changed(Charged(t, payer, receiver, q), payer, receiver, stake, stake, FALSE)
    IN WithMemLimit(new, receiver, new.userres[receiver].mem)

(***************************************************************************)
(* The market's actions                                                    *)
(***************************************************************************)
Buyresources(payer, receiver, q) ==
    /\ CanBuy(Tables, Supplied(market), payer, receiver, q)
    /\ Become(AfterBuy(Tables, payer, receiver, q))
    /\ market' = Bought(Supplied(market), q)
    /\ UNCHANGED <<stat, activity, managed, half, producers>>

\* It buys for the price of the bytes, and delegates that price once more.
Buymembytes(payer, receiver, bytes) ==
    LET price == ProceedsOf(bytes)
        new   == AfterBuy(Tables, payer, receiver, price)
    IN /\ CanBuy(Tables, Supplied(market), payer, receiver, price)
       /\ CanDelegate(new, payer, receiver, price, price, FALSE)
       /\ Become(Changed(new, payer, receiver, price, price, FALSE))
       /\ market' = Bought(Supplied(market), price)
       /\ UNCHANGED <<stat, activity, managed, half, producers>>

Sellres(a, bytes) ==
    LET out  == ProceedsOf(bytes)
        left == WithMem(Tables, a, -bytes)
        new  == Changed(left, a, a, -out, -out, FALSE)
        mem  == userres[a].mem - bytes
    IN /\ bytes > 0
       /\ producers[a] # "none"
       /\ producers[a] = "producing" => mem > BytesPerINR
       /\ userres[a].row
       /\ mem >= 0
       /\ out > 1
       /\ Sold(Supplied(market), bytes).stake >= 0
       /\ CanUndelegate(left, a, a, out, out)
       /\ CanPay(new, MemAccount, a, out)
       /\ Become(Paid(WithMemLimit(new, a, mem), MemAccount, a, out))
       /\ market' = Sold(Supplied(market), bytes)
       /\ UNCHANGED <<stat, activity, managed, half, producers>>

\* The operator's actions. setmem does not bring the supply up to date first.
Setmem(size) ==
    /\ market.max < size
    /\ size < MaxRealistic
    /\ size > market.reserved
    /\ market' = [market EXCEPT !.max = size, !.base = @ + size - market.max]
    /\ UNCHANGED <<allVars, producers>>

Setmemrate(rate) ==
    /\ market' = [Supplied(market) EXCEPT !.rate = rate]
    /\ UNCHANGED <<allVars, producers>>

(***************************************************************************)
(* The producers table, as far as sellres reads it                         *)
(***************************************************************************)
Regproducer(a) ==
    /\ producers' = [producers EXCEPT ![a] = IF @ = "none" THEN "registered" ELSE @]
    /\ RegisterProducer(a)
    /\ UNCHANGED <<stakeVars, market>>

Unregprod(a) ==
    /\ producers[a] # "none"
    /\ producers' = [producers EXCEPT ![a] = "registered"]
    /\ activity' = activity \ {a}
    /\ UNCHANGED <<stat, balance, row, stakeVars, market>>

\* The operator takes the flag away and leaves the lock.
Rmvproducer(a) ==
    /\ producers[a] # "none"
    /\ producers' = [producers EXCEPT ![a] = "registered"]
    /\ UNCHANGED <<allVars, market>>

\* Voting for nobody is enough, but takes a row in the voters table.
Makeprod(a) ==
    /\ producers[a] # "none"
    /\ a \in voters
    /\ a \in row[CoreSymbol] /\ balance[CoreSymbol][a] \div Precision >= Border
    /\ producers' = [producers EXCEPT ![a] = "producing"]
    /\ activity' = activity \cup {a}
    /\ UNCHANGED <<stat, balance, row, stakeVars, market>>

(***************************************************************************)
(* The specification                                                       *)
(***************************************************************************)
MemInit ==
    /\ StakeInit
    /\ market = [base |-> InitialBase, quote |-> InitialQuote, max |-> InitialMax,
                 reserved |-> 0, stake |-> 0, rate |-> 0, since |-> 0]
    /\ producers = [a \in Accounts |-> "none"]

MarketTick ==
    /\ Tick
    /\ market.since < MaxSince
    /\ market.rate > 0 => market.max + (market.since + 1) * market.rate <= MaxSupply
    /\ market' = [market EXCEPT !.since = @ + 1]
    /\ UNCHANGED producers

MarketActions ==
    \/ \E payer \in Signers, receiver \in Receivers :
          \/ \E q \in Buys : Buyresources(payer, receiver, q)
          \/ \E b \in Bytes : Buymembytes(payer, receiver, b)
    \/ \E a \in Signers, b \in Bytes : Sellres(a, b)

OperatorActions ==
    \/ \E size \in MemSizes : Setmem(size)
    \/ \E rate \in Rates : Setmemrate(rate)

ProducerActions ==
    \E a \in Signers : Regproducer(a) \/ Unregprod(a) \/ Rmvproducer(a) \/ Makeprod(a)

StakingStep ==
    /\ \/ StakeActions
       \/ \E a \in Signers : Refund(a)
       \/ \E a \in Accounts : RunDeferred(a)
       \/ LimitActions
    /\ UNCHANGED memVars

MemNext ==
    \/ MarketActions
    \/ OperatorActions
    \/ ProducerActions
    \/ StakingStep
    \/ MarketTick

MemSpec == MemInit /\ [][MemNext]_systemVars

(***************************************************************************)
(* Properties                                                              *)
(***************************************************************************)
MemSold == Total([a \in Accounts |-> userres[a].mem], Accounts)

\* The market and the producers table hold values of their types; the market
\* never runs out and its reserves never become negative.
MarketTypeOK ==
    /\ market \in [base : Nat \ {0}, quote : Nat, max : Nat, reserved : 0 .. Word - 1,
                   stake : Nat, rate : Nat, since : 0 .. MaxSince]
    /\ producers \in [Accounts -> {"none", "registered", "producing"}]

\* Memory is conserved: what is for sale and what accounts hold grow together
\* with the supply, whatever is bought, sold, rounded or added by setmem.
MemConserved == market.base + MemSold = market.max - (InitialMax - InitialBase)

\* inery.mem can always pay back what was paid for memory, the market's reserve
\* moves with that amount, and all memory sold could be sold back for it: the
\* check "this shouldn't happen" of sellres never stops anybody.
MemBacked ==
    /\ balance[CoreSymbol][MemAccount] >= market.stake
    /\ market.quote = InitialQuote + market.stake
    /\ market.stake * BytesPerINR >= MemSold * Precision

\* The market is a depot: each purchase charges at least the price of the bytes it
\* books, each sale pays at most the price of the bytes it takes from the seller,
\* both on one account, and nothing else moves bytes, the stake or the base down.
Trader == INSTANCE Depot WITH
    Holders <- Accounts,
    Lot     <- BytesPerINR,
    Price   <- Precision,
    stock   <- market.base,
    held    <- [a \in Accounts |-> userres[a].mem],
    till    <- market.stake

ImplementsDepot == Trader!Init /\ [][Trader!Next]_(Trader!vars)

\* An account whose memory is not managed may use at least what it has bought,
\* however buying, staking, selling and the operator's changes interleave.
MemLimitCovers ==
    \A a \in Accounts :
        (userres[a].row /\ "mem" \notin managed[a])
            => limits[a].mem = Unlimited \/ limits[a].mem >= userres[a].mem

\* "only the receiver may reclaim the tokens via the sellres action"
\* (delegate_bandwidth.cpp): a registered receiver can sell what it was bought.
ReceiverCanSell ==
    \A a \in Receivers :
        (producers[a] = "registered" /\ userres[a].mem >= BytesPerINR)
            => ENABLED Sellres(a, BytesPerINR)
=============================================================================

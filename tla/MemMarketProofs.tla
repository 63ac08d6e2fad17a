--------------------------- MODULE MemMarketProofs ---------------------------
(***************************************************************************)
(* The MEM market, for every set of accounts, all prices, amounts, rates   *)
(* and supplies: memory is conserved, inery.mem can pay back all that was  *)
(* paid, a limit covers what was bought, and the invariant of staking      *)
(* survives purchases and sales, which change stake in their middle.       *)
(*                                                                         *)
(* The market's row m and the tables t are taken together, since a trade   *)
(* changes both.                                                           *)
(***************************************************************************)
EXTENDS MemMarket, StakingProofs, WellFoundedInduction

Mems(t) == [a \in Accounts |-> t.userres[a].mem]
SoldOn(t) == Total(Mems(t), Accounts)
TillOn(t) == t.balance[CoreSymbol][MemAccount]

\* The fields of the market.
Shaped(m) ==
    m \in [base : Nat \ {0}, quote : Nat, max : Nat, reserved : 0 .. Word - 1,
           stake : Nat, rate : Nat, since : 0 .. MaxSince]

Conserved(m, t) == m.base + SoldOn(t) = m.max - (InitialMax - InitialBase)

Funded(m, t) ==
    /\ TillOn(t) >= m.stake
    /\ m.quote = InitialQuote + m.stake
    /\ m.stake * BytesPerINR >= SoldOn(t) * Precision

Good(m, t) == Shaped(m) /\ Conserved(m, t) /\ Funded(m, t)

\* The memory limit of an account covers its memory, but for those in X.
Covers(t, f, X) ==
    \A a \in Accounts \ X : (t.userres[a].row /\ "mem" \notin f[a]) =>
        t.limits[a].mem = Unlimited \/ t.limits[a].mem >= t.userres[a].mem

MarketInv ==
    /\ StakingInv
    /\ Good(market, Tables)
    /\ Covers(Tables, managed, {})

(***************************************************************************)
(* The value of a float                                                    *)
(***************************************************************************)
\* A set of natural numbers has a least element.
LEMMA Least ==
  ASSUME NEW S, S \subseteq Nat, S # {}
  PROVE  \E n \in S : \A m \in S : n <= m
<1>1. PICK n \in S : \A m \in S : ~(<<m, n>> \in OpToRel(<, Nat))
  BY NatLessThanWellFounded, WFMin
<1>2. n \in Nat
  OBVIOUS
<1>3. ASSUME NEW m \in S PROVE n <= m
  <2>1. m \in Nat /\ ~(<<m, n>> \in OpToRel(<, Nat))
    BY <1>1
  <2>2. ~(m < n)
    BY <1>2, <2>1 DEF OpToRel
  <2>3. m \in Nat
    OBVIOUS
  <2> QED
    BY <1>2, <2>2, <2>3
<1> QED
  BY <1>3

\* A power of two is a number larger than its exponent: a set of n has more
\* subsets than elements.
LEMMA PowerOfTwo ==
  ASSUME NEW n \in Nat
  PROVE  2 ^ n \in Nat /\ 2 ^ n > n
<1> DEFINE S == 1 .. n
           f == [x \in S |-> {x}]
           T == {f[x] : x \in S}
<1>1. IsFiniteSet(S) /\ Cardinality(S) = n
  BY FS_Interval
<1>2. IsFiniteSet(SUBSET S) /\ Cardinality(SUBSET S) = 2 ^ n
  BY <1>1, FS_SUBSET
<1>3. Cardinality(SUBSET S) \in Nat
  BY <1>2, FS_CardinalityType
<1>4. f \in Bijection(S, T)
  <2>1. f \in [S -> T]
    OBVIOUS
  <2>2. \A x, y \in S : f[x] = f[y] => x = y
    OBVIOUS
  <2> HIDE DEF S, f
  <2> QED
    BY <2>1, <2>2 DEF Bijection, Injection, Surjection, IsInjective
<1>5. \A U \in T : U \subseteq S /\ U # {}
  OBVIOUS
<1>6. T \in SUBSET (SUBSET S) /\ T # SUBSET S
  <2>1. {} \in SUBSET S /\ {} \notin T
    BY <1>5
  <2> HIDE DEF T
  <2> QED
    BY <1>5, <2>1
<1> HIDE DEF S, f, T
<1>7. IsFiniteSet(T) /\ Cardinality(T) = n
  BY <1>1, <1>4, FS_Bijection DEF ExistsBijection
<1>8. Cardinality(T) < Cardinality(SUBSET S)
  BY <1>2, <1>3, <1>6, <1>7, FS_Subset
<1> QED
  BY <1>2, <1>3, <1>7, <1>8

\* An exponent at which the quotient fits exists, so the float is a number.
LEMMA FloatFloorType ==
  ASSUME NEW num \in Nat, NEW den \in Nat, den > 0
  PROVE  FloatFloor(num, den) \in Nat
<1> DEFINE fits(n) == num < den * 2 ^ (FloatBits + n)
           S == {n \in 0 .. num : fits(n)}
           k == CHOOSE n \in 0 .. num : fits(n) /\ \A m \in 0 .. n - 1 : ~fits(m)
           P == 2 ^ k
<1>1. fits(num)
  <2>1. FloatBits + num \in Nat /\ FloatBits + num >= num
    BY MarketAssumption
  <2>2. PICK p \in Nat : p = 2 ^ (FloatBits + num) /\ p > num
    BY <2>1, PowerOfTwo
  <2>3. den * p >= p
    BY <2>2
  <2>4. num < den * p
    BY <2>2, <2>3
  <2> QED
    BY <2>2, <2>4
<1>2. \E n \in 0 .. num : fits(n) /\ \A m \in 0 .. n - 1 : ~fits(m)
  <2>1. num \in S /\ S \subseteq Nat
    BY <1>1
  <2>2. PICK n \in S : \A m \in S : n <= m
    <3> HIDE DEF S
    <3> QED BY <2>1, Least
  <2>3. n \in 0 .. num /\ fits(n)
    OBVIOUS
  <2>4. ASSUME NEW m \in 0 .. n - 1 PROVE ~fits(m)
    <3>1. m \in 0 .. num /\ ~(n <= m)
      BY <2>3
    <3>2. m \notin S
      BY <2>2, <3>1
    <3> QED
      BY <3>1, <3>2
  <2> QED
    BY <2>3, <2>4
<1>3. k \in 0 .. num
  <2> HIDE DEF fits
  <2> QED BY <1>2
<1>4. P \in Nat /\ P > 0
  <2>1. k \in Nat
    BY <1>3
  <2> HIDE DEF k
  <2> QED BY <2>1, PowerOfTwo
<1>5. FloatFloor(num, den) = IF k = 0 THEN num \div den
                             ELSE ((2 * num + den * P) \div (2 * den * P)) * P
  BY DEF FloatFloor
<1>6. num \div den \in Nat
  OBVIOUS
<1> HIDE DEF k, P, fits
<1>7. 2 * num + den * P \in Nat /\ 2 * den * P \in Nat /\ 2 * den * P > 0
  <2>1. den * P \in Nat /\ den * P > 0 /\ 2 * den * P = 2 * (den * P)
    BY <1>4
  <2> QED
    BY <2>1
<1>8. (2 * num + den * P) \div (2 * den * P) \in Nat
  <2>1. \A a \in Nat, d \in Nat : d > 0 => a \div d \in Nat
    OBVIOUS
  <2> QED
    BY <1>7, <2>1
<1>9. ((2 * num + den * P) \div (2 * den * P)) * P \in Nat
  BY <1>4, <1>8
<1> QED
  BY <1>5, <1>6, <1>9

\* A counter of the width Word stays in its range, whatever is added to it.
LEMMA Wrapped ==
  ASSUME NEW n \in Int
  PROVE  n % Word \in 0 .. Word - 1
BY MarketAssumption

(***************************************************************************)
(* The market's row                                                        *)
(***************************************************************************)
LEMMA MarketConstants ==
  /\ BytesPerINR \in Nat /\ BytesPerINR > 0 /\ Precision \in Nat /\ Precision > 0
  /\ InitialMax \in Nat /\ InitialBase \in Nat /\ InitialBase > 0 /\ InitialQuote \in Nat
  /\ SlotWord \in Nat /\ SlotWord > 0 /\ Word \in Nat /\ Word > 0 /\ MaxSince \in Nat
  /\ Rates \subseteq Nat /\ Buys \subseteq Int /\ Bytes \subseteq Int /\ MemSizes \subseteq Int
BY MarketAssumption, AmountAssumption

LEMMA MemAccountFacts ==
  MemAccount \in Accounts /\ MemAccount \notin Signers /\ MemAccount # StakeAccount
BY MemAccountAssumption

\* A quotient rounded down.
LEMMA Quotient ==
  ASSUME NEW a \in Nat, NEW d \in Nat, d > 0
  PROVE  a \div d \in Nat /\ (a \div d) * d <= a
OBVIOUS

LEMMA BytesForFacts ==
  ASSUME NEW q \in Nat
  PROVE  /\ BytesFor(q) \in Nat /\ BytesFor(q) * Precision <= q * BytesPerINR
<1>1. q * BytesPerINR \in Nat
  BY MarketConstants
<1> QED
  BY <1>1, MarketConstants, Quotient DEF BytesFor

LEMMA ProceedsFacts ==
  ASSUME NEW b \in Nat
  PROVE  /\ ProceedsOf(b) \in Nat /\ ProceedsOf(b) * BytesPerINR <= b * Precision
<1> DEFINE k == b \div BytesPerINR
<1>1. k \in Nat /\ k * BytesPerINR <= b
  BY MarketConstants, Quotient
<1> HIDE DEF k
<1>2. ProceedsOf(b) = k * Precision
  BY DEF ProceedsOf, k
<1>3. (k * BytesPerINR) * Precision <= b * Precision
  BY <1>1, MarketConstants
<1>4. (k * Precision) * BytesPerINR = (k * BytesPerINR) * Precision
  BY <1>1, MarketConstants
<1> QED
  BY <1>1, <1>2, <1>3, <1>4, MarketConstants

\* Growth of the supply is put up for sale.
LEMMA SuppliedGood ==
  ASSUME NEW m, NEW t, Good(m, t), SoldOn(t) \in Nat
  PROVE  Good(Supplied(m), t)
<1> DEFINE new == (m.since * m.rate) % SlotWord
           u == Supplied(m)
<1>1. /\ m.base \in Nat /\ m.base # 0 /\ m.quote \in Nat /\ m.max \in Nat /\ m.stake \in Nat
      /\ m.rate \in Nat /\ m.since \in 0 .. MaxSince /\ m.reserved \in 0 .. Word - 1
  BY DEF Good, Shaped
<1>2. new \in Nat
  BY <1>1, MarketConstants
<1>3. u = [m EXCEPT !.max = @ + new, !.base = @ + new, !.since = 0]
  BY DEF Supplied
<1> HIDE DEF new, u
<1>4. m = [base |-> m.base, quote |-> m.quote, max |-> m.max, reserved |-> m.reserved,
           stake |-> m.stake, rate |-> m.rate, since |-> m.since]
  BY DEF Good, Shaped
<1>5. u = [base |-> m.base + new, quote |-> m.quote, max |-> m.max + new, reserved |-> m.reserved,
           stake |-> m.stake, rate |-> m.rate, since |-> 0]
  BY <1>3, <1>4
<1>6. Shaped(u)
  BY <1>1, <1>2, <1>5, MarketConstants DEF Shaped
<1>7. Conserved(u, t)
  BY <1>1, <1>2, <1>5, MarketConstants DEF Good, Conserved
<1>8. Funded(u, t)
  BY <1>5 DEF Good, Funded
<1> QED
  BY <1>6, <1>7, <1>8 DEF Good, u

\* A purchase: the bytes leave the market for an account, the tokens come in.
LEMMA BoughtGood ==
  ASSUME NEW m, NEW t, NEW u, Good(m, t), SoldOn(t) \in Nat, TillOn(t) \in Nat,
         NEW q \in Nat, m.base - BytesFor(q) > BytesFor(q),
         SoldOn(u) = SoldOn(t) + BytesFor(q), TillOn(u) = TillOn(t) + q
  PROVE  Good(Bought(m, q), u)
<1> DEFINE bytes == BytesFor(q)
           res == (m.reserved + (bytes * m.max) \div m.base) % Word
           w == Bought(m, q)
<1>1. /\ m.base \in Nat /\ m.base # 0 /\ m.quote \in Nat /\ m.max \in Nat /\ m.stake \in Nat
      /\ m.rate \in Nat /\ m.since \in 0 .. MaxSince /\ m.reserved \in 0 .. Word - 1
  BY DEF Good, Shaped
<1>2. bytes \in Nat /\ bytes * Precision <= q * BytesPerINR
  BY BytesForFacts
<1>3. m = [base |-> m.base, quote |-> m.quote, max |-> m.max, reserved |-> m.reserved,
           stake |-> m.stake, rate |-> m.rate, since |-> m.since]
  BY DEF Good, Shaped
<1>4. w = [m EXCEPT !.base = @ - bytes, !.quote = @ + q, !.reserved = res, !.stake = @ + q]
  BY DEF Bought
<1>r. res \in 0 .. Word - 1
  <2>1. \A a \in Nat, d \in Nat : d > 0 => a \div d \in Nat
    OBVIOUS
  <2>2. bytes * m.max \in Nat
    BY <1>1, <1>2
  <2>3. (bytes * m.max) \div m.base \in Nat
    BY <1>1, <2>1, <2>2
  <2> QED
    BY <1>1, <2>3, MarketConstants, Wrapped
<1> HIDE DEF w, res, bytes
<1>5. w = [base |-> m.base - bytes, quote |-> m.quote + q, max |-> m.max, reserved |-> res,
           stake |-> m.stake + q, rate |-> m.rate, since |-> m.since]
  BY <1>3, <1>4
<1>6. Shaped(w)
  BY <1>1, <1>2, <1>r, <1>5 DEF Shaped, bytes
<1>7. Conserved(w, u)
  BY <1>1, <1>2, <1>5, MarketConstants DEF Good, Conserved, bytes
<1>8. w.stake * BytesPerINR >= SoldOn(u) * Precision
  <2>1. m.stake * BytesPerINR >= SoldOn(t) * Precision
    BY DEF Good, Funded
  <2>2. (m.stake + q) * BytesPerINR = m.stake * BytesPerINR + q * BytesPerINR
    BY <1>1, MarketConstants
  <2>3. (SoldOn(t) + bytes) * Precision = SoldOn(t) * Precision + bytes * Precision
    BY <1>2, MarketConstants
  <2>4. /\ m.stake * BytesPerINR \in Nat /\ q * BytesPerINR \in Nat
        /\ SoldOn(t) * Precision \in Nat /\ bytes * Precision \in Nat
    BY <1>1, <1>2, MarketConstants
  <2>5. w.stake = m.stake + q /\ SoldOn(u) = SoldOn(t) + bytes
    BY <1>5 DEF bytes
  <2> QED
    BY <1>2, <2>1, <2>2, <2>3, <2>4, <2>5
<1>9. Funded(w, u)
  BY <1>1, <1>5, <1>8, MarketConstants DEF Good, Funded
<1> QED
  BY <1>6, <1>7, <1>9 DEF Good, w

\* A sale pays no more for the bytes than was paid for them.
LEMMA SoldGood ==
  ASSUME NEW m, NEW t, NEW u, Good(m, t), SoldOn(t) \in Nat, TillOn(t) \in Nat,
         NEW bytes \in Nat, Sold(m, bytes).stake >= 0, bytes <= SoldOn(t),
         SoldOn(u) = SoldOn(t) - bytes, TillOn(u) = TillOn(t) - ProceedsOf(bytes)
  PROVE  Good(Sold(m, bytes), u)
<1> DEFINE q == ProceedsOf(bytes)
           res == (m.reserved - FloatFloor(((bytes \div BytesPerINR) * BytesPerINR) * m.max,
                                           m.base + bytes)) % Word
           w == Sold(m, bytes)
<1>1. /\ m.base \in Nat /\ m.base # 0 /\ m.quote \in Nat /\ m.max \in Nat /\ m.stake \in Nat
      /\ m.rate \in Nat /\ m.since \in 0 .. MaxSince /\ m.reserved \in 0 .. Word - 1
  BY DEF Good, Shaped
<1>2. q \in Nat /\ q * BytesPerINR <= bytes * Precision
  BY ProceedsFacts
<1>3. m = [base |-> m.base, quote |-> m.quote, max |-> m.max, reserved |-> m.reserved,
           stake |-> m.stake, rate |-> m.rate, since |-> m.since]
  BY DEF Good, Shaped
<1>4. w = [m EXCEPT !.base = m.base + bytes, !.quote = @ - q, !.reserved = res, !.stake = @ - q]
  BY DEF Sold
<1>5. w.stake >= 0
  OBVIOUS
<1>r. res \in 0 .. Word - 1
  <2>1. bytes \div BytesPerINR \in Nat
    BY MarketConstants, Quotient
  <2>2. ((bytes \div BytesPerINR) * BytesPerINR) * m.max \in Nat
    BY <1>1, <2>1, MarketConstants
  <2>3. m.base + bytes \in Nat /\ m.base + bytes > 0
    BY <1>1
  <2>4. FloatFloor(((bytes \div BytesPerINR) * BytesPerINR) * m.max, m.base + bytes) \in Nat
    BY <2>2, <2>3, FloatFloorType
  <2> QED
    BY <1>1, <2>4, MarketConstants, Wrapped
<1> HIDE DEF w, res, q
<1>6. w = [base |-> m.base + bytes, quote |-> m.quote - q, max |-> m.max, reserved |-> res,
           stake |-> m.stake - q, rate |-> m.rate, since |-> m.since]
  BY <1>3, <1>4
<1>7. m.stake - q \in Nat /\ m.quote - q \in Nat /\ m.quote = InitialQuote + m.stake
  BY <1>1, <1>2, <1>5, <1>6, MarketConstants DEF Good, Funded
<1>8. Shaped(w)
  BY <1>1, <1>r, <1>6, <1>7 DEF Shaped
<1>9. Conserved(w, u)
  BY <1>1, <1>6, MarketConstants DEF Good, Conserved
<1>10. w.stake * BytesPerINR >= SoldOn(u) * Precision
  <2>1. m.stake * BytesPerINR >= SoldOn(t) * Precision
    BY DEF Good, Funded
  <2>2. (m.stake - q) * BytesPerINR = m.stake * BytesPerINR - q * BytesPerINR
    BY <1>1, <1>2, MarketConstants
  <2>3. (SoldOn(t) - bytes) * Precision = SoldOn(t) * Precision - bytes * Precision
    BY MarketConstants
  <2>4. /\ m.stake * BytesPerINR \in Int /\ q * BytesPerINR \in Int
        /\ SoldOn(t) * Precision \in Int /\ bytes * Precision \in Int
    BY <1>1, <1>2, MarketConstants
  <2>5. w.stake = m.stake - q /\ SoldOn(u) = SoldOn(t) - bytes
    BY <1>6
  <2> QED
    BY <1>2, <2>1, <2>2, <2>3, <2>4, <2>5
<1>11. Funded(w, u)
  BY <1>1, <1>2, <1>6, <1>7, <1>10, MarketConstants DEF Good, Funded, q
<1> QED
  BY <1>8, <1>9, <1>11 DEF Good, w

(***************************************************************************)
(* The tables                                                              *)
(***************************************************************************)
LEMMA MemTypes ==
  ASSUME NEW t \in TablesType
  PROVE  /\ \A a \in Accounts : Mems(t)[a] = t.userres[a].mem /\ Mems(t)[a] \in Nat
         /\ SoldOn(t) \in Nat /\ TillOn(t) \in Nat
<1>1. \A a \in Accounts : t.userres[a] \in Rows
  BY DEF TablesType
<1>2. \A a \in Accounts : Mems(t)[a] = t.userres[a].mem /\ Mems(t)[a] \in Nat
  BY <1>1 DEF Mems, Rows
<1>3. SoldOn(t) \in Nat
  BY <1>2, AccountsAssumption, TotalType DEF SoldOn
<1>4. t.balance[CoreSymbol] \in [Accounts -> Nat]
  BY CoreBalances
<1> QED
  BY <1>2, <1>3, <1>4, MemAccountFacts DEF TillOn

\* A payment by anybody but inery.stake.
LEMMA PaymentBut ==
  ASSUME NEW t, NEW m, NEW X, SoundBut(t, m, X),
         NEW from \in Accounts \ {StakeAccount}, NEW to \in Accounts, NEW q \in Nat,
         CanPay(t, from, to, q)
  PROVE  LET w == Paid(t, from, to, q)
         IN /\ SoundBut(w, m, X)
            /\ w.balance[CoreSymbol] = [t.balance[CoreSymbol] EXCEPT ![from] = @ - q, ![to] = @ + q]
            /\ w.userres = t.userres /\ w.limits = t.limits
            /\ from # to
<1> DEFINE w == Paid(t, from, to, q)
           c == t.balance[CoreSymbol]
<1>1. /\ t \in TablesType /\ m \in [Accounts -> SUBSET Resources] /\ Covered(t)
      /\ SoundParts(t, m, X) /\ \A a \in Accounts : InRow(t, a)
  BY DEF SoundBut
<1>2. /\ w \in TablesType /\ SoundParts(w, m, X) /\ \A a \in Accounts : InRow(w, a)
      /\ Held(w) = Held(t) /\ from # to
      /\ w.balance[CoreSymbol] = [c EXCEPT ![from] = @ - q, ![to] = @ + q]
  BY <1>1, PaymentSound
<1>3. w.userres = t.userres /\ w.limits = t.limits
  BY <1>1 DEF Paid, TablesType
<1>4. c \in [Accounts -> Nat] /\ Held(t) \in Nat /\ StakeAccount \in Accounts
  BY <1>1, CoreBalances, HeldType, StakeAccountFacts
<1>5. c[StakeAccount] >= Held(t)
  BY <1>1 DEF Covered
<1> HIDE DEF w, c
<1>6. w.balance[CoreSymbol][StakeAccount] >= c[StakeAccount]
  BY <1>2, <1>4
<1>7. w.balance[CoreSymbol][StakeAccount] \in Int
  BY <1>2, <1>4
<1>8. Covered(w)
  BY <1>2, <1>4, <1>5, <1>6, <1>7 DEF Covered
<1> QED
  BY <1>1, <1>2, <1>3, <1>8 DEF SoundBut, w, c

\* The memory of one account changes; its limits lag behind.
LEMMA WithMemFacts ==
  ASSUME NEW t, NEW a \in Accounts, SoundBut(t, managed, {a}), NEW n \in Int,
         t.userres[a].mem + n >= 0
  PROVE  LET u == WithMem(t, a, n)
         IN /\ SoundBut(u, managed, {a})
            /\ u.balance = t.balance /\ u.row = t.row /\ u.limits = t.limits
            /\ SoldOn(u) = SoldOn(t) + n
            /\ \A x \in Accounts \ {a} : u.userres[x] = t.userres[x]
            /\ u.userres[a].mem = t.userres[a].mem + n
<1> DEFINE u == WithMem(t, a, n)
           r == t.userres[a]
           v == [r EXCEPT !.row = TRUE, !.mem = @ + n]
<1>1. /\ t \in TablesType /\ managed \in [Accounts -> SUBSET Resources] /\ Covered(t)
      /\ SoundParts(t, managed, {a}) /\ \A x \in Accounts : InRow(t, x)
  BY DEF SoundBut
<1>2. r \in Rows
  BY <1>1 DEF TablesType
<1>3. r.mem + n \in Nat
  BY <1>2 DEF Rows
<1>4. v \in Rows /\ v.net = r.net /\ v.cpu = r.cpu /\ v.mem = r.mem + n /\ v.row
  BY <1>2, <1>3 DEF Rows
<1>5. u = [t EXCEPT !.userres[a] = v]
  BY DEF WithMem
<1> HIDE DEF u, v
<1>6. /\ u \in TablesType /\ u.balance = t.balance /\ u.row = t.row /\ u.delband = t.delband
      /\ u.voters = t.voters /\ u.staked = t.staked /\ u.refunds = t.refunds
      /\ u.deferred = t.deferred /\ u.limits = t.limits
      /\ u.userres = [t.userres EXCEPT ![a] = v]
  BY <1>1, <1>4, <1>5 DEF TablesType
<1>7. u.userres[a] = v /\ \A x \in Accounts \ {a} : u.userres[x] = t.userres[x]
  BY <1>1, <1>6 DEF TablesType
<1>8. ASSUME NEW x \in Accounts
      PROVE  /\ Agree(u, x) /\ OnTime(u, x) /\ Absent(u, managed, x) /\ InRow(u, x)
             /\ x \notin {a} => Follows(u, managed, x)
  <2>1. /\ Agree(t, x) /\ OnTime(t, x) /\ Absent(t, managed, x) /\ InRow(t, x)
        /\ x \notin {a} => Follows(t, managed, x)
    BY <1>1 DEF SoundParts
  <2>2. u.userres[x].net = t.userres[x].net /\ u.userres[x].cpu = t.userres[x].cpu
    BY <1>4, <1>7
  <2>3. Agree(u, x)
    BY <1>6, <2>1, <2>2 DEF Agree, Out, NetIn, CpuIn
  <2>4. Absent(u, managed, x)
    BY <1>4, <1>6, <1>7, <2>1 DEF Absent
  <2> QED
    BY <1>6, <1>7, <2>1, <2>3, <2>4 DEF OnTime, InRow, Follows
<1>9. Covered(u)
  BY <1>1, <1>6 DEF Covered, Held, Waiting
<1>10. SoldOn(u) = SoldOn(t) + n
  <2>1. \A x \in Accounts : Mems(t)[x] \in Nat /\ Mems(u)[x] \in Nat
    BY <1>1, <1>6, MemTypes
  <2>2. Mems(u)[a] = Mems(t)[a] + n /\ \A x \in Accounts \ {a} : Mems(t)[x] = Mems(u)[x]
    BY <1>4, <1>7 DEF Mems
  <2> QED
    BY <2>1, <2>2, AccountsAssumption, TotalShift DEF SoldOn
<1>11. SoundBut(u, managed, {a})
  BY <1>1, <1>6, <1>8, <1>9 DEF SoundBut, SoundParts
<1> QED
  BY <1>4, <1>6, <1>7, <1>10, <1>11 DEF u

\* A memory limit is set from the bytes of its account.
LEMMA WithMemLimitFacts ==
  ASSUME NEW t, NEW a \in Accounts, Sound(t, managed), NEW mem \in Nat, mem = t.userres[a].mem,
         Covers(t, managed, {a})
  PROVE  LET u == WithMemLimit(t, a, mem)
         IN /\ Sound(u, managed)
            /\ u.balance = t.balance /\ u.row = t.row /\ u.userres = t.userres
            /\ Covers(u, managed, {})
<1> DEFINE u == WithMemLimit(t, a, mem)
           limit == mem + MemGift
           old == t.limits[a]
           l == [old EXCEPT !.mem = limit]
<1>1. /\ t \in TablesType /\ managed \in [Accounts -> SUBSET Resources] /\ Covered(t)
      /\ SoundParts(t, managed, {}) /\ \A x \in Accounts : InRow(t, x)
  BY SoundIs
<1>2. CASE "mem" \in managed[a]
  <2>1. u = t
    BY <1>2 DEF WithMemLimit
  <2>2. Covers(u, managed, {})
    BY <1>2, <2>1 DEF Covers
  <2> QED
    BY <2>1, <2>2
<1>3. CASE "mem" \notin managed[a]
  <2>1. limit \in Nat /\ limit >= mem
    BY DelayFacts
  <2>2. old \in Limits
    BY <1>1 DEF TablesType
  <2>3. u = [t EXCEPT !.limits[a] = l]
    <3>1. u = [t EXCEPT !.limits[a].mem = limit]
      BY <1>3 DEF WithMemLimit
    <3> QED
      BY <1>1, <3>1 DEF TablesType
  <2> HIDE DEF limit
  <2>4. l \in Limits /\ l.mem = limit /\ l.net = old.net /\ l.cpu = old.cpu
    BY <2>1, <2>2 DEF Limits, Values
  <2> HIDE DEF u, l
  <2>5. /\ u \in TablesType /\ u.balance = t.balance /\ u.row = t.row /\ u.delband = t.delband
        /\ u.voters = t.voters /\ u.staked = t.staked /\ u.refunds = t.refunds
        /\ u.deferred = t.deferred /\ u.userres = t.userres
        /\ u.limits = [t.limits EXCEPT ![a] = l]
    BY <1>1, <2>3, <2>4 DEF TablesType
  <2>6. u.limits[a] = l /\ \A x \in Accounts \ {a} : u.limits[x] = t.limits[x]
    BY <1>1, <2>5 DEF TablesType
  <2>7. ASSUME NEW x \in Accounts
        PROVE  /\ Agree(u, x) /\ OnTime(u, x) /\ Absent(u, managed, x) /\ InRow(u, x)
               /\ Follows(u, managed, x)
    <3>1. /\ Agree(t, x) /\ OnTime(t, x) /\ Absent(t, managed, x) /\ InRow(t, x)
          /\ Follows(t, managed, x)
      BY <1>1 DEF SoundParts
    <3>2. u.limits[x].net = t.limits[x].net /\ u.limits[x].cpu = t.limits[x].cpu
      BY <2>4, <2>6
    <3>3. Agree(u, x)
      BY <2>5, <3>1 DEF Agree, Out, NetIn, CpuIn
    <3>4. Follows(u, managed, x)
      BY <2>5, <3>1, <3>2 DEF Follows
    <3> QED
      BY <2>5, <3>1, <3>3, <3>4 DEF OnTime, InRow, Absent
  <2>8. Covered(u)
    BY <1>1, <2>5 DEF Covered, Held, Waiting
  <2>9. Covers(u, managed, {})
    BY <2>1, <2>4, <2>5, <2>6 DEF Covers
  <2>10. Sound(u, managed)
    BY <1>1, <2>5, <2>7, <2>8 DEF Sound
  <2> QED
    BY <2>5, <2>9, <2>10 DEF u
<1> QED
  BY <1>2, <1>3

\* A change of stake moves no memory, and nothing of inery.mem.
LEMMA ChangedMem ==
  ASSUME half \in {0, 1}, NEW t,
         NEW from, NEW to, NEW net, NEW cpu, NEW transfer, SoundBut(t, managed, {to}),
         Changes(t, from, to, net, cpu, transfer)
  PROVE  LET w == Changed(t, from, to, net, cpu, transfer)
         IN /\ \A a \in Accounts : w.userres[a].mem = t.userres[a].mem
            /\ SoldOn(w) = SoldOn(t) /\ TillOn(w) = TillOn(t)
            /\ \A a \in Accounts \ {to} : w.userres[a] = t.userres[a] /\ w.limits[a] = t.limits[a]
            /\ w.userres[to] = ResourcesOf(t, to, net, cpu)
            /\ w.limits[to] = LimitsFor(t, to, w.userres[to])
<1> DEFINE u == Rebooked(t, from, to, net, cpu, transfer)
           owed == OwedBy(t, from, to, net, cpu, transfer)
           w == Changed(t, from, to, net, cpu, transfer)
           res == ResourcesOf(t, to, net, cpu)
           l == LimitsFor(t, to, res)
           c == t.balance[CoreSymbol]
<1>1. t \in TablesType /\ managed \in [Accounts -> SUBSET Resources]
  BY DEF SoundBut
<1>2. /\ from \in Accounts /\ from # MemAccount /\ from # StakeAccount /\ to \in Accounts
      /\ net \in Int /\ cpu \in Int /\ StakeAccount \in Accounts
  BY AccountsAssumption, MemAccountFacts, StakeAccountFacts DEF Changes
<1>3. owed \in Nat
  BY <1>1, OwedFacts
<1>4. /\ u \in TablesType /\ u.balance = t.balance
      /\ u.userres = [t.userres EXCEPT ![to] = res]
      /\ u.limits = [t.limits EXCEPT ![to] = l]
      /\ t.userres[to].net + net >= 0 /\ t.userres[to].cpu + cpu >= 0
  <2>1. Rebooking(t, u, from, to, net, cpu, transfer)
    BY <1>1, RebookedFields
  <2> HIDE DEF u
  <2> QED
    BY <2>1 DEF Rebooking
<1>5. w = IF owed > 0 THEN Paid(u, from, StakeAccount, owed) ELSE u
  BY DEF Changed
<1>6. owed > 0 => t.balance[CoreSymbol][from] >= owed
  BY DEF Changes, CanChange, CanPay, CanMove, CanSub
<1>7. res.mem = t.userres[to].mem
  <2>1. t.userres[to] \in Rows
    BY <1>1, <1>2 DEF TablesType
  <2> QED
    BY <2>1 DEF ResourcesOf, Rows
<1>8. c \in [Accounts -> Nat]
  BY <1>1, CoreBalances
<1> HIDE DEF u, owed, w, res, l
<1>9. /\ w.userres = u.userres /\ w.limits = u.limits /\ TillOn(w) = TillOn(t)
  <2>1. CASE owed > 0
    <3>1. /\ w.userres = u.userres /\ w.limits = u.limits
          /\ w.balance[CoreSymbol] = [c EXCEPT ![from] = @ - owed, ![StakeAccount] = @ + owed]
      BY <1>2, <1>3, <1>4, <1>5, <1>6, <2>1, PaidFacts
    <3> HIDE DEF c
    <3>2. w.balance[CoreSymbol][MemAccount] = c[MemAccount]
      BY <1>2, <1>8, <3>1, MemAccountFacts
    <3> QED
      BY <3>1, <3>2 DEF TillOn, c
  <2>2. CASE ~(owed > 0)
    BY <1>4, <1>5, <2>2 DEF TillOn
  <2> QED
    BY <2>1, <2>2
<1>10. /\ \A a \in Accounts \ {to} : w.userres[a] = t.userres[a] /\ w.limits[a] = t.limits[a]
       /\ w.userres[to] = res /\ w.limits[to] = l
  BY <1>1, <1>2, <1>4, <1>9 DEF TablesType
<1>11. \A a \in Accounts : w.userres[a].mem = t.userres[a].mem
  BY <1>7, <1>10
<1>12. SoldOn(w) = SoldOn(t)
  BY <1>11, TotalCong DEF SoldOn, Mems
<1> QED
  BY <1>9, <1>10, <1>11, <1>12 DEF w, res, l

MemKept(t, w) ==
    /\ \A a \in Accounts : w.userres[a].mem = t.userres[a].mem
    /\ SoldOn(w) = SoldOn(t) /\ TillOn(w) = TillOn(t)

LEMMA ChangedMemKept ==
  ASSUME half \in {0, 1}, NEW t,
         NEW from, NEW to, NEW net, NEW cpu, NEW transfer, SoundBut(t, managed, {to}),
         Changes(t, from, to, net, cpu, transfer)
  PROVE  MemKept(t, Changed(t, from, to, net, cpu, transfer))
<1> DEFINE w == Changed(t, from, to, net, cpu, transfer)
<1>1. /\ \A a \in Accounts : w.userres[a].mem = t.userres[a].mem
      /\ SoldOn(w) = SoldOn(t) /\ TillOn(w) = TillOn(t)
  BY ChangedMem
<1> HIDE DEF w
<1>2. MemKept(t, w)
  BY <1>1 DEF MemKept
<1> QED
  BY <1>2 DEF w

\* Other accounts' memory limits are not touched by a change of stake, and the
\* receiver's never falls below its memory.
LEMMA ChangedCovers ==
  ASSUME half \in {0, 1}, NEW t,
         NEW from, NEW to, NEW net, NEW cpu, NEW transfer, SoundBut(t, managed, {to}),
         Changes(t, from, to, net, cpu, transfer)
  PROVE  LET w == Changed(t, from, to, net, cpu, transfer)
         IN /\ Covers(t, managed, {to}) => Covers(w, managed, {to})
            /\ Covers(t, managed, {}) => Covers(w, managed, {})
<1> DEFINE w == Changed(t, from, to, net, cpu, transfer)
           r == t.userres[to]
           old == t.limits[to]
           u == w.userres[to]
           l == w.limits[to]
<1>1. /\ \A a \in Accounts : w.userres[a].mem = t.userres[a].mem
      /\ \A a \in Accounts \ {to} : w.userres[a] = t.userres[a] /\ w.limits[a] = t.limits[a]
      /\ l = LimitsFor(t, to, u)
  BY ChangedMem
<1>2. to \in Accounts
  BY DEF Changes
<1> HIDE DEF w
<1>3. Covers(t, managed, {to}) => Covers(w, managed, {to})
  BY <1>1 DEF Covers
<1>4. r \in Rows /\ old \in Limits /\ (~r.row => r.net + r.cpu + r.mem = 0)
  BY <1>2 DEF SoundBut, SoundParts, Absent, TablesType
<1>5. r.mem \in Nat /\ (~r.row => r.mem = 0) /\ u.mem = r.mem /\ old.mem \in Values
  BY <1>1, <1>2, <1>4 DEF Rows, Limits
<1>6. "mem" \notin managed[to] => l.mem = old.mem \/ l.mem = Larger(u.mem + MemGift, old.mem)
  BY <1>1 DEF LimitsFor
<1> HIDE DEF u, r, l, old
<1>7. "mem" \notin managed[to] /\ (r.row => old.mem = Unlimited \/ old.mem >= r.mem)
        => l.mem = Unlimited \/ l.mem >= u.mem
  BY <1>5, <1>6, DelayFacts DEF Values, Unlimited, Larger
<1>8. Covers(t, managed, {}) => Covers(w, managed, {})
  <2> SUFFICES ASSUME Covers(t, managed, {}), NEW a \in Accounts,
                      w.userres[a].row, "mem" \notin managed[a]
               PROVE  w.limits[a].mem = Unlimited \/ w.limits[a].mem >= w.userres[a].mem
    BY DEF Covers
  <2>1. CASE a = to
    <3>1. r.row => old.mem = Unlimited \/ old.mem >= r.mem
      BY <1>2, <2>1 DEF Covers, r, old
    <3> QED
      BY <1>7, <2>1, <3>1 DEF u, l
  <2>2. CASE a # to
    BY <1>1, <2>2 DEF Covers
  <2> QED
    BY <2>1, <2>2
<1> QED
  BY <1>3, <1>8 DEF w

(***************************************************************************)
(* Care for stake, through all the steps of a trade                        *)
(***************************************************************************)
\* One careful change after another is one.
LEMMA CarefulChain ==
  ASSUME NEW t \in TablesType, NEW u \in TablesType, NEW w \in TablesType,
         activity \in SUBSET Accounts, Careful(t, u), Careful(u, w)
  PROVE  Careful(t, w)
<1>1. FairOn(t, w)
  <2>1. t.balance \in Balances /\ u.balance \in Balances /\ w.balance \in Balances
    BY DEF TablesType
  <2> QED
    BY <2>1, FairChain DEF Careful, FairOn
<1>2. w.balance[CoreSymbol][StakeAccount] >= t.balance[CoreSymbol][StakeAccount]
  <2>1. /\ t.balance[CoreSymbol][StakeAccount] \in Nat /\ u.balance[CoreSymbol][StakeAccount] \in Nat
        /\ w.balance[CoreSymbol][StakeAccount] \in Nat
    BY CoreBalances, StakeAccountFacts
  <2> QED
    BY <2>1 DEF Careful
<1>3. ASSUME NEW a \in Accounts PROVE ClockKept(t, w, a)
  <2>1. t.refunds[a] \in Refunds /\ u.refunds[a] \in Refunds /\ w.refunds[a] \in Refunds
    BY DEF TablesType
  <2>2. /\ Weight(t.refunds[a]) \in Nat /\ Weight(u.refunds[a]) \in Nat
        /\ Weight(w.refunds[a]) \in Nat
    BY <2>1 DEF Weight, Refunds
  <2>3. ClockKept(t, u, a) /\ ClockKept(u, w, a)
    BY DEF Careful
  <2> QED
    BY <2>2, <2>3 DEF ClockKept
<1>4. \A a \in Accounts : \A r \in managed[a] : w.limits[a][r] = t.limits[a][r]
  BY DEF Careful
<1> QED
  BY <1>1, <1>2, <1>3, <1>4 DEF Careful

\* Steps that touch neither tokens, nor refunds, nor managed limits.
LEMMA CarefulStill ==
  ASSUME NEW t \in TablesType, NEW u, activity \in SUBSET Accounts,
         u.balance = t.balance, u.row = t.row, u.refunds = t.refunds,
         \A a \in Accounts : \A r \in managed[a] : u.limits[a][r] = t.limits[a][r]
  PROVE  Careful(t, u)
<1>1. t.balance \in Balances /\ t.refunds \in [Accounts -> Refunds]
  BY DEF TablesType
<1>2. FairOn(t, u)
  BY <1>1, FairStill DEF FairOn
<1>3. t.balance[CoreSymbol][StakeAccount] \in Nat
  BY CoreBalances, StakeAccountFacts
<1>4. \A a \in Accounts : ClockKept(t, u, a)
  BY <1>1 DEF ClockKept, Weight, Refunds
<1> QED
  BY <1>2, <1>3, <1>4 DEF Careful

\* A payment by anybody but inery.stake.
LEMMA PaidCareful ==
  ASSUME NEW t \in TablesType, activity \in SUBSET Accounts,
         NEW from \in Accounts \ {StakeAccount}, NEW to \in Accounts, NEW q \in Nat,
         CanPay(t, from, to, q)
  PROVE  Careful(t, Paid(t, from, to, q))
<1> DEFINE u == Paid(t, from, to, q)
           c == t.balance[CoreSymbol]
<1>1. from # to /\ t.balance[CoreSymbol][from] >= q
  BY DEF CanPay, CanMove, CanSub
<1>2. FairOn(t, u)
  BY PaidFair
<1>3. /\ u.refunds = t.refunds /\ u.limits = t.limits
      /\ u.balance[CoreSymbol] = [c EXCEPT ![from] = @ - q, ![to] = @ + q]
  BY <1>1, PaidFacts
<1>4. c \in [Accounts -> Nat] /\ StakeAccount \in Accounts
  BY CoreBalances, StakeAccountFacts
<1> HIDE DEF u, c
<1>5. u.balance[CoreSymbol][StakeAccount] >= c[StakeAccount]
  BY <1>3, <1>4
<1>6. \A a \in Accounts : ClockKept(t, u, a)
  <2>1. t.refunds \in [Accounts -> Refunds]
    BY DEF TablesType
  <2> QED
    BY <1>3, <2>1 DEF ClockKept, Weight, Refunds
<1> QED
  BY <1>2, <1>3, <1>5, <1>6 DEF Careful, u, c

LEMMA WithMemCareful ==
  ASSUME NEW t \in TablesType, activity \in SUBSET Accounts, NEW a, NEW n
  PROVE  Careful(t, WithMem(t, a, n))
<1> DEFINE u == WithMem(t, a, n)
<1>1. /\ u.balance = t.balance /\ u.row = t.row /\ u.refunds = t.refunds /\ u.limits = t.limits
  BY DEF WithMem, TablesType
<1> HIDE DEF u
<1> QED
  BY <1>1, CarefulStill DEF u

LEMMA WithMemLimitCareful ==
  ASSUME NEW t \in TablesType, activity \in SUBSET Accounts, NEW a \in Accounts, NEW mem,
         managed \in [Accounts -> SUBSET Resources]
  PROVE  Careful(t, WithMemLimit(t, a, mem))
<1> DEFINE u == WithMemLimit(t, a, mem)
           l == [t.limits[a] EXCEPT !.mem = mem + MemGift]
<1>1. t.limits \in [Accounts -> Limits]
  BY DEF TablesType
<1>2. u = IF "mem" \in managed[a] THEN t ELSE [t EXCEPT !.limits[a] = l]
  BY DEF WithMemLimit, TablesType
<1>3. \A r \in Resources : r # "mem" => l[r] = t.limits[a][r]
  BY <1>1 DEF Limits, Resources
<1> HIDE DEF u, l
<1>4. u.balance = t.balance /\ u.row = t.row /\ u.refunds = t.refunds
  BY <1>2 DEF TablesType
<1>5. ASSUME NEW x \in Accounts, NEW r \in managed[x] PROVE u.limits[x][r] = t.limits[x][r]
  <2>1. CASE x = a /\ "mem" \notin managed[a]
    <3>1. u.limits[x] = l /\ r \in Resources /\ r # "mem"
      BY <1>1, <1>2, <2>1 DEF TablesType
    <3> QED
      BY <1>3, <2>1, <3>1
  <2>2. CASE x # a \/ "mem" \in managed[a]
    BY <1>1, <1>2, <2>2 DEF TablesType
  <2> QED
    BY <2>1, <2>2
<1> QED
  BY <1>4, <1>5, CarefulStill DEF u

(***************************************************************************)
(* Trades                                                                  *)
(***************************************************************************)
\* One account's memory changes by n.
MemMoved(t, u, a, n) ==
    /\ u.userres[a].mem = t.userres[a].mem + n
    /\ \A x \in Accounts \ {a} : u.userres[x].mem = t.userres[x].mem

\* buyresources, on tables and a market brought up to date.
LEMMA BuyGood ==
  ASSUME half \in {0, 1}, NEW t, NEW m, Sound(t, managed), Covers(t, managed, {}), Good(m, t),
         NEW payer \in Signers, NEW receiver \in Accounts, NEW q \in Int,
         CanBuy(t, m, payer, receiver, q), activity \in SUBSET Accounts
  PROVE  LET u == AfterBuy(t, payer, receiver, q)
         IN /\ Sound(u, managed) /\ Covers(u, managed, {}) /\ Good(Bought(m, q), u)
            /\ Careful(t, u) /\ MemMoved(t, u, receiver, BytesFor(q))
<1> DEFINE bytes == BytesFor(q)
           stake == StakeFor(bytes)
           p == Paid(t, payer, MemAccount, q)
           c == Charged(t, payer, receiver, q)
           new == Changed(c, payer, receiver, stake, stake, FALSE)
           mem == new.userres[receiver].mem
           u == AfterBuy(t, payer, receiver, q)
<1>1. /\ q \in Nat /\ bytes > 0 /\ bytes \in Nat /\ m.base - bytes > bytes
      /\ CanPay(t, payer, MemAccount, q)
      /\ CanDelegate(c, payer, receiver, stake, stake, FALSE)
  <2>1. q \in Nat
    BY DEF CanBuy
  <2> QED
    BY <2>1, BytesForFacts DEF CanBuy
<1>2. /\ payer \in Accounts \ {StakeAccount} /\ payer # MemAccount /\ MemAccount \in Accounts
  BY AccountsAssumption, StakeAccountFacts, MemAccountFacts
<1>3. stake \in Int
  BY <1>1, MarketConstants DEF StakeFor
<1>4. SoundBut(t, managed, {receiver}) /\ t \in TablesType
  BY SoundIs
<1>5. /\ SoundBut(p, managed, {receiver}) /\ p.userres = t.userres /\ p.limits = t.limits
      /\ p.balance[CoreSymbol] = [t.balance[CoreSymbol] EXCEPT ![payer] = @ - q, ![MemAccount] = @ + q]
  BY <1>1, <1>2, <1>4, PaymentBut
<1>6. TillOn(p) = TillOn(t) + q /\ SoldOn(p) = SoldOn(t)
  <2>1. t.balance[CoreSymbol] \in [Accounts -> Nat]
    BY <1>4, CoreBalances
  <2> QED
    BY <1>2, <1>5, <2>1 DEF TillOn, SoldOn, Mems
<1>7. c = WithMem(p, receiver, bytes)
  BY DEF Charged
<1>c1. Careful(t, p)
  BY <1>1, <1>2, <1>4, PaidCareful
<1> HIDE DEF p, c, stake, bytes
<1>8. p.userres[receiver].mem + bytes >= 0
  <2>1. p \in TablesType
    BY <1>5 DEF SoundBut
  <2>2. p.userres[receiver].mem \in Nat
    BY <2>1, MemTypes
  <2> QED
    BY <1>1, <2>2
<1>9. /\ SoundBut(c, managed, {receiver}) /\ c.balance = p.balance /\ c.limits = p.limits
      /\ SoldOn(c) = SoldOn(p) + bytes
      /\ \A x \in Accounts \ {receiver} : c.userres[x] = p.userres[x]
      /\ c.userres[receiver].mem = p.userres[receiver].mem + bytes
  <2>1. bytes \in Int /\ SoundBut(p, managed, {receiver})
    BY <1>1, <1>5
  <2> QED
    BY <1>7, <1>8, <2>1, WithMemFacts
<1>10. Changes(c, payer, receiver, stake, stake, FALSE)
  BY <1>1, <1>3 DEF CanDelegate, Changes
<1>11. Sound(new, managed)
  BY <1>9, <1>10, ChangedSound
<1>c2. p \in TablesType /\ c \in TablesType /\ new \in TablesType
  BY <1>5, <1>9, <1>11, SoundIs DEF SoundBut
<1>c3. Careful(p, c) /\ Careful(c, new)
  <2>1. managed \in [Accounts -> SUBSET Resources]
    BY <1>4 DEF SoundBut
  <2> QED
    BY <1>7, <1>10, <1>c2, <2>1, WithMemCareful, ChangedCareful
<1>12. MemKept(c, new) /\ SoldOn(new) = SoldOn(c) /\ TillOn(new) = TillOn(c)
  <2>1. SoundBut(c, managed, {receiver})
    BY <1>9
  <2>2. MemKept(c, new)
    BY <1>10, <2>1, ChangedMemKept
  <2> HIDE DEF new
  <2> QED
    BY <2>2 DEF MemKept
<1>13. Covers(c, managed, {receiver})
  BY <1>5, <1>9 DEF Covers
<1>14. Covers(new, managed, {receiver})
  BY <1>9, <1>10, <1>13, ChangedCovers
<1>15. u = WithMemLimit(new, receiver, mem)
  BY DEF AfterBuy, c, stake, bytes
<1> HIDE DEF u, new
<1>16. mem \in Nat
  <2>1. new \in TablesType
    BY <1>11, SoundIs
  <2> QED
    BY <2>1, MemTypes
<1>17. /\ Sound(u, managed) /\ u.balance = new.balance /\ u.userres = new.userres
       /\ Covers(u, managed, {})
  BY <1>11, <1>14, <1>15, <1>16, WithMemLimitFacts
<1>18. SoldOn(u) = SoldOn(t) + bytes /\ TillOn(u) = TillOn(t) + q
  <2>1. SoldOn(u) = SoldOn(new) /\ TillOn(u) = TillOn(new) /\ TillOn(c) = TillOn(p)
    BY <1>9, <1>17 DEF SoldOn, TillOn, Mems
  <2> QED
    BY <1>6, <1>9, <1>12, <2>1
<1>19. Good(Bought(m, q), u)
  <2>1. SoldOn(t) \in Nat /\ TillOn(t) \in Nat
    BY <1>4, MemTypes
  <2> QED
    BY <1>1, <1>18, <2>1, BoughtGood DEF bytes
<1>20. Careful(t, u)
  <2>1. u \in TablesType /\ managed \in [Accounts -> SUBSET Resources]
    BY <1>4, <1>17, SoundIs DEF SoundBut
  <2>2. Careful(new, u)
    BY <1>15, <1>c2, <2>1, WithMemLimitCareful
  <2>3. Careful(t, c)
    BY <1>4, <1>c1, <1>c2, <1>c3, CarefulChain
  <2>4. Careful(t, new)
    BY <1>4, <1>c2, <1>c3, <2>3, CarefulChain
  <2> QED
    BY <1>4, <1>c2, <2>1, <2>2, <2>4, CarefulChain
<1>21. MemMoved(t, u, receiver, bytes)
  BY <1>5, <1>9, <1>12, <1>17 DEF MemMoved, MemKept
<1> QED
  BY <1>17, <1>19, <1>20, <1>21 DEF u, bytes

\* sellres.
LEMMA SellGood ==
  ASSUME MarketInv, NEW a \in Signers, NEW bytes \in Int, Sellres(a, bytes)
  PROVE  \E u : /\ Become(u) /\ Sound(u, managed) /\ Covers(u, managed, {}) /\ Good(market', u)
                /\ Careful(Tables, u) /\ MemMoved(Tables, u, a, -bytes)
<1> DEFINE out  == ProceedsOf(bytes)
           left == WithMem(Tables, a, -bytes)
           new  == Changed(left, a, a, -out, -out, FALSE)
           mem  == userres[a].mem - bytes
           s    == WithMemLimit(new, a, mem)
           u    == Paid(s, MemAccount, a, out)
           m    == Supplied(market)
<1>1. /\ bytes > 0 /\ mem >= 0 /\ out > 1 /\ Sold(m, bytes).stake >= 0
      /\ CanUndelegate(left, a, a, out, out) /\ CanPay(new, MemAccount, a, out)
      /\ Become(u) /\ market' = Sold(m, bytes)
  BY DEF Sellres
<1>2. /\ Sound(Tables, managed) /\ half \in {0, 1} /\ Covers(Tables, managed, {})
      /\ Good(market, Tables) /\ Tables.userres = userres
  BY DEF MarketInv, StakingInv, Tables
<1>3. Tables \in TablesType /\ SoundBut(Tables, managed, {a}) /\ a \in Accounts /\ a \in Signers
  BY <1>2, SoundIs, AccountsAssumption
<1>c0. activity \in SUBSET Accounts /\ managed \in [Accounts -> SUBSET Resources]
  BY <1>3, AccountsAssumption DEF MarketInv, StakingInv, SoundBut
<1>c1. Careful(Tables, left)
  BY <1>3, <1>c0, WithMemCareful
<1>4. bytes \in Nat /\ out \in Nat
  BY <1>1, ProceedsFacts
<1>5. /\ userres[a].mem \in Nat /\ SoldOn(Tables) \in Nat /\ TillOn(Tables) \in Nat
      /\ bytes <= SoldOn(Tables)
  <2>1. \A x \in Accounts : Mems(Tables)[x] = userres[x].mem /\ Mems(Tables)[x] \in Nat
    BY <1>2, <1>3, MemTypes
  <2>2. Mems(Tables)[a] <= SoldOn(Tables)
    BY <1>3, <2>1, AccountsAssumption, TotalBound DEF SoldOn
  <2>3. SoldOn(Tables) \in Nat /\ TillOn(Tables) \in Nat
    BY <1>3, MemTypes
  <2> QED
    BY <1>1, <1>3, <1>4, <2>1, <2>2, <2>3
<1>6. Good(m, Tables)
  BY <1>2, <1>5, SuppliedGood
<1> HIDE DEF Tables, m, out, mem
<1>7. /\ SoundBut(left, managed, {a}) /\ left.balance = Tables.balance
      /\ left.limits = Tables.limits /\ SoldOn(left) = SoldOn(Tables) + (-bytes)
      /\ \A x \in Accounts \ {a} : left.userres[x] = Tables.userres[x]
      /\ left.userres[a].mem = Tables.userres[a].mem + (-bytes)
  <2>1. -bytes \in Int /\ Tables.userres[a].mem + (-bytes) >= 0
    BY <1>1, <1>2, <1>4, <1>5 DEF mem
  <2> QED
    BY <1>3, <2>1, WithMemFacts
<1> HIDE DEF left
<1>8. Changes(left, a, a, -out, -out, FALSE)
  <2>1. -out \in Int /\ -out + -out < 0
    BY <1>1, <1>4
  <2> QED
    BY <1>1, <1>3, <2>1 DEF CanUndelegate, Changes
<1>9. Sound(new, managed)
  BY <1>2, <1>7, <1>8, ChangedSound
<1>c2. left \in TablesType /\ new \in TablesType
  BY <1>7, <1>9, SoundIs DEF SoundBut
<1>c3. Careful(left, new)
  BY <1>2, <1>8, <1>c0, <1>c2, ChangedCareful
<1>10. /\ SoldOn(new) = SoldOn(left) /\ TillOn(new) = TillOn(left)
       /\ \A x \in Accounts : new.userres[x].mem = left.userres[x].mem
  <2>1. SoundBut(left, managed, {a}) /\ half \in {0, 1}
    BY <1>2, <1>7
  <2>2. MemKept(left, new)
    BY <1>8, <2>1, ChangedMemKept
  <2> HIDE DEF new
  <2> QED
    BY <1>3, <2>2 DEF MemKept
<1>11. Covers(left, managed, {a})
  BY <1>2, <1>7 DEF Covers
<1>12. Covers(new, managed, {a})
  BY <1>2, <1>7, <1>8, <1>11, ChangedCovers
<1>13. mem \in Nat /\ mem = new.userres[a].mem
  <2>1. mem = userres[a].mem - bytes /\ mem \in Nat
    BY <1>1, <1>4, <1>5 DEF mem
  <2>2. new.userres[a].mem = userres[a].mem + (-bytes)
    BY <1>2, <1>3, <1>7, <1>10
  <2> QED
    BY <1>4, <1>5, <2>1, <2>2
<1> HIDE DEF new
<1>14. /\ Sound(s, managed) /\ s.balance = new.balance /\ s.row = new.row
       /\ s.userres = new.userres /\ Covers(s, managed, {})
  BY <1>3, <1>9, <1>12, <1>13, WithMemLimitFacts
<1>c4. Careful(new, s)
  BY <1>3, <1>c0, <1>c2, WithMemLimitCareful
<1> HIDE DEF s
<1>15. SoundBut(s, managed, {a}) /\ s \in TablesType /\ CanPay(s, MemAccount, a, out)
  BY <1>1, <1>3, <1>14, SoundIs DEF CanPay
<1>16. /\ SoundBut(u, managed, {a}) /\ u.userres = s.userres /\ u.limits = s.limits
       /\ MemAccount # a
       /\ u.balance[CoreSymbol] = [s.balance[CoreSymbol] EXCEPT ![MemAccount] = @ - out, ![a] = @ + out]
  BY <1>3, <1>4, <1>15, MemAccountFacts, PaymentBut
<1>c5. Careful(s, u)
  BY <1>3, <1>4, <1>15, <1>c0, MemAccountFacts, PaidCareful
<1> HIDE DEF u
<1>17. Covers(u, managed, {})
  BY <1>14, <1>16 DEF Covers
<1>18. Follows(u, managed, a)
  <2>1. Follows(s, managed, a)
    BY <1>3, <1>14 DEF Sound
  <2> QED
    BY <1>16, <2>1 DEF Follows
<1>19. Sound(u, managed)
  BY <1>16, <1>18 DEF SoundBut, SoundParts, Sound
<1>20. SoldOn(u) = SoldOn(Tables) - bytes /\ TillOn(u) = TillOn(Tables) - out
  <2>1. SoldOn(u) = SoldOn(new) /\ TillOn(s) = TillOn(new) /\ TillOn(left) = TillOn(Tables)
    BY <1>7, <1>14, <1>16 DEF SoldOn, TillOn, Mems
  <2>2. s.balance[CoreSymbol] \in [Accounts -> Nat]
    BY <1>15, CoreBalances
  <2>3. TillOn(u) = TillOn(s) - out
    BY <1>4, <1>16, <2>2, MemAccountFacts DEF TillOn
  <2> QED
    BY <1>4, <1>5, <1>7, <1>10, <2>1, <2>3
<1>21. Good(Sold(m, bytes), u)
  BY <1>1, <1>4, <1>5, <1>6, <1>20, SoldGood DEF out
<1>22. Careful(Tables, u)
  <2>1. u \in TablesType
    BY <1>19, SoundIs
  <2>2. Careful(Tables, new)
    BY <1>3, <1>c0, <1>c1, <1>c2, <1>c3, CarefulChain
  <2>3. Careful(Tables, s)
    BY <1>3, <1>15, <1>c0, <1>c2, <1>c4, <2>2, CarefulChain
  <2> QED
    BY <1>3, <1>15, <1>c0, <1>c5, <2>1, <2>3, CarefulChain
<1>23. MemMoved(Tables, u, a, -bytes)
  BY <1>3, <1>7, <1>10, <1>14, <1>16 DEF MemMoved
<1> QED
  BY <1>1, <1>17, <1>19, <1>21, <1>22, <1>23

(***************************************************************************)
(* The steps                                                               *)
(***************************************************************************)
\* Good and Covers look at little of the tables.
LEMMA GoodKept ==
  ASSUME NEW m, NEW t, NEW u, Good(m, t), SoldOn(u) = SoldOn(t),
         TillOn(t) \in Int, TillOn(u) \in Int, TillOn(u) >= TillOn(t)
  PROVE  Good(m, u)
<1>1. m.stake \in Nat
  BY DEF Good, Shaped
<1> QED
  BY <1>1 DEF Good, Conserved, Funded

\* A step that ends in tables t.
LEMMA MarketTablesStep ==
  ASSUME MarketInv, NEW t, Sound(t, managed), Covers(t, managed, {}), Good(market', t), Become(t),
         UNCHANGED <<stat, activity, managed, half>>
  PROVE  MarketInv'
<1>1. t \in TablesType
  BY SoundIs
<1>2. Tables' = t
  BY <1>1 DEF TablesType, Tables, Become
<1>3. StakingInv'
  BY TablesStep DEF MarketInv
<1> HIDE DEF Tables, Good, Covers
<1>4. Good(market, Tables)' /\ Covers(Tables, managed, {})'
  BY <1>2
<1> QED
  BY <1>3, <1>4 DEF MarketInv

\* A step that leaves memory and limits alone and takes nothing from inery.mem.
LEMMA MarketKeptStep ==
  ASSUME MarketInv, StakingInv', Good(market', Tables), userres' = userres, limits' = limits,
         managed' = managed,
         balance'[CoreSymbol][MemAccount] >= balance[CoreSymbol][MemAccount]
  PROVE  MarketInv'
<1>1. Sound(Tables, managed) /\ Sound(Tables, managed)' /\ Covers(Tables, managed, {})
  BY DEF MarketInv, StakingInv
<1>2. Tables \in TablesType /\ Tables' \in TablesType
  <2>1. Tables \in TablesType
    BY <1>1 DEF Sound
  <2>2. (Tables \in TablesType)'
    BY <1>1 DEF Sound
  <2> QED
    BY <2>1, <2>2
<1>3. /\ Tables.userres = userres /\ Tables'.userres = userres
      /\ Tables.limits = limits /\ Tables'.limits = limits
      /\ Tables.balance = balance /\ Tables'.balance = balance'
  BY DEF Tables
<1> HIDE DEF Tables
<1>4. SoldOn(Tables') = SoldOn(Tables)
  BY <1>3 DEF SoldOn, Mems
<1>5. TillOn(Tables) \in Nat /\ TillOn(Tables') \in Nat /\ TillOn(Tables') >= TillOn(Tables)
  BY <1>2, <1>3, MemTypes DEF TillOn
<1>6. Good(market', Tables')
  BY <1>4, <1>5, GoodKept
<1>7. Covers(Tables', managed', {})
  BY <1>1, <1>3 DEF Covers
<1> QED
  BY <1>6, <1>7 DEF MarketInv

LEMMA InvTypes ==
  ASSUME MarketInv
  PROVE  /\ Sound(Tables, managed) /\ half \in {0, 1} /\ Covers(Tables, managed, {})
         /\ Good(market, Tables) /\ Tables \in TablesType
         /\ SoldOn(Tables) \in Nat /\ TillOn(Tables) \in Nat
         /\ Good(Supplied(market), Tables)
         /\ balance[CoreSymbol][MemAccount] \in Nat
         /\ userres \in [Accounts -> Rows] /\ limits \in [Accounts -> Limits]
         /\ activity \in SUBSET Accounts /\ managed \in [Accounts -> SUBSET Resources]
<1>1. /\ Sound(Tables, managed) /\ half \in {0, 1} /\ Covers(Tables, managed, {})
      /\ Good(market, Tables) /\ Tables \in TablesType
  BY SoundIs DEF MarketInv, StakingInv
<1>2. SoldOn(Tables) \in Nat /\ TillOn(Tables) \in Nat
  BY <1>1, MemTypes
<1>3. Good(Supplied(market), Tables)
  BY <1>1, <1>2, SuppliedGood
<1>4. /\ TillOn(Tables) = balance[CoreSymbol][MemAccount]
      /\ userres \in [Accounts -> Rows] /\ limits \in [Accounts -> Limits]
  BY <1>1 DEF TillOn, Tables, TablesType
<1>5. activity \in SUBSET Accounts /\ managed \in [Accounts -> SUBSET Resources]
  BY AccountsAssumption DEF MarketInv, StakingInv, Sound
<1> QED
  BY <1>1, <1>2, <1>3, <1>4, <1>5

\* A trade makes of the tables what is sound, covered, good and careful.
Traded(u) ==
    /\ Become(u) /\ Sound(u, managed) /\ Covers(u, managed, {}) /\ Good(market', u)
    /\ Careful(Tables, u)

LEMMA BuyresourcesTables ==
  ASSUME MarketInv, NEW payer \in Signers, NEW receiver \in Receivers, NEW q \in Buys,
         Buyresources(payer, receiver, q)
  PROVE  \E u : Traded(u) /\ MemMoved(Tables, u, receiver, BytesFor(q))
<1> DEFINE u == AfterBuy(Tables, payer, receiver, q)
           m == Supplied(market)
<1>1. q \in Int /\ receiver \in Accounts
  BY MarketConstants, StakeAccountAssumption
<1>2. CanBuy(Tables, m, payer, receiver, q) /\ market' = Bought(m, q) /\ Become(u)
  BY DEF Buyresources
<1>3. /\ Sound(u, managed) /\ Covers(u, managed, {}) /\ Good(Bought(m, q), u)
      /\ Careful(Tables, u) /\ MemMoved(Tables, u, receiver, BytesFor(q))
  BY <1>1, <1>2, InvTypes, BuyGood
<1> HIDE DEF u, m
<1> QED
  BY <1>2, <1>3 DEF Traded

LEMMA BuymembytesTables ==
  ASSUME MarketInv, NEW payer \in Signers, NEW receiver \in Receivers, NEW bytes \in Bytes,
         Buymembytes(payer, receiver, bytes)
  PROVE  \E u : Traded(u) /\ MemMoved(Tables, u, receiver, BytesFor(ProceedsOf(bytes)))
<1> DEFINE price == ProceedsOf(bytes)
           new == AfterBuy(Tables, payer, receiver, price)
           u == Changed(new, payer, receiver, price, price, FALSE)
           m == Supplied(market)
<1>1. bytes \in Int /\ receiver \in Accounts /\ half \in {0, 1}
  BY MarketConstants, StakeAccountAssumption, InvTypes
<1>2. price \in Int
  BY <1>1, MarketConstants DEF ProceedsOf
<1>3. /\ CanBuy(Tables, m, payer, receiver, price) /\ market' = Bought(m, price) /\ Become(u)
      /\ CanDelegate(new, payer, receiver, price, price, FALSE)
  BY DEF Buymembytes
<1> HIDE DEF price
<1>4. /\ Sound(new, managed) /\ Covers(new, managed, {}) /\ Good(Bought(m, price), new)
      /\ Careful(Tables, new) /\ MemMoved(Tables, new, receiver, BytesFor(price))
  BY <1>1, <1>2, <1>3, InvTypes, BuyGood
<1> HIDE DEF new, m
<1>5. Changes(new, payer, receiver, price, price, FALSE)
  BY <1>1, <1>2, <1>3 DEF CanDelegate, Changes
<1>6. SoundBut(new, managed, {receiver}) /\ new \in TablesType
  BY <1>1, <1>4, SoundIs
<1>7. Sound(u, managed)
  BY <1>1, <1>5, <1>6, ChangedSound
<1>8. MemKept(new, u)
  BY <1>1, <1>5, <1>6, ChangedMemKept
<1>9. Covers(u, managed, {})
  BY <1>1, <1>4, <1>5, <1>6, ChangedCovers
<1>c. Careful(new, u)
  BY <1>1, <1>5, <1>6, InvTypes, ChangedCareful
<1> HIDE DEF u
<1>10. Good(market', u)
  <2>1. SoldOn(u) = SoldOn(new) /\ TillOn(u) = TillOn(new) /\ TillOn(new) \in Nat
    BY <1>6, <1>8, MemTypes DEF MemKept
  <2> QED
    BY <1>3, <1>4, <2>1, GoodKept
<1>11. Careful(Tables, u)
  BY <1>4, <1>6, <1>7, <1>c, InvTypes, SoundIs, CarefulChain
<1>12. MemMoved(Tables, u, receiver, BytesFor(price))
  BY <1>1, <1>4, <1>8 DEF MemMoved, MemKept
<1> QED
  BY <1>3, <1>7, <1>9, <1>10, <1>11, <1>12 DEF Traded, price

LEMMA MarketActionsTables ==
  ASSUME MarketInv, MarketActions
  PROVE  \E u : Traded(u)
<1>1. ASSUME NEW a \in Signers, NEW bytes \in Bytes, Sellres(a, bytes) PROVE \E u : Traded(u)
  <2>1. bytes \in Int
    BY MarketConstants
  <2> QED
    BY <1>1, <2>1, SellGood DEF Traded
<1> QED
  BY <1>1, BuyresourcesTables, BuymembytesTables DEF MarketActions

LEMMA MarketActionsStep ==
  ASSUME MarketInv, MarketActions
  PROVE  MarketInv'
<1>1. PICK u : Traded(u)
  BY MarketActionsTables
<1>2. UNCHANGED <<stat, activity, managed, half>>
  BY DEF MarketActions, Buyresources, Buymembytes, Sellres
<1> QED
  BY <1>1, <1>2, MarketTablesStep DEF Traded

\* setmem adds to what is for sale what it adds to the supply.
LEMMA SetmemStep ==
  ASSUME MarketInv, NEW size \in MemSizes, Setmem(size)
  PROVE  MarketInv'
<1>1. /\ market.base \in Nat /\ market.base # 0 /\ market.quote \in Nat /\ market.max \in Nat
      /\ market.stake \in Nat /\ market.rate \in Nat /\ market.since \in 0 .. MaxSince
      /\ market.reserved \in 0 .. Word - 1
      /\ market = [base |-> market.base, quote |-> market.quote, max |-> market.max,
                   reserved |-> market.reserved, stake |-> market.stake,
                   rate |-> market.rate, since |-> market.since]
  BY DEF MarketInv, Good, Shaped
<1>2. size \in Int /\ market.max < size
  BY MarketConstants DEF Setmem
<1>3. market' = [base |-> market.base + size - market.max, quote |-> market.quote, max |-> size,
                 reserved |-> market.reserved, stake |-> market.stake,
                 rate |-> market.rate, since |-> market.since]
  BY <1>1 DEF Setmem
<1>4. Shaped(market')
  BY <1>1, <1>2, <1>3 DEF Shaped
<1>5. Conserved(market', Tables)
  BY <1>1, <1>2, <1>3, InvTypes, MarketConstants DEF Good, Conserved
<1>6. Funded(market', Tables)
  BY <1>3, InvTypes DEF Good, Funded
<1>7. Good(market', Tables)
  BY <1>4, <1>5, <1>6 DEF Good
<1>8. UNCHANGED allVars
  BY DEF Setmem
<1>9. StakingInv'
  BY <1>8, StakingInvStep DEF MarketInv
<1> QED
  BY <1>7, <1>8, <1>9, InvTypes, MarketKeptStep DEF allVars, tokenVars, stakeVars

LEMMA SetmemrateStep ==
  ASSUME MarketInv, NEW rate \in Rates, Setmemrate(rate)
  PROVE  MarketInv'
<1> DEFINE m == Supplied(market)
<1>1. /\ Good(m, Tables) /\ rate \in Nat /\ market' = [m EXCEPT !.rate = rate]
  BY InvTypes, MarketConstants DEF Setmemrate
<1> HIDE DEF m
<1>2. market' = [base |-> m.base, quote |-> m.quote, max |-> m.max, reserved |-> m.reserved,
                 stake |-> m.stake, rate |-> rate, since |-> m.since]
  BY <1>1 DEF Good, Shaped
<1>3. Good(market', Tables)
  BY <1>1, <1>2 DEF Good, Shaped, Conserved, Funded
<1>4. UNCHANGED allVars
  BY DEF Setmemrate
<1>5. StakingInv'
  BY <1>4, StakingInvStep DEF MarketInv
<1> QED
  BY <1>3, <1>4, <1>5, InvTypes, MarketKeptStep DEF allVars, tokenVars, stakeVars

LEMMA ProducerRowStep ==
  ASSUME MarketInv, NEW a \in Signers,
         Regproducer(a) \/ Unregprod(a) \/ Rmvproducer(a) \/ Makeprod(a)
  PROVE  MarketInv'
<1>1. /\ market' = market /\ UNCHANGED stakeVars /\ balance' = balance /\ row' = row
      /\ activity' \subseteq activity \cup {a}
  BY DEF Regproducer, RegisterProducer, Unregprod, Rmvproducer, Makeprod, allVars, tokenVars
<1>2. /\ balance \in Balances /\ row \in [Symbols -> SUBSET Accounts] /\ activity \subseteq Signers
      /\ \A x \in Accounts : balance[CoreSymbol][x] > 0 => x \in row[CoreSymbol]
  BY CoreTypes DEF MarketInv
<1>3. balance[CoreSymbol][StakeAccount] \in Nat
  BY <1>2, SymbolAssumption, StakeAccountFacts DEF Balances
<1>4. StakingInv'
  BY <1>1, <1>2, <1>3, TrafficStep DEF MarketInv
<1> QED
  BY <1>1, <1>4, InvTypes, MarketKeptStep DEF stakeVars

(***************************************************************************)
(* The steps of staking                                                    *)
(***************************************************************************)
\* delegatebw and undelegatebw.
LEMMA ChangeMarketStep ==
  ASSUME MarketInv, NEW from, NEW to, NEW net, NEW cpu, NEW transfer,
         Changes(Tables, from, to, net, cpu, transfer),
         Become(Changed(Tables, from, to, net, cpu, transfer)),
         UNCHANGED <<stat, activity, managed, half, market>>
  PROVE  MarketInv'
<1> DEFINE u == Changed(Tables, from, to, net, cpu, transfer)
<1>1. to \in Accounts /\ half \in {0, 1}
  BY InvTypes DEF Changes
<1>2. SoundBut(Tables, managed, {to})
  BY <1>1, InvTypes, SoundIs
<1>3. Sound(u, managed)
  BY <1>1, <1>2, ChangedSound
<1>4. MemKept(Tables, u)
  BY <1>1, <1>2, ChangedMemKept
<1>5. Covers(u, managed, {})
  BY <1>1, <1>2, InvTypes, ChangedCovers
<1> HIDE DEF u
<1>6. Good(market', u)
  <2>1. SoldOn(u) = SoldOn(Tables) /\ TillOn(u) = TillOn(Tables)
    BY <1>4 DEF MemKept
  <2> QED
    BY <2>1, InvTypes, GoodKept
<1> QED
  BY <1>3, <1>5, <1>6, MarketTablesStep DEF u

\* A refund touches neither memory nor limits.
LEMMA RefundMemKept ==
  ASSUME MarketInv, NEW o \in Accounts, CanRefund(o)
  PROVE  /\ Refunded(o).userres = userres /\ Refunded(o).limits = limits
         /\ TillOn(Refunded(o)) >= TillOn(Tables) /\ Refunded(o) \in TablesType
<1> DEFINE p == Paid(Tables, StakeAccount, o, Weight(refunds[o]))
           q == Waiting(Tables)[o]
           c == balance[CoreSymbol]
           u == Refunded(o)
<1>1. p.userres = userres /\ p.limits = limits
  BY InvTypes DEF Paid, Tables, TablesType
<1>2. u = [p EXCEPT !.refunds[o] = NoRefund]
  BY DEF Refunded
<1>3. Sound(u, managed) /\ Released(Tables, u, o)
  BY InvTypes, RefundedSound
<1>4. u \in TablesType
  BY <1>3, SoundIs
<1>5. c \in [Accounts -> Nat] /\ Tables.balance[CoreSymbol] = c
  <2>1. Tables.balance = balance
    BY DEF Tables
  <2> QED
    BY <2>1, InvTypes, CoreBalances
<1> HIDE DEF p, q, c, Tables
<1>6. u.userres = userres /\ u.limits = limits
  BY <1>1, <1>2
<1> HIDE DEF u
<1>7. /\ q \in Nat
      /\ u.balance[CoreSymbol] = [c EXCEPT ![StakeAccount] = @ - q, ![o] = @ + q]
  BY <1>3, <1>5 DEF Released, q
<1>8. u.balance[CoreSymbol][MemAccount] >= c[MemAccount]
  BY <1>5, <1>7, MemAccountFacts, StakeAccountFacts
<1> QED
  BY <1>4, <1>5, <1>6, <1>8 DEF u, TillOn

LEMMA RefundHolds ==
  ASSUME MarketInv, NEW o \in Accounts, Refund(o) \/ RunDeferred(o)
  PROVE  /\ userres' = userres /\ limits' = limits
         /\ balance'[CoreSymbol][MemAccount] >= balance[CoreSymbol][MemAccount]
<1> DEFINE u == Refunded(o)
<1>1. Tables.userres = userres /\ Tables.limits = limits /\ Tables.balance = balance
  BY DEF Tables
<1>2. CASE CanRefund(o) /\ (Become(u) \/ Become(Spent(u, o)))
  <2>1. /\ u.userres = userres /\ u.limits = limits /\ u \in TablesType
        /\ u.balance[CoreSymbol][MemAccount] >= balance[CoreSymbol][MemAccount]
    BY <1>1, <1>2, RefundMemKept DEF TillOn
  <2> HIDE DEF u
  <2>2. /\ Spent(u, o).userres = u.userres /\ Spent(u, o).limits = u.limits
        /\ Spent(u, o).balance = u.balance
    BY <2>1 DEF Spent, TablesType
  <2> QED
    BY <1>2, <2>1, <2>2 DEF Become
<1>3. CASE Become(Spent(Tables, o))
  <2>1. /\ Spent(Tables, o).userres = userres /\ Spent(Tables, o).limits = limits
        /\ Spent(Tables, o).balance = balance
    BY DEF Spent, Tables
  <2>2. balance[CoreSymbol][MemAccount] \in Nat
    BY InvTypes
  <2> QED
    BY <1>3, <2>1, <2>2 DEF Become
<1> QED
  BY <1>2, <1>3 DEF Refund, RunDeferred

LEMMA RefundMarketStep ==
  ASSUME MarketInv, StakingInv', NEW o \in Accounts, market' = market, managed' = managed,
         Refund(o) \/ RunDeferred(o)
  PROVE  MarketInv'
BY RefundHolds, InvTypes, MarketKeptStep

\* The operator's limits: a limit that starts to follow again covers the memory.
LEMMA LimitsMarketStep ==
  ASSUME MarketInv, StakingInv', LimitActions, market' = market
  PROVE  MarketInv'
<1>0. /\ Sound(Tables, managed) /\ Sound(Tables, managed)'
      /\ userres \in [Accounts -> Rows] /\ limits \in [Accounts -> Limits]
      /\ managed \in [Accounts -> SUBSET Resources]
  BY StakeTypes, InvTypes DEF MarketInv, StakingInv
<1>1. balance' = balance /\ userres' = userres
  BY DEF LimitActions, SetALimits, SetAcct, ResetAcct, tokenVars
<1>2. \A x \in Accounts : (userres[x].row /\ "mem" \notin managed[x]) =>
         limits[x].mem = Unlimited \/ limits[x].mem >= userres[x].mem
  BY InvTypes DEF Covers, Tables
<1>3. ASSUME NEW x \in Accounts, userres[x].row, "mem" \notin managed'[x]
      PROVE  limits'[x].mem = Unlimited \/ limits'[x].mem >= userres[x].mem
  <2>0. PICK a \in Receivers :
          \/ \E m, n, c \in LimitValues : SetALimits(a, m, n, c)
          \/ \E r \in ManagedKinds : ResetAcct(a, r) \/ \E v \in LimitValues : SetAcct(a, r, v)
    BY DEF LimitActions
  <2>1. CASE x # a
    <3>1. limits'[x] = limits[x] /\ managed'[x] = managed[x]
      BY <1>0, <2>0, <2>1 DEF SetALimits, SetAcct, ResetAcct
    <3> QED
      BY <1>2, <1>3, <3>1
  <2>2. CASE x = a /\ \E m, n, c \in LimitValues : SetALimits(a, m, n, c)
    BY <1>3, <2>2 DEF SetALimits
  <2>3. ASSUME x = a, NEW r \in ManagedKinds, ResetAcct(a, r)
        PROVE  limits'[x].mem = Unlimited \/ limits'[x].mem >= userres[x].mem
    <3>1. CASE r = "mem"
      <4>1. limits' = [limits EXCEPT ![x]["mem"] = userres[x]["mem"] + MemGift]
        BY <2>3, <3>1 DEF ResetAcct
      <4>2. limits[x] \in Limits /\ userres[x].mem \in Nat
        BY <1>0 DEF Rows
      <4>3. limits'[x].mem = userres[x].mem + MemGift
        BY <1>0, <4>1, <4>2 DEF Limits
      <4> QED
        BY <4>2, <4>3, DelayFacts
    <3>2. CASE r # "mem"
      <4>1. managed'[x] = managed[x] \ {r}
        BY <1>0, <2>3 DEF ResetAcct
      <4>2. limits'[x].mem = limits[x].mem
        BY <1>0, <2>3, <3>2 DEF ResetAcct, Limits
      <4> QED
        BY <1>2, <1>3, <3>2, <4>1, <4>2
    <3> QED
      BY <3>1, <3>2
  <2>4. ASSUME x = a, NEW r \in ManagedKinds, NEW v \in LimitValues, SetAcct(a, r, v)
        PROVE  limits'[x].mem = Unlimited \/ limits'[x].mem >= userres[x].mem
    <3>1. managed'[x] = managed[x] \cup {r}
      BY <1>0, <2>4 DEF SetAcct
    <3>2. r # "mem" /\ "mem" \notin managed[x]
      BY <1>3, <3>1
    <3>3. limits'[x].mem = limits[x].mem
      BY <1>0, <2>4, <3>2 DEF SetAcct, Limits
    <3> QED
      BY <1>2, <1>3, <3>2, <3>3
  <2> QED
    BY <2>0, <2>1, <2>2, <2>3, <2>4
<1>4. /\ Tables'.userres = userres /\ Tables'.limits = limits' /\ Tables'.balance = balance
      /\ Tables.userres = userres /\ Tables.balance = balance
  BY <1>1 DEF Tables
<1> HIDE DEF Tables
<1>5. Covers(Tables', managed', {})
  BY <1>3, <1>4 DEF Covers
<1>6. SoldOn(Tables') = SoldOn(Tables) /\ TillOn(Tables') = TillOn(Tables)
  BY <1>4 DEF SoldOn, TillOn, Mems
<1>7. Good(market', Tables')
  BY <1>6, InvTypes, GoodKept
<1> QED
  BY <1>5, <1>7 DEF MarketInv

LEMMA StakingMarketStep ==
  ASSUME MarketInv, StakingStep
  PROVE  MarketInv'
<1>0. Signers \subseteq Accounts /\ market' = market
  BY AccountsAssumption DEF StakingStep, memVars
<1>1. StakingInv'
  <2>1. StakeNext
    BY DEF StakingStep, StakeNext, ChainActions
  <2> QED
    BY <2>1, StakingInvStep DEF MarketInv
<1>2. CASE StakeActions
  <2>1. ASSUME NEW from \in Signers, NEW to \in Receivers, NEW net \in StakeAmounts,
               NEW cpu \in StakeAmounts, NEW transfer \in BOOLEAN,
               Delegatebw(from, to, net, cpu, transfer)
        PROVE  MarketInv'
    <3>1. Changes(Tables, from, to, net, cpu, transfer)
      BY <2>1, DelegatebwChanges
    <3> QED
      BY <1>0, <2>1, <3>1, ChangeMarketStep DEF Delegatebw
  <2>2. ASSUME NEW from \in Signers, NEW to \in Receivers, NEW net \in StakeAmounts,
               NEW cpu \in StakeAmounts, Undelegatebw(from, to, net, cpu)
        PROVE  MarketInv'
    <3>1. Changes(Tables, from, to, -net, -cpu, FALSE)
      BY <2>2, UndelegatebwChanges
    <3> QED
      BY <1>0, <2>2, <3>1, ChangeMarketStep DEF Undelegatebw
  <2> QED
    BY <1>2, <2>1, <2>2 DEF StakeActions
<1>3. ASSUME NEW o \in Accounts, Refund(o) \/ RunDeferred(o) PROVE MarketInv'
  <2>1. managed' = managed
    BY <1>3 DEF Refund, RunDeferred
  <2> QED
    BY <1>0, <1>1, <1>3, <2>1, RefundMarketStep
<1>4. CASE LimitActions
  BY <1>0, <1>1, <1>4, LimitsMarketStep
<1> QED
  BY <1>0, <1>2, <1>3, <1>4 DEF StakingStep

\* Time passes, and the slots since the supply was updated are counted.
LEMMA MarketTickStep ==
  ASSUME MarketInv, MarketTick
  PROVE  MarketInv'
<1>1. StakingInv'
  BY TickStep DEF MarketInv, MarketTick
<1>2. /\ market.since \in Nat /\ market.since + 1 \in 0 .. MaxSince
      /\ market = [base |-> market.base, quote |-> market.quote, max |-> market.max,
                   reserved |-> market.reserved, stake |-> market.stake,
                   rate |-> market.rate, since |-> market.since]
  BY MarketConstants DEF MarketInv, Good, Shaped, MarketTick
<1>3. market' = [base |-> market.base, quote |-> market.quote, max |-> market.max,
                 reserved |-> market.reserved, stake |-> market.stake,
                 rate |-> market.rate, since |-> market.since + 1]
  BY <1>2 DEF MarketTick
<1>4. Good(market', Tables)
  BY <1>2, <1>3, InvTypes DEF Good, Shaped, Conserved, Funded
<1>5. userres' = userres /\ limits' = limits /\ managed' = managed /\ balance' = balance
  BY DEF MarketTick, Tick, tokenVars
<1> QED
  BY <1>1, <1>4, <1>5, InvTypes, MarketKeptStep

(***************************************************************************)
(* The invariant and what follows from it                                  *)
(***************************************************************************)
LEMMA MarketInvInit == MemInit => MarketInv
<1> SUFFICES ASSUME MemInit PROVE MarketInv
  OBVIOUS
<1>1. StakingInv
  BY StakingInvInit DEF MemInit
<1>2. Tables \in TablesType
  BY <1>1, SoundIs DEF StakingInv
<1>3. \A a \in Accounts : userres[a].mem = 0
  BY DEF MemInit, StakeInit
<1>4. Tables.userres = userres /\ Tables.limits = limits
  BY DEF Tables
<1>5. SoldOn(Tables) = 0
  <2>1. \A a \in Accounts : Mems(Tables)[a] = 0
    BY <1>3, <1>4 DEF Mems
  <2> QED
    BY <2>1, TotalZero DEF SoldOn
<1>6. TillOn(Tables) \in Nat
  BY <1>2, MemTypes
<1>7. market = [base |-> InitialBase, quote |-> InitialQuote, max |-> InitialMax,
                reserved |-> 0, stake |-> 0, rate |-> 0, since |-> 0]
  BY DEF MemInit
<1>8. Shaped(market)
  <2>1. 0 \in 0 .. Word - 1 /\ 0 \in 0 .. MaxSince /\ InitialBase \in Nat \ {0}
    BY MarketConstants
  <2> QED
    BY <1>7, <2>1, MarketConstants DEF Shaped
<1>9. Conserved(market, Tables) /\ Funded(market, Tables)
  BY <1>5, <1>6, <1>7, MarketConstants DEF Conserved, Funded
<1>10. Covers(Tables, managed, {})
  <2>1. ASSUME NEW a \in Accounts, userres[a].row PROVE limits[a].mem = 0
    <3>1. a \in NewAccounts
      BY <2>1 DEF MemInit, StakeInit
    <3> QED
      BY <3>1 DEF MemInit, StakeInit
  <2> QED
    BY <1>3, <1>4, <2>1 DEF Covers
<1> QED
  BY <1>1, <1>8, <1>9, <1>10 DEF MarketInv, Good

LEMMA MarketInvStep ==
  ASSUME MarketInv, [MemNext]_systemVars
  PROVE  MarketInv'
<1>1. CASE MarketActions
  BY <1>1, MarketActionsStep
<1>2. CASE OperatorActions
  BY <1>2, SetmemStep, SetmemrateStep DEF OperatorActions
<1>3. CASE ProducerActions
  BY <1>3, ProducerRowStep DEF ProducerActions
<1>4. CASE StakingStep
  BY <1>4, StakingMarketStep
<1>5. CASE MarketTick
  BY <1>5, MarketTickStep
<1>6. CASE UNCHANGED systemVars
  <2>1. UNCHANGED allVars /\ market' = market
    BY <1>6 DEF systemVars, memVars
  <2>2. StakingInv'
    BY <2>1, StakingInvStep DEF MarketInv
  <2> QED
    BY <2>1, <2>2, InvTypes, MarketKeptStep DEF allVars, tokenVars, stakeVars
<1> QED
  BY <1>1, <1>2, <1>3, <1>4, <1>5, <1>6 DEF MemNext

\* The invariant of staking and the market's own hold together.
THEOREM MarketInvariant == MemSpec => []MarketInv
<1>1. MemInit => MarketInv
  BY MarketInvInit
<1>2. MarketInv /\ [MemNext]_systemVars => MarketInv'
  BY MarketInvStep
<1> QED
  BY <1>1, <1>2, PTL DEF MemSpec

\* Every step leaves a role to every account.
LEMMA RolesStep ==
  ASSUME producers \in [Accounts -> {"none", "registered", "producing"}], [MemNext]_systemVars
  PROVE  producers' \in [Accounts -> {"none", "registered", "producing"}]
<1>1. CASE UNCHANGED producers
  BY <1>1
<1>2. CASE ProducerActions
  <2>1. PICK a \in Signers : Regproducer(a) \/ Unregprod(a) \/ Rmvproducer(a) \/ Makeprod(a)
    BY <1>2 DEF ProducerActions
  <2> QED
    BY <2>1 DEF Regproducer, Unregprod, Rmvproducer, Makeprod
<1> QED
  BY <1>1, <1>2 DEF MemNext, MarketActions, OperatorActions, StakingStep, MarketTick, memVars,
       systemVars, Buyresources, Buymembytes, Sellres, Setmem, Setmemrate

\* The market's fields keep their types. Something is always left for sale, the
\* reserve and the counters never become negative, and the reserved counter, which
\* a sale lowers by a float, stays a number of its width.
THEOREM MarketTypes == MemSpec => []MarketTypeOK
<1> DEFINE Roles == producers \in [Accounts -> {"none", "registered", "producing"}]
<1>1. MarketInv /\ Roles => MarketTypeOK
  BY DEF MarketInv, Good, Shaped, MarketTypeOK
<1>2. MemInit => Roles
  BY DEF MemInit
<1>3. Roles /\ [MemNext]_systemVars => Roles'
  BY RolesStep
<1> HIDE DEF Roles
<1> QED
  BY <1>1, <1>2, <1>3, MarketInvariant, PTL DEF MemSpec

\* Memory is conserved: buyresources, buymembytes, sellres, the growth of the
\* supply and setmem keep what is for sale and what is held in step with it.
THEOREM MarketConserves == MemSpec => []MemConserved
<1>1. MarketInv => MemConserved
  <2> SUFFICES ASSUME MarketInv PROVE MemConserved
    OBVIOUS
  <2>1. Conserved(market, Tables)
    BY DEF MarketInv, Good
  <2>2. SoldOn(Tables) = MemSold
    BY DEF SoldOn, Mems, MemSold, Tables
  <2> QED
    BY <2>1, <2>2 DEF Conserved, MemConserved
<1> QED
  BY <1>1, MarketInvariant, PTL

\* inery.mem holds what was paid for memory, and that buys all memory back.
THEOREM MarketBacked == MemSpec => []MemBacked
<1>1. MarketInv => MemBacked
  <2> SUFFICES ASSUME MarketInv PROVE MemBacked
    OBVIOUS
  <2>1. Funded(market, Tables)
    BY DEF MarketInv, Good
  <2>2. SoldOn(Tables) = MemSold /\ TillOn(Tables) = balance[CoreSymbol][MemAccount]
    BY DEF SoldOn, Mems, MemSold, Tables, TillOn
  <2> QED
    BY <2>1, <2>2 DEF Funded, MemBacked
<1> QED
  BY <1>1, MarketInvariant, PTL

\* An account may use the memory it has bought, however trades, changes of stake
\* and the operator's changes of limits follow one another.
THEOREM MarketCovers == MemSpec => []MemLimitCovers
<1>1. MarketInv => MemLimitCovers
  BY DEF MarketInv, Covers, Tables, MemLimitCovers
<1> QED
  BY <1>1, MarketInvariant, PTL

\* The tables of stake agree, inery.stake is covered and limits follow stake
\* although a purchase and a sale change stake in their middle.
THEOREM MarketStakeSound == MemSpec => [](StakeTablesAgree /\ StakeBacked /\ LimitsFollowStake)
<1>1. MarketInv => StakeTablesAgree /\ StakeBacked /\ LimitsFollowStake
  BY AgreementFollows DEF MarketInv
<1> QED
  BY <1>1, MarketInvariant, PTL
(***************************************************************************)
(* What staking promises and the token promises, with trades               *)
(***************************************************************************)
\* Every step is a trade or a step that staking knows: whoever takes office,
\* leaves it or is removed does no more than switch its lock.
LEMMA TradeOrStaking ==
  ASSUME [MemNext]_systemVars
  PROVE  MarketActions \/ [StakeNext]_allVars
<1>1. CASE OperatorActions
  BY <1>1 DEF OperatorActions, Setmem, Setmemrate
<1>2. ASSUME NEW a \in Signers, Regproducer(a) \/ Unregprod(a) \/ Rmvproducer(a) \/ Makeprod(a)
      PROVE  [StakeNext]_allVars
  <2>1. CASE Regproducer(a) \/ Makeprod(a)
    <3>1. RegisterProducer(a) /\ UNCHANGED stakeVars
      BY <2>1 DEF Regproducer, Makeprod, RegisterProducer
    <3> QED
      BY <3>1 DEF TokenTraffic, StakeNext
  <2>2. CASE Unregprod(a)
    <3>1. CASE a \in activity
      <4>1. UnregisterProducer(a) /\ UNCHANGED stakeVars
        BY <2>2, <3>1 DEF Unregprod, UnregisterProducer
      <4> QED
        BY <4>1 DEF TokenTraffic, StakeNext
    <3>2. CASE a \notin activity
      BY <2>2, <3>2 DEF Unregprod, allVars, tokenVars
    <3> QED
      BY <3>1, <3>2
  <2>3. CASE Rmvproducer(a)
    BY <2>3 DEF Rmvproducer
  <2> QED
    BY <1>2, <2>1, <2>2, <2>3
<1>3. CASE StakingStep \/ MarketTick
  BY <1>3 DEF StakingStep, MarketTick, StakeNext, ChainActions
<1> QED
  BY <1>1, <1>2, <1>3 DEF MemNext, ProducerActions, systemVars

LEMMA MarketKeeps ==
  ASSUME MarketInv, [MemNext]_systemVars
  PROVE  /\ Fair(balance, row, balance', row') /\ stat' = stat
         /\ \A a \in Accounts : ClockStep(a) /\ FlagStep(a)
         /\ balance'[CoreSymbol][StakeAccount] < balance[CoreSymbol][StakeAccount]
              => [StakeNext]_allVars
<1>1. CASE MarketActions
  <2>1. stat' = stat
    BY <1>1 DEF MarketActions, Buyresources, Buymembytes, Sellres
  <2>2. PICK u : Traded(u)
    BY <1>1, MarketActionsTables
  <2>3. u \in TablesType /\ Careful(Tables, u) /\ Become(u) /\ Tables \in TablesType
    BY <2>2, InvTypes, SoundIs DEF Traded
  <2>4. Tables.balance = balance /\ Tables.row = row
    BY DEF Tables
  <2>5. Fair(balance, row, balance', row')
    BY <2>3, <2>4 DEF Careful, FairOn, Become
  <2>6. \A a \in Accounts : ClockStep(a) /\ FlagStep(a)
    BY <2>3, CarefulSteps
  <2>7. balance'[CoreSymbol][StakeAccount] >= balance[CoreSymbol][StakeAccount]
    BY <2>3, <2>4 DEF Careful, Become
  <2>8. /\ balance'[CoreSymbol][StakeAccount] \in Nat
        /\ balance[CoreSymbol][StakeAccount] \in Nat
    BY <2>3, <2>4, CoreBalances, StakeAccountFacts DEF Become
  <2> QED
    BY <2>1, <2>5, <2>6, <2>7, <2>8
<1>2. CASE [StakeNext]_allVars
  BY <1>2, NextFair, NextKeeps DEF MarketInv
<1> QED
  BY <1>1, <1>2, TradeOrStaking

\* The tables of staking keep their types through purchases and sales.
THEOREM MarketStakeTypes == MemSpec => []StakeTypeOK
<1>1. MarketInv => StakeTypeOK
  BY TypesFollow DEF MarketInv
<1> QED
  BY <1>1, MarketInvariant, PTL

\* A sale withdraws stake, too; its refund never runs before it is due.
THEOREM MarketNotEarly == MemSpec => []DeferredNotEarly
<1>1. MarketInv => DeferredNotEarly
  BY NotEarlyFollows DEF MarketInv
<1> QED
  BY <1>1, MarketInvariant, PTL

\* Nor do trades take what a refund that is due needs.
THEOREM MarketPayable ==
  ASSUME Creator \notin Signers
  PROVE  MemSpec => []RefundPayable
<1>1. MarketInv => RefundPayable
  BY PayableFollows DEF MarketInv
<1> QED
  BY <1>1, MarketInvariant, PTL

\* A purchase and a sale leave the limits alone that the operator manages, in
\* whatever order their memory, their stake and their limits are written.
THEOREM MarketManaged == MemSpec => ManagedLimitsStay
<1> DEFINE Kept == \A a \in Accounts : userres'[a] # userres[a] =>
                     \A r \in managed[a] : limits'[a][r] = limits[a][r]
<1>1. MarketInv /\ [MemNext]_systemVars => Kept
  BY MarketKeeps DEF FlagStep
<1>2. ManagedLimitsStay <=> [][Kept]_allVars
  BY PTL DEF ManagedLimitsStay
<1> QED
  BY <1>1, <1>2, MarketInvariant, PTL DEF MemSpec

\* A sale that adds to a refund starts its clock again.
THEOREM MarketClock == MemSpec => WithdrawalRestartsClock
<1> DEFINE Kept == \A a \in Accounts :
                     Weight(refunds'[a]) > Weight(refunds[a]) => refunds'[a].age <= 1
<1>1. MarketInv /\ [MemNext]_systemVars => Kept
  BY MarketKeeps DEF ClockStep
<1>2. WithdrawalRestartsClock <=> [][Kept]_allVars
  BY PTL DEF WithdrawalRestartsClock
<1> QED
  BY <1>1, <1>2, MarketInvariant, PTL DEF MemSpec

\* Tokens leave inery.stake only as one whole refund: what a sale pays comes out
\* of inery.mem.
THEOREM MarketPays == MemSpec => StakePaysDueRefunds
<1> DEFINE Kept == balance'[CoreSymbol][StakeAccount] < balance[CoreSymbol][StakeAccount] =>
                     \E a \in Accounts :
                        /\ Due(refunds[a]) /\ Weight(refunds'[a]) = 0
                        /\ balance'[CoreSymbol] = [balance[CoreSymbol] EXCEPT
                               ![StakeAccount] = @ - Weight(refunds[a]),
                               ![a] = @ + Weight(refunds[a])]
<1>1. MarketInv /\ [MemNext]_systemVars => Kept
  BY MarketKeeps, NextPays DEF MarketInv
<1>2. StakePaysDueRefunds <=> [][Kept]_allVars
  BY PTL DEF StakePaysDueRefunds
<1> QED
  BY <1>1, <1>2, MarketInvariant, PTL DEF MemSpec

\* Every trade's transfers together keep the supply the sum of the balances.
THEOREM MarketToken == MemSpec => [](Conservation /\ Backed)
<1>1. MarketInv /\ Conservation /\ Backed /\ [MemNext]_systemVars => (Conservation /\ Backed)'
  BY MarketKeeps, FairKeeps
<1>2. MemInit => Conservation /\ Backed
  BY StakeInitToken DEF MemInit
<1> QED
  BY <1>1, <1>2, MarketInvariant, PTL DEF MemSpec

\* A purchase pays for memory and for stake: not even both together take from an
\* active producer what it has to keep.
THEOREM MarketLock == MemSpec => ProducerLock
<1>1. MarketInv /\ Conservation /\ Backed /\ [MemNext]_systemVars => LockKept
  BY MarketKeeps, FairKeeps
<1>2. ProducerLock <=> [][LockKept]_tokenVars
  BY PTL DEF ProducerLock, LockKept
<1> QED
  BY <1>1, <1>2, MarketToken, MarketInvariant, PTL DEF MemSpec
(***************************************************************************)
(* The market is a depot                                                   *)
(***************************************************************************)
\* What the depot says that each holds.
HeldBy == [a \in Accounts |-> userres[a].mem]

\* The market keeps its own books in step with the tables.
LEMMA HeldMoves ==
  ASSUME MarketInv, NEW u, Traded(u), NEW a \in Accounts, NEW n \in Int,
         MemMoved(Tables, u, a, n)
  PROVE  /\ HeldBy' = [HeldBy EXCEPT ![a] = @ + n]
         /\ userres[a].mem \in Nat
<1>1. Tables.userres = userres /\ userres' = u.userres
  BY DEF Traded, Become, Tables
<1>2. userres \in [Accounts -> Rows]
  BY InvTypes
<1>3. \A x \in Accounts : userres'[x].mem = IF x = a THEN userres[x].mem + n ELSE userres[x].mem
  BY <1>1 DEF MemMoved
<1> QED
  BY <1>2, <1>3 DEF HeldBy, Rows

\* The supply only grows.
LEMMA SuppliedMore ==
  ASSUME MarketInv
  PROVE  /\ Supplied(market).base >= market.base /\ Supplied(market).stake = market.stake
         /\ Supplied(market) \in [base : Nat \ {0}, quote : Nat, max : Nat,
                                  reserved : 0 .. Word - 1, stake : Nat, rate : Nat,
                                  since : 0 .. MaxSince]
         /\ market.base \in Nat \ {0} /\ market.stake \in Nat
<1> DEFINE new == (market.since * market.rate) % SlotWord
<1>1. Shaped(market) /\ Shaped(Supplied(market))
  BY InvTypes DEF Good
<1>2. new \in Nat
  <2>1. market.since * market.rate \in Nat
    <3>1. market.since \in Nat /\ market.rate \in Nat
      BY <1>1 DEF Shaped
    <3> QED
      BY <3>1
  <2> QED
    BY <2>1, MarketConstants
<1>3. Supplied(market) = [market EXCEPT !.max = @ + new, !.base = @ + new, !.since = 0]
  BY DEF Supplied
<1> HIDE DEF new
<1>4. Supplied(market).base = market.base + new /\ Supplied(market).stake = market.stake
  BY <1>1, <1>3 DEF Shaped
<1> QED
  BY <1>1, <1>2, <1>4 DEF Shaped

\* A purchase of q tokens' worth.
LEMMA BuySells ==
  ASSUME MarketInv, NEW a \in Accounts, NEW q \in Nat, BytesFor(q) > 0, q > 0,
         Supplied(market).base - BytesFor(q) > BytesFor(q),
         market' = Bought(Supplied(market), q),
         HeldBy' = [HeldBy EXCEPT ![a] = @ + BytesFor(q)]
  PROVE  Trader!Sell(a)
<1> DEFINE n == BytesFor(q)
           m == Supplied(market)
<1>1. n \in Nat /\ n * Precision <= q * BytesPerINR
  BY BytesForFacts
<1>2. /\ m.base >= market.base /\ m.stake = market.stake /\ m.base \in Nat /\ m.stake \in Nat
      /\ m \in [base : Nat \ {0}, quote : Nat, max : Nat, reserved : 0 .. Word - 1, stake : Nat,
                rate : Nat, since : 0 .. MaxSince]
      /\ market.base \in Nat
  BY SuppliedMore
<1> DEFINE res == (m.reserved + (n * m.max) \div m.base) % Word
<1>3. market' = [m EXCEPT !.base = @ - n, !.quote = @ + q, !.reserved = res, !.stake = @ + q]
  BY DEF Bought
<1> HIDE DEF n, m, res
<1>4. market'.base = m.base - n /\ market'.stake = market.stake + q
  BY <1>2, <1>3
<1>5. n > 0 /\ m.base - n > n
  BY DEF n, m
<1>6. /\ n \in 1 .. market'.base - 1 /\ q \in 1 .. market'.stake
      /\ market'.base + n >= market.base
  BY <1>1, <1>2, <1>4, <1>5
<1>7. HeldBy' = [HeldBy EXCEPT ![a] = @ + n]
  BY DEF n
<1> QED
  BY <1>1, <1>4, <1>6, <1>7 DEF Trader!Sell, Trader!Trade, HeldBy

LEMMA SellTakesBack ==
  ASSUME MarketInv, NEW a \in Signers, NEW bytes \in Int, Sellres(a, bytes)
  PROVE  Trader!TakeBack(a)
<1> DEFINE q == ProceedsOf(bytes)
           m == Supplied(market)
<1>1. /\ bytes > 0 /\ userres[a].mem - bytes >= 0 /\ q > 1 /\ Sold(m, bytes).stake >= 0
      /\ market' = Sold(m, bytes)
  BY DEF Sellres
<1>2. a \in Accounts /\ bytes \in Nat /\ -bytes \in Int
  BY <1>1, AccountsAssumption
<1>3. q \in Nat /\ q * BytesPerINR <= bytes * Precision
  BY <1>2, ProceedsFacts
<1>4. PICK u : Traded(u) /\ MemMoved(Tables, u, a, -bytes)
  BY SellGood DEF Traded
<1>5. HeldBy' = [HeldBy EXCEPT ![a] = @ + (-bytes)] /\ userres[a].mem \in Nat
  BY <1>2, <1>4, HeldMoves
<1>6. /\ m.base >= market.base /\ m.stake = market.stake /\ m.base \in Nat /\ m.stake \in Nat
      /\ m \in [base : Nat \ {0}, quote : Nat, max : Nat, reserved : 0 .. Word - 1, stake : Nat,
                rate : Nat, since : 0 .. MaxSince]
      /\ market.base \in Nat
  BY SuppliedMore
<1> DEFINE res == (m.reserved - FloatFloor(((bytes \div BytesPerINR) * BytesPerINR) * m.max,
                                           m.base + bytes)) % Word
<1>7. market' = [m EXCEPT !.base = m.base + bytes, !.quote = @ - q, !.reserved = res, !.stake = @ - q]
  BY <1>1 DEF Sold
<1>8. market'.stake >= 0
  BY <1>1
<1> HIDE DEF q, m, res
<1>9. market'.base = m.base + bytes /\ market'.stake = market.stake + (-q)
  BY <1>3, <1>6, <1>7
<1>10. /\ bytes \in 1 .. HeldBy[a] /\ q \in 1 .. market.stake
       /\ market'.base >= market.base + bytes
  BY <1>1, <1>2, <1>3, <1>5, <1>6, <1>8, <1>9 DEF HeldBy
<1> QED
  BY <1>3, <1>5, <1>9, <1>10 DEF Trader!TakeBack, Trader!Trade, HeldBy

\* The steps of staking leave every account its memory.
LEMMA StakingHolds ==
  ASSUME MarketInv, StakingStep
  PROVE  HeldBy' = HeldBy
<1>0. Tables.userres = userres
  BY DEF Tables
<1>1. ASSUME NEW from, NEW to, NEW net, NEW cpu, NEW transfer,
             Changes(Tables, from, to, net, cpu, transfer),
             Become(Changed(Tables, from, to, net, cpu, transfer))
      PROVE  HeldBy' = HeldBy
  <2> DEFINE u == Changed(Tables, from, to, net, cpu, transfer)
  <2>1. to \in Accounts /\ half \in {0, 1}
    BY <1>1, InvTypes DEF Changes
  <2>2. SoundBut(Tables, managed, {to})
    BY <2>1, InvTypes, SoundIs
  <2>3. MemKept(Tables, u)
    BY <1>1, <2>1, <2>2, ChangedMemKept
  <2> HIDE DEF u
  <2> QED
    BY <1>0, <1>1, <2>3 DEF MemKept, HeldBy, Become, u
<1>2. CASE StakeActions
  <2>1. ASSUME NEW from \in Signers, NEW to \in Receivers, NEW net \in StakeAmounts,
               NEW cpu \in StakeAmounts, NEW transfer \in BOOLEAN,
               Delegatebw(from, to, net, cpu, transfer)
        PROVE  HeldBy' = HeldBy
    BY <1>1, <2>1, DelegatebwChanges DEF Delegatebw
  <2>2. ASSUME NEW from \in Signers, NEW to \in Receivers, NEW net \in StakeAmounts,
               NEW cpu \in StakeAmounts, Undelegatebw(from, to, net, cpu)
        PROVE  HeldBy' = HeldBy
    BY <1>1, <2>2, UndelegatebwChanges DEF Undelegatebw
  <2> QED
    BY <1>2, <2>1, <2>2 DEF StakeActions
<1>3. ASSUME NEW o \in Accounts, Refund(o) \/ RunDeferred(o)
      PROVE  HeldBy' = HeldBy
  BY <1>3, RefundHolds DEF HeldBy
<1>4. CASE LimitActions
  BY <1>4 DEF LimitActions, SetALimits, SetAcct, ResetAcct, HeldBy
<1> QED
  BY <1>2, <1>3, <1>4, AccountsAssumption DEF StakingStep

LEMMA DepotStep ==
  ASSUME MarketInv, [MemNext]_systemVars
  PROVE  [Trader!Next]_(Trader!vars)
<1>1. ASSUME NEW payer \in Signers, NEW a \in Receivers, NEW q \in Buys, Buyresources(payer, a, q)
      PROVE  Trader!Next
  <2>1. /\ a \in Accounts /\ q \in Int /\ q > 0 /\ BytesFor(q) > 0
        /\ Supplied(market).base - BytesFor(q) > BytesFor(q)
        /\ market' = Bought(Supplied(market), q)
    BY <1>1, MarketConstants, StakeAccountAssumption DEF Buyresources, CanBuy
  <2>2. PICK u : Traded(u) /\ MemMoved(Tables, u, a, BytesFor(q))
    BY <1>1, BuyresourcesTables
  <2>3. q \in Nat /\ BytesFor(q) \in Int
    BY <2>1, BytesForFacts
  <2>4. HeldBy' = [HeldBy EXCEPT ![a] = @ + BytesFor(q)]
    BY <2>1, <2>2, <2>3, HeldMoves
  <2>5. Trader!Sell(a)
    BY <2>1, <2>3, <2>4, BuySells
  <2> QED
    BY <2>1, <2>5 DEF Trader!Next
<1>2. ASSUME NEW payer \in Signers, NEW a \in Receivers, NEW b \in Bytes, Buymembytes(payer, a, b)
      PROVE  Trader!Next
  <2> DEFINE q == ProceedsOf(b)
  <2>1. /\ a \in Accounts /\ q \in Int /\ q > 0 /\ BytesFor(q) > 0
        /\ Supplied(market).base - BytesFor(q) > BytesFor(q)
        /\ market' = Bought(Supplied(market), q)
    <3>1. b \in Int /\ a \in Accounts
      BY MarketConstants, StakeAccountAssumption
    <3>2. q \in Int
      BY <3>1, MarketConstants DEF ProceedsOf
    <3> HIDE DEF q
    <3> QED
      BY <1>2, <3>1, <3>2 DEF Buymembytes, CanBuy, q
  <2>2. PICK u : Traded(u) /\ MemMoved(Tables, u, a, BytesFor(q))
    BY <1>2, BuymembytesTables
  <2> HIDE DEF q
  <2>3. q \in Nat /\ BytesFor(q) \in Int
    BY <2>1, BytesForFacts
  <2>4. HeldBy' = [HeldBy EXCEPT ![a] = @ + BytesFor(q)]
    BY <2>1, <2>2, <2>3, HeldMoves
  <2>5. Trader!Sell(a)
    BY <2>1, <2>3, <2>4, BuySells
  <2> QED
    BY <2>1, <2>5 DEF Trader!Next
<1>3. ASSUME NEW a \in Signers, NEW b \in Bytes, Sellres(a, b)
      PROVE  Trader!Next
  <2>1. b \in Int /\ a \in Accounts
    BY MarketConstants, AccountsAssumption
  <2>2. Trader!TakeBack(a)
    BY <1>3, <2>1, SellTakesBack
  <2> QED
    BY <2>1, <2>2 DEF Trader!Next
<1>4. ASSUME NEW size \in MemSizes, Setmem(size)
      PROVE  Trader!Next
  <2>1. /\ market.max \in Nat /\ size \in Int /\ market.max < size
        /\ market' = [market EXCEPT !.max = size, !.base = @ + size - market.max]
        /\ market \in [base : Nat \ {0}, quote : Nat, max : Nat, reserved : 0 .. Word - 1,
                       stake : Nat, rate : Nat, since : 0 .. MaxSince]
    BY <1>4, InvTypes, MarketConstants DEF Setmem, Good, Shaped
  <2>2. market'.base = market.base + size - market.max /\ market'.stake = market.stake
    BY <2>1
  <2>3. market'.base > market.base
    BY <2>1, <2>2
  <2>4. userres' = userres
    BY <1>4 DEF Setmem, allVars, stakeVars
  <2> QED
    BY <2>2, <2>3, <2>4 DEF Trader!Next, Trader!Restock
<1>5. ASSUME NEW rate \in Rates, Setmemrate(rate)
      PROVE  [Trader!Next]_(Trader!vars)
  <2> DEFINE m == Supplied(market)
  <2>1. /\ m.base >= market.base /\ m.stake = market.stake
        /\ m \in [base : Nat \ {0}, quote : Nat, max : Nat, reserved : 0 .. Word - 1, stake : Nat,
                  rate : Nat, since : 0 .. MaxSince]
        /\ market.base \in Nat
    BY SuppliedMore
  <2>2. market' = [m EXCEPT !.rate = rate] /\ userres' = userres
    BY <1>5 DEF Setmemrate, allVars, stakeVars
  <2> HIDE DEF m
  <2>3. market'.base = m.base /\ market'.stake = market.stake
    BY <2>1, <2>2
  <2>4. market'.base > market.base \/ market'.base = market.base
    BY <2>1, <2>3
  <2> QED
    BY <2>2, <2>3, <2>4 DEF Trader!Next, Trader!Restock, Trader!vars
<1>6. CASE MarketTick
  <2>1. /\ market' = [market EXCEPT !.since = @ + 1] /\ userres' = userres
        /\ market \in [base : Nat \ {0}, quote : Nat, max : Nat, reserved : 0 .. Word - 1,
                       stake : Nat, rate : Nat, since : 0 .. MaxSince]
    BY <1>6, InvTypes DEF MarketTick, Tick, Good, Shaped
  <2>2. market'.base = market.base /\ market'.stake = market.stake
    BY <2>1
  <2> QED
    BY <2>1, <2>2 DEF Trader!vars
<1>7. CASE StakingStep
  BY <1>7, StakingHolds DEF StakingStep, memVars, HeldBy, Trader!vars
<1>8. CASE ProducerActions \/ UNCHANGED systemVars
  <2>1. market' = market /\ userres' = userres
    BY <1>8 DEF ProducerActions, Regproducer, Unregprod, Rmvproducer, Makeprod, systemVars,
                memVars, allVars, stakeVars
  <2> QED
    BY <2>1 DEF Trader!vars
<1> QED
  BY <1>1, <1>2, <1>3, <1>4, <1>5, <1>6, <1>7, <1>8 DEF MemNext, MarketActions, OperatorActions

\* The market implements the depot: every trade is at the price, on one account,
\* and what buyers paid is there for those who sell.
THEOREM MarketDepot == MemSpec => ImplementsDepot
<1>1. MemInit => Trader!Init
  BY DEF MemInit, StakeInit, Trader!Init
<1>2. MarketInv /\ [MemNext]_systemVars => [Trader!Next]_(Trader!vars)
  BY DepotStep
<1> QED
  BY <1>1, <1>2, MarketInvariant, PTL DEF MemSpec, ImplementsDepot
=============================================================================

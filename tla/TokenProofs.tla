----------------------------- MODULE TokenProofs -----------------------------
(***************************************************************************)
(* inery.token, for every set of accounts, symbols and amounts: the tables *)
(* keep their types, supply is the sum of the balances, balances are       *)
(* backed, producers stay locked, and every token is an ideal ledger.      *)
(* TypeOK alone is not inductive: retire takes the amount off the supply   *)
(* before it looks at the issuer's balance, and only Conservation says     *)
(* that the supply is at least that balance.                               *)
(***************************************************************************)
EXTENDS Token, SumTheorems

TokenInv == TypeOK /\ Conservation /\ Backed

\* The type of the accounts table.
Balances == [Symbols -> [Accounts -> Nat]]

\* Crediting one account of one token raises that token's total alone.
LEMMA CreditTotal ==
  ASSUME NEW bal \in Balances,
         NEW s \in Symbols, NEW a \in Accounts, NEW q \in Nat
  PROVE  /\ Credited(bal, s, a, q) \in Balances
         /\ Total(Credited(bal, s, a, q)[s], Accounts) = Total(bal[s], Accounts) + q
         /\ \A r \in Symbols \ {s} : Credited(bal, s, a, q)[r] = bal[r]
<1> DEFINE new == Credited(bal, s, a, q)
<1>1. new \in Balances
  BY DEF Credited, Balances
<1>2. new[s][a] = bal[s][a] + q /\ \A x \in Accounts \ {a} : bal[s][x] = new[s][x]
  BY DEF Credited, Balances
<1>3. \A r \in Symbols \ {s} : new[r] = bal[r]
  BY DEF Credited, Balances
<1>4. (\A x \in Accounts : bal[s][x] \in Nat) /\ (\A x \in Accounts : new[s][x] \in Nat)
  BY <1>1 DEF Balances
<1> HIDE DEF new
<1>5. Total(new[s], Accounts) = Total(bal[s], Accounts) - bal[s][a] + new[s][a]
  BY <1>2, <1>4, TotalChange, AccountsAssumption
<1>6. Total(bal[s], Accounts) \in Nat
  BY <1>4, TotalType, AccountsAssumption
<1>7. Total(new[s], Accounts) = Total(bal[s], Accounts) + q
  BY <1>2, <1>4, <1>5, <1>6
<1> QED
  BY <1>1, <1>3, <1>7 DEF new

\* Debiting what an account has lowers that token's total alone.
LEMMA DebitTotal ==
  ASSUME NEW bal \in Balances,
         NEW s \in Symbols, NEW a \in Accounts, NEW q \in Nat, bal[s][a] >= q
  PROVE  /\ Debited(bal, s, a, q) \in Balances
         /\ Total(Debited(bal, s, a, q)[s], Accounts) = Total(bal[s], Accounts) - q
         /\ \A r \in Symbols \ {s} : Debited(bal, s, a, q)[r] = bal[r]
<1> DEFINE new == Debited(bal, s, a, q)
<1>1. new \in Balances
  BY DEF Debited, Balances
<1>2. new[s][a] = bal[s][a] - q /\ \A x \in Accounts \ {a} : bal[s][x] = new[s][x]
  BY DEF Debited, Balances
<1>3. \A r \in Symbols \ {s} : new[r] = bal[r]
  BY DEF Debited, Balances
<1>4. (\A x \in Accounts : bal[s][x] \in Nat) /\ (\A x \in Accounts : new[s][x] \in Nat)
  BY <1>1 DEF Balances
<1> HIDE DEF new
<1>5. Total(new[s], Accounts) = Total(bal[s], Accounts) - bal[s][a] + new[s][a]
  BY <1>2, <1>4, TotalChange, AccountsAssumption
<1>6. Total(bal[s], Accounts) \in Nat
  BY <1>4, TotalType, AccountsAssumption
<1>7. Total(new[s], Accounts) = Total(bal[s], Accounts) - q
  BY <1>2, <1>4, <1>5, <1>6
<1> QED
  BY <1>1, <1>3, <1>7 DEF new

\* A payment keeps every total.
LEMMA MoveTotal ==
  ASSUME NEW bal \in Balances,
         NEW s \in Symbols, NEW a \in Accounts, NEW b \in Accounts, NEW q \in Nat,
         bal[s][a] >= q
  PROVE  /\ Moved(bal, s, a, b, q) \in Balances
         /\ \A r \in Symbols :
               Total(Moved(bal, s, a, b, q)[r], Accounts) = Total(bal[r], Accounts)
<1>1. PICK mid : mid = Debited(bal, s, a, q)
  OBVIOUS
<1>2. /\ mid \in Balances
      /\ Total(mid[s], Accounts) = Total(bal[s], Accounts) - q
      /\ \A r \in Symbols \ {s} : mid[r] = bal[r]
  BY <1>1, DebitTotal
<1>3. PICK new : new = Credited(mid, s, b, q)
  OBVIOUS
<1>c. mid \in Balances
  BY <1>2
<1>4. /\ new \in Balances
      /\ Total(new[s], Accounts) = Total(mid[s], Accounts) + q
      /\ \A r \in Symbols \ {s} : new[r] = mid[r]
  BY <1>c, <1>3, CreditTotal
<1>5. Total(bal[s], Accounts) \in Nat
  BY TotalType, AccountsAssumption DEF Balances
<1>6. \A r \in Symbols : Total(new[r], Accounts) = Total(bal[r], Accounts)
  BY <1>2, <1>4, <1>5
<1>7. Moved(bal, s, a, b, q) = new
  BY <1>1, <1>3 DEF Moved
<1> QED
  BY <1>4, <1>6, <1>7

\* No account has more of a token than there is.
LEMMA HeldIsSupplied ==
  ASSUME TypeOK, Conservation, NEW s \in Symbols, NEW a \in Accounts
  PROVE  balance[s][a] <= stat[s].supply
<1>1. \A x \in Accounts : balance[s][x] \in Nat
  BY DEF TypeOK, Balances
<1>2. balance[s][a] <= Total(balance[s], Accounts)
  BY <1>1, TotalBound, AccountsAssumption
<1> QED
  BY <1>2 DEF Conservation

LEMMA TokenInitInv == TokenInit => TokenInv
<1> SUFFICES ASSUME TokenInit PROVE TokenInv
  OBVIOUS
<1>1. TypeOK
  BY DEF TokenInit, TypeOK, Balances, NoStat
<1>2. Conservation
  <2> SUFFICES ASSUME NEW s \in Symbols
               PROVE  Total(balance[s], Accounts) = stat[s].supply
    BY DEF Conservation
  <2>1. \A a \in Accounts : balance[s][a] = 0
    BY DEF TokenInit
  <2>2. Total(balance[s], Accounts) = 0
    BY <2>1, TotalZero
  <2> QED
    BY <2>2 DEF TokenInit, NoStat
<1>3. Backed
  BY DEF TokenInit, Backed, NoStat
<1> QED
  BY <1>1, <1>2, <1>3 DEF TokenInv

\* Each action keeps the three parts of the invariant.
LEMMA TokenStepInv == TokenInv /\ [TokenNext]_tokenVars => TokenInv'
<1> SUFFICES ASSUME TokenInv, [TokenNext]_tokenVars PROVE TokenInv'
  OBVIOUS
<1>0. TypeOK /\ Conservation /\ Backed
  BY DEF TokenInv
<1>t. /\ balance \in Balances
      /\ row \in [Symbols -> SUBSET Accounts]
      /\ activity \in SUBSET Accounts
      /\ \A s \in Symbols : stat[s].supply \in Nat /\ stat[s].max_supply \in Nat
      /\ stat \in [Symbols -> {NoStat} \cup
                     [supply : Nat, max_supply : Nat \ {0}, issuer : Accounts]]
  BY <1>0 DEF TypeOK, NoStat, Balances
<1>e. \A s \in Symbols : Exists(s) =>
         stat[s] \in [supply : Nat, max_supply : Nat \ {0}, issuer : Accounts]
  BY <1>t DEF Exists, NoStat
<1>1. ASSUME NEW a \in Accounts, NEW s \in Symbols, NEW max \in Supplies, Create(a, s, max)
      PROVE  TokenInv'
  <2>1. max \in Nat \ {0} /\ stat[s] = NoStat /\ stat[s].supply = 0
    BY <1>1, <1>t, AmountAssumption, IssuerAssumption DEF Create, Exists, NoStat
  <2>2. \A r \in Symbols : stat'[r].supply = stat[r].supply
    BY <1>1, <1>t, <2>1 DEF Create
  <2>3. TypeOK'
    BY <1>1, <1>t, <2>1 DEF Create, TypeOK, Balances, NoStat
  <2>4. Conservation'
    BY <1>0, <1>1, <2>2 DEF Create, Conservation
  <2>5. Backed'
    BY <1>0, <1>1, <1>t, <2>1 DEF Create, Backed
  <2> QED
    BY <2>3, <2>4, <2>5 DEF TokenInv
<1>2. ASSUME NEW a \in Signers, NEW s \in Symbols, NEW q \in Quantities, Issue(a, s, q)
      PROVE  TokenInv'
  <2>1. a \in Accounts /\ q \in Nat \ {0} /\ Exists(s)
    BY <1>2, AccountsAssumption, AmountAssumption DEF Issue
  <2>2. /\ balance' \in Balances
        /\ Total(balance'[s], Accounts) = Total(balance[s], Accounts) + q
        /\ \A r \in Symbols \ {s} : balance'[r] = balance[r]
    BY <1>2, <1>t, <2>1, CreditTotal DEF Issue
  <2>3. /\ stat' = [stat EXCEPT ![s].supply = @ + q]
        /\ row' = RowsWith(row, s, a)
        /\ activity' = activity
        /\ q <= stat[s].max_supply - stat[s].supply
    BY <1>2 DEF Issue
  <2>4. TypeOK'
    <3>1. stat' \in [Symbols -> {NoStat} \cup
                        [supply : Nat, max_supply : Nat \ {0}, issuer : Accounts]]
      <4>1. stat[s] \in [supply : Nat, max_supply : Nat \ {0}, issuer : Accounts]
        BY <1>e, <2>1
      <4>2. stat'[s] \in [supply : Nat, max_supply : Nat \ {0}, issuer : Accounts]
        BY <1>t, <2>1, <2>3, <4>1
      <4> QED
        BY <1>t, <2>3, <4>2
    <3>2. row' \in [Symbols -> SUBSET Accounts]
      BY <1>t, <2>1, <2>3 DEF RowsWith
    <3> QED
      BY <1>t, <2>2, <2>3, <3>1, <3>2 DEF TypeOK, Balances
  <2>5. Conservation'
    BY <1>0, <1>t, <1>e, <2>1, <2>2, <2>3 DEF Conservation
  <2>6. \A r \in Symbols : stat'[r].supply <= stat'[r].max_supply
    BY <1>0, <1>t, <1>e, <2>1, <2>3 DEF Backed
  <2>7. \A r \in Symbols, x \in Accounts : balance'[r][x] > 0 => x \in row'[r]
    BY <1>0, <1>2, <1>t, <2>1, <2>3 DEF Issue, Credited, RowsWith, Backed, Balances
  <2> QED
    BY <2>4, <2>5, <2>6, <2>7 DEF TokenInv, Backed
<1>3. ASSUME NEW s \in Symbols, NEW q \in Quantities, Retire(s, q)
      PROVE  TokenInv'
  <2>1. PICK a \in Accounts : a = stat[s].issuer
    BY <1>3, AccountsAssumption DEF Retire
  <2>2. q \in Nat /\ q > 0 /\ Exists(s) /\ balance[s][a] >= q
    BY <1>3, <2>1, AmountAssumption DEF Retire, CanSub
  <2>3. /\ balance' = Debited(balance, s, a, q)
        /\ stat' = [stat EXCEPT ![s].supply = @ - q]
        /\ row' = row /\ activity' = activity
    BY <1>3, <2>1 DEF Retire
  <2>4. /\ balance' \in Balances
        /\ Total(balance'[s], Accounts) = Total(balance[s], Accounts) - q
        /\ \A r \in Symbols \ {s} : balance'[r] = balance[r]
    BY <1>t, <2>2, <2>3, DebitTotal
  <2>5. balance[s][a] <= stat[s].supply
    BY <1>0, HeldIsSupplied
  <2>6. stat[s].supply - q \in Nat
    BY <1>t, <2>2, <2>5 DEF Balances
  <2>7. TypeOK'
    <3>1. stat[s] \in [supply : Nat, max_supply : Nat \ {0}, issuer : Accounts]
      BY <1>e, <2>2
    <3>2. stat'[s] \in [supply : Nat, max_supply : Nat \ {0}, issuer : Accounts]
      BY <1>t, <2>3, <2>6, <3>1
    <3>3. stat' \in [Symbols -> {NoStat} \cup
                        [supply : Nat, max_supply : Nat \ {0}, issuer : Accounts]]
      BY <1>t, <2>3, <3>2
    <3> QED
      BY <1>t, <2>3, <2>4, <3>3 DEF TypeOK, Balances
  <2>8. Conservation'
    BY <1>0, <1>t, <1>e, <2>2, <2>3, <2>4 DEF Conservation
  <2>9. \A r \in Symbols : stat'[r].supply <= stat'[r].max_supply
    BY <1>0, <1>t, <1>e, <2>2, <2>3 DEF Backed
  <2>10. \A r \in Symbols, x \in Accounts : balance'[r][x] > 0 => x \in row'[r]
    BY <1>0, <1>t, <2>2, <2>3 DEF Debited, Backed, Balances
  <2> QED
    BY <2>7, <2>8, <2>9, <2>10 DEF TokenInv, Backed
<1>4. ASSUME NEW a \in Signers, NEW b \in Accounts, NEW s \in Symbols,
             NEW q \in Quantities, Transfer(a, b, s, q)
      PROVE  TokenInv'
  <2>1. a \in Accounts /\ q \in Nat /\ balance[s][a] >= q
    BY <1>4, AccountsAssumption, AmountAssumption DEF Transfer, CanMove, CanSub
  <2>2. /\ balance' = Moved(balance, s, a, b, q)
        /\ row' = RowsWith(row, s, b)
        /\ stat' = stat /\ activity' = activity
    BY <1>4 DEF Transfer
  <2>3. /\ balance' \in Balances
        /\ \A r \in Symbols : Total(balance'[r], Accounts) = Total(balance[r], Accounts)
    BY <1>t, <2>1, <2>2, MoveTotal
  <2>4. TypeOK'
    BY <1>t, <2>2, <2>3 DEF TypeOK, Balances, RowsWith
  <2>5. Conservation'
    BY <1>0, <2>2, <2>3 DEF Conservation
  <2>6. Backed'
    BY <1>0, <1>t, <2>1, <2>2 DEF Moved, Credited, Debited, RowsWith, Backed, Balances
  <2> QED
    BY <2>4, <2>5, <2>6 DEF TokenInv
<1>5. ASSUME NEW a \in Accounts, NEW s \in Symbols, Open(a, s)
      PROVE  TokenInv'
  BY <1>0, <1>5 DEF Open, RowsWith, TokenInv, TypeOK, Balances, Conservation, Backed
<1>6. ASSUME NEW a \in Signers, NEW s \in Symbols, Close(a, s)
      PROVE  TokenInv'
  BY <1>0, <1>6 DEF Close, TokenInv, TypeOK, Balances, Conservation, Backed
<1>7. ASSUME NEW a \in Signers, RegisterProducer(a) \/ UnregisterProducer(a)
      PROVE  TokenInv'
  BY <1>0, <1>7, AccountsAssumption
     DEF RegisterProducer, UnregisterProducer, TokenInv, TypeOK, Balances, Conservation, Backed
<1>8. CASE UNCHANGED tokenVars
  BY <1>0, <1>8 DEF tokenVars, TokenInv, TypeOK, Balances, Conservation, Backed
<1> QED
  BY <1>1, <1>2, <1>3, <1>4, <1>5, <1>6, <1>7, <1>8 DEF TokenNext

\* Types, conservation and backing hold in every reachable state.
THEOREM TokenSafety == TokenSpec => []TokenInv
<1>1. TokenInit => TokenInv
  BY TokenInitInv
<1>2. TokenInv /\ [TokenNext]_tokenVars => TokenInv'
  BY TokenStepInv
<1> QED
  BY <1>1, <1>2, PTL DEF TokenSpec

\* The supply column is the sum of the balances, whatever the actions and amounts.
THEOREM TokenConserves == TokenSpec => []Conservation
<1>1. TokenInv => Conservation
  BY DEF TokenInv
<1> QED
  BY <1>1, TokenSafety, PTL

\* Every table keeps its type: no amount ever becomes negative.
THEOREM TokenTypes == TokenSpec => []TypeOK
<1>1. TokenInv => TypeOK
  BY DEF TokenInv
<1> QED
  BY <1>1, TokenSafety, PTL

\* No balance without its row, no supply above its maximum.
THEOREM TokenBacked == TokenSpec => []Backed
<1>1. TokenInv => Backed
  BY DEF TokenInv
<1> QED
  BY <1>1, TokenSafety, PTL

\* Taking INR out of a producer's balance leaves it Border whole INR.
LEMMA LockLeavesBorder ==
  ASSUME NEW bal \in Balances, NEW rows, NEW a \in Accounts,
         LockRespected(bal, rows, a), a \in activity
  PROVE  bal[CoreSymbol][a] >= Border * Precision
<1>1. bal[CoreSymbol][a] \in Nat
  BY SymbolAssumption DEF Balances
<1>2. bal[CoreSymbol][a] \div Precision >= Border
  BY DEF LockRespected
<1>3. Precision \in Nat \ {0} /\ Border \in Nat
  BY AmountAssumption
<1> QED
  BY <1>1, <1>2, <1>3

\* Only a debit, checked by sub_balance, takes INR from an active producer.
THEOREM TokenKeepsLock == TokenSpec => ProducerLock
<1> DEFINE Kept == \A a \in activity :
              balance'[CoreSymbol][a] < balance[CoreSymbol][a]
                 => balance'[CoreSymbol][a] >= Border * Precision
<1>1. TokenInv /\ TokenInv' /\ [TokenNext]_tokenVars => [Kept]_tokenVars
  <2> SUFFICES ASSUME TokenInv, TokenInv', TokenNext PROVE Kept
    OBVIOUS
  <2> SUFFICES ASSUME NEW a \in activity,
                      balance'[CoreSymbol][a] < balance[CoreSymbol][a]
               PROVE  balance'[CoreSymbol][a] >= Border * Precision
    OBVIOUS
  <2>1. balance \in Balances /\ balance' \in Balances /\ a \in Accounts
    BY DEF TokenInv, TypeOK, Balances
  <2>2. balance[CoreSymbol][a] \in Nat /\ balance'[CoreSymbol][a] \in Nat
    BY <2>1, SymbolAssumption DEF Balances
  <2>3. ASSUME NEW b \in Accounts, NEW s \in Symbols, NEW q \in Quantities, q > 0,
               balance' = Credited(balance, s, b, q)
        PROVE  FALSE
    <3>1. q \in Nat
      BY <2>3, AmountAssumption
    <3>2. balance'[CoreSymbol][a] >= balance[CoreSymbol][a]
      BY <2>1, <2>2, <2>3, <3>1, SymbolAssumption DEF Credited, Balances
    <3> QED
      BY <2>2, <3>2
  <2>4. ASSUME NEW b \in Accounts, NEW s \in Symbols, NEW q \in Quantities,
               CanSub(balance, row, s, b, q),
               balance' = Debited(balance, s, b, q)
        PROVE  balance'[CoreSymbol][a] >= Border * Precision
    <3>1. b = a
      BY <2>1, <2>2, <2>4, SymbolAssumption, AmountAssumption DEF Debited, Balances
    <3>2. LockRespected(balance', row, a)
      BY <2>4, <3>1 DEF CanSub
    <3> QED
      BY <2>1, <3>2, LockLeavesBorder
  <2>5. ASSUME NEW b \in Accounts, NEW c \in Accounts, NEW s \in Symbols,
               NEW q \in Quantities, CanMove(balance, row, s, b, c, q),
               balance' = Moved(balance, s, b, c, q)
        PROVE  balance'[CoreSymbol][a] >= Border * Precision
    <3>1. PICK mid : mid = Debited(balance, s, b, q)
      OBVIOUS
    <3>2. q \in Nat /\ b # c /\ balance[s][b] >= q /\ LockRespected(mid, row, b)
      BY <2>5, <3>1, AmountAssumption DEF CanMove, CanSub
    <3>3. mid \in Balances
      BY <2>1, <3>1, <3>2, DebitTotal
    <3>4. balance' = Credited(mid, s, c, q)
      BY <2>5, <3>1 DEF Moved
    <3>5. b = a /\ s = CoreSymbol
      BY <2>1, <2>2, <3>1, <3>2, <3>3, <3>4, SymbolAssumption
         DEF Credited, Debited, Balances
    <3>6. balance'[CoreSymbol][a] = mid[CoreSymbol][a]
      BY <3>2, <3>3, <3>4, <3>5 DEF Credited, Balances
    <3>7. mid[CoreSymbol][a] >= Border * Precision
      BY <2>1, <3>2, <3>3, <3>5, LockLeavesBorder
    <3> QED
      BY <3>6, <3>7
  <2>6. ASSUME NEW b \in Accounts, NEW s \in Symbols, NEW max \in Supplies, Create(b, s, max)
        PROVE  FALSE
    BY <2>2, <2>6 DEF Create
  <2>7. ASSUME NEW b \in Signers, NEW s \in Symbols, NEW q \in Quantities, Issue(b, s, q)
        PROVE  FALSE
    BY <2>3, <2>7, AccountsAssumption DEF Issue
  <2>8. ASSUME NEW s \in Symbols, NEW q \in Quantities, Retire(s, q)
        PROVE  balance'[CoreSymbol][a] >= Border * Precision
    BY <2>4, <2>8, AccountsAssumption DEF Retire
  <2>9. ASSUME NEW b \in Signers, NEW c \in Accounts, NEW s \in Symbols,
               NEW q \in Quantities, Transfer(b, c, s, q)
        PROVE  balance'[CoreSymbol][a] >= Border * Precision
    BY <2>5, <2>9, AccountsAssumption DEF Transfer
  <2>10. ASSUME balance' = balance
         PROVE  FALSE
    BY <2>2, <2>10
  <2> QED
    BY <2>6, <2>7, <2>8, <2>9, <2>10
       DEF TokenNext, Open, Close, RegisterProducer, UnregisterProducer
<1>2. TokenSpec => []TokenInv
  BY TokenSafety
<1>3. ProducerLock <=> [][Kept]_tokenVars
  BY PTL DEF ProducerLock
<1> QED
  BY <1>1, <1>2, <1>3, PTL DEF TokenSpec

\* Every action is one mint, burn or payment of one token's ledger, and leaves
\* the ledgers of the other tokens as they were.
THEOREM TokenImplementsLedger == TokenSpec => ImplementsLedger
<1> DEFINE Simulated == \A s \in Symbols : [Book(s)!Next]_(Book(s)!vars)
<1>1. TokenInit => \A s \in Symbols : Book(s)!Init
  BY DEF TokenInit, NoStat, Book!Init
<1>2. TokenInv /\ TokenInv' /\ [TokenNext]_tokenVars => [Simulated]_tokenVars
  <2> SUFFICES ASSUME TokenInv, TokenInv', TokenNext, NEW s \in Symbols
               PROVE  [Book(s)!Next]_(Book(s)!vars)
    OBVIOUS
  <2>1. balance \in Balances /\ balance' \in Balances
    BY DEF TokenInv, TypeOK, Balances
  <2>2. \A r \in Symbols : stat[r].supply \in Nat /\ stat[r].max_supply \in Nat
    BY DEF TokenInv, TypeOK, NoStat
  <2>3. stat \in [Symbols -> {NoStat} \cup
                    [supply : Nat, max_supply : Nat \ {0}, issuer : Accounts]]
    BY DEF TokenInv, TypeOK
  <2>4. ASSUME NEW a \in Accounts, NEW r \in Symbols, NEW max \in Supplies, Create(a, r, max)
        PROVE  [Book(s)!Next]_(Book(s)!vars)
    <3>1. CASE r = s
      <4>1. stat[s] = NoStat /\ max \in Nat \ {0}
        BY <2>3, <2>4, <3>1, AmountAssumption, IssuerAssumption
           DEF Create, Exists
      <4>2. Book(s)!Launch
        BY <2>3, <2>4, <3>1, <4>1 DEF Create, NoStat, Book!Launch
      <4> QED
        BY <4>2 DEF Book!Next
    <3>2. CASE r # s
      BY <2>3, <2>4, <3>2 DEF Create, Book!vars
    <3> QED
      BY <3>1, <3>2
  <2>5. ASSUME NEW a \in Signers, NEW r \in Symbols, NEW q \in Quantities, Issue(a, r, q)
        PROVE  [Book(s)!Next]_(Book(s)!vars)
    <3>1. a \in Accounts /\ q \in Nat \ {0} /\ q <= stat[r].max_supply - stat[r].supply
      BY <2>5, AccountsAssumption, AmountAssumption DEF Issue
    <3>2. /\ stat' = [stat EXCEPT ![r].supply = @ + q]
          /\ balance' = [balance EXCEPT ![r][a] = @ + q]
      BY <2>5 DEF Issue, Credited
    <3>3. CASE r = s
      <4>1. q \in 1 .. (stat[s].max_supply - stat[s].supply)
        BY <2>2, <3>1, <3>3
      <4>2. /\ balance'[s] = [balance[s] EXCEPT ![a] = @ + q]
            /\ stat'[s].supply = stat[s].supply + q
            /\ stat'[s].max_supply = stat[s].max_supply
        BY <2>1, <2>3, <3>1, <3>2, <3>3 DEF Balances, NoStat
      <4>3. Book(s)!Mint(a)
        BY <4>1, <4>2 DEF Book!Mint
      <4> QED
        BY <3>1, <4>3 DEF Book!Next
    <3>4. CASE r # s
      BY <2>1, <2>3, <3>2, <3>4 DEF Book!vars, Balances
    <3> QED
      BY <3>3, <3>4
  <2>6. ASSUME NEW r \in Symbols, NEW q \in Quantities, Retire(r, q)
        PROVE  [Book(s)!Next]_(Book(s)!vars)
    <3>1. PICK a \in Accounts : a = stat[r].issuer
      BY <2>6, AccountsAssumption DEF Retire
    <3>2. q \in Nat \ {0} /\ balance[r][a] >= q
      BY <2>6, <3>1, AmountAssumption DEF Retire, CanSub
    <3>3. /\ stat' = [stat EXCEPT ![r].supply = @ - q]
          /\ balance' = [balance EXCEPT ![r][a] = @ - q]
      BY <2>6, <3>1 DEF Retire, Debited
    <3>4. CASE r = s
      <4>1. q \in 1 .. balance[s][a]
        BY <2>1, <3>2, <3>4 DEF Balances
      <4>2. /\ balance'[s] = [balance[s] EXCEPT ![a] = @ - q]
            /\ stat'[s].supply = stat[s].supply - q
            /\ stat'[s].max_supply = stat[s].max_supply
        BY <2>1, <2>3, <3>3, <3>4 DEF Balances, NoStat
      <4>3. Book(s)!Burn(a)
        BY <4>1, <4>2 DEF Book!Burn
      <4> QED
        BY <4>3 DEF Book!Next
    <3>5. CASE r # s
      BY <2>1, <2>3, <3>3, <3>5 DEF Book!vars, Balances
    <3> QED
      BY <3>4, <3>5
  <2>7. ASSUME NEW a \in Signers, NEW b \in Accounts, NEW r \in Symbols,
               NEW q \in Quantities, Transfer(a, b, r, q)
        PROVE  [Book(s)!Next]_(Book(s)!vars)
    <3>1. /\ a \in Accounts /\ a # b
          /\ q \in Nat \ {0} /\ balance[r][a] >= q
      BY <2>7, AccountsAssumption, AmountAssumption DEF Transfer, CanMove, CanSub
    <3>2. /\ stat' = stat
          /\ balance' = Moved(balance, r, a, b, q)
      BY <2>7 DEF Transfer
    <3>3. CASE r = s
      <4>1. q \in 1 .. balance[s][a]
        BY <2>1, <3>1, <3>3 DEF Balances
      <4>2. balance'[s] = [balance[s] EXCEPT ![a] = @ - q, ![b] = @ + q]
        BY <2>1, <3>1, <3>2, <3>3 DEF Balances, Moved, Credited, Debited
      <4>3. Book(s)!Pay(a, b)
        BY <3>1, <3>2, <4>1, <4>2 DEF Book!Pay
      <4> QED
        BY <3>1, <4>3 DEF Book!Next
    <3>4. CASE r # s
      BY <2>1, <3>1, <3>2, <3>4 DEF Book!vars, Balances, Moved, Credited, Debited
    <3> QED
      BY <3>3, <3>4
  <2>8. ASSUME UNCHANGED <<stat, balance>>
        PROVE  [Book(s)!Next]_(Book(s)!vars)
    BY <2>8 DEF Book!vars
  <2> QED
    BY <2>4, <2>5, <2>6, <2>7, <2>8
       DEF TokenNext, Open, Close, RegisterProducer, UnregisterProducer
<1>3. ImplementsLedger <=> (\A s \in Symbols : Book(s)!Init) /\ [][Simulated]_tokenVars
  BY PTL DEF ImplementsLedger
<1> QED
  BY <1>1, <1>2, <1>3, TokenSafety, PTL DEF TokenSpec
(***************************************************************************)
(* Several transfers in one transaction. The system contract pays by       *)
(* inline transfers, which leave the tables new and after where bal and    *)
(* rows were.                                                              *)
(***************************************************************************)
\* No token is made or lost, what is held is held in rows, and no producer is
\* left with less than Border INR of what it had.
Fair(bal, rows, new, after) ==
    /\ \A s \in Symbols : Total(new[s], Accounts) = Total(bal[s], Accounts)
    /\ \A s \in Symbols, a \in Accounts :
          (new[s][a] > 0 /\ (bal[s][a] > 0 => a \in rows[s])) => a \in after[s]
    /\ \A a \in activity :
          new[CoreSymbol][a] < bal[CoreSymbol][a] => new[CoreSymbol][a] >= Border * Precision

\* What an action that takes no core token from producers below Border keeps.
LockKept ==
    \A a \in activity :
        balance'[CoreSymbol][a] < balance[CoreSymbol][a]
           => balance'[CoreSymbol][a] >= Border * Precision

\* Tables that are left alone.
LEMMA FairStill ==
  ASSUME NEW bal \in Balances, NEW rows, activity \in SUBSET Accounts
  PROVE  Fair(bal, rows, bal, rows)
<1>1. \A a \in activity : bal[CoreSymbol][a] \in Nat
  BY SymbolAssumption DEF Balances
<1> QED
  BY <1>1 DEF Fair

\* One transaction's transfers follow one another.
LEMMA FairChain ==
  ASSUME NEW b1 \in Balances, NEW b2 \in Balances, NEW b3 \in Balances,
         NEW r1, NEW r2, NEW r3, activity \in SUBSET Accounts,
         Fair(b1, r1, b2, r2), Fair(b2, r2, b3, r3)
  PROVE  Fair(b1, r1, b3, r3)
<1>1. \A s \in Symbols : Total(b3[s], Accounts) = Total(b1[s], Accounts)
  BY DEF Fair
<1>2. \A s \in Symbols, a \in Accounts :
        (b3[s][a] > 0 /\ (b1[s][a] > 0 => a \in r1[s])) => a \in r3[s]
  BY DEF Fair
<1>3. ASSUME NEW a \in activity, b3[CoreSymbol][a] < b1[CoreSymbol][a]
      PROVE  b3[CoreSymbol][a] >= Border * Precision
  <2> DEFINE x == b1[CoreSymbol][a]
             y == b2[CoreSymbol][a]
             z == b3[CoreSymbol][a]
             least == Border * Precision
  <2>1. x \in Nat /\ y \in Nat /\ z \in Nat /\ least \in Nat
    BY SymbolAssumption, AmountAssumption DEF Balances
  <2>2. (y < x => y >= least) /\ (z < y => z >= least) /\ z < x
    BY <1>3 DEF Fair
  <2> HIDE DEF x, y, z, least
  <2>3. z >= least
    BY <2>1, <2>2
  <2> QED
    BY <2>3 DEF z, least
<1> QED
  BY <1>1, <1>2, <1>3 DEF Fair

\* A checked transfer of the core token.
LEMMA FairMove ==
  ASSUME NEW bal \in Balances, NEW rows \in [Symbols -> SUBSET Accounts],
         activity \in SUBSET Accounts,
         NEW from \in Accounts, NEW to \in Accounts, NEW q \in Int,
         CanMove(bal, rows, CoreSymbol, from, to, q)
  PROVE  /\ Moved(bal, CoreSymbol, from, to, q) \in Balances
         /\ RowsWith(rows, CoreSymbol, to) \in [Symbols -> SUBSET Accounts]
         /\ Fair(bal, rows, Moved(bal, CoreSymbol, from, to, q), RowsWith(rows, CoreSymbol, to))
<1> DEFINE mid == Debited(bal, CoreSymbol, from, q)
           new == Moved(bal, CoreSymbol, from, to, q)
           after == RowsWith(rows, CoreSymbol, to)
<1>0. CoreSymbol \in Symbols
  BY SymbolAssumption
<1>1. q \in Nat /\ from # to /\ bal[CoreSymbol][from] >= q /\ LockRespected(mid, rows, from)
  BY DEF CanMove, CanSub
<1>2. /\ new \in Balances
      /\ \A s \in Symbols : Total(new[s], Accounts) = Total(bal[s], Accounts)
  BY <1>0, <1>1, MoveTotal
<1>3. mid \in Balances
  BY <1>0, <1>1, DebitTotal
<1>4. /\ new[CoreSymbol][from] = mid[CoreSymbol][from]
      /\ \A a \in Accounts \ {from} : new[CoreSymbol][a] >= bal[CoreSymbol][a]
      /\ \A s \in Symbols, a \in Accounts : s # CoreSymbol \/ a # to => new[s][a] <= bal[s][a]
  BY <1>0, <1>1 DEF Moved, Credited, Debited, Balances
<1>5. /\ after \in [Symbols -> SUBSET Accounts] /\ to \in after[CoreSymbol]
      /\ \A s \in Symbols : rows[s] \subseteq after[s]
  BY <1>0 DEF RowsWith
<1>t. \A s \in Symbols, a \in Accounts : bal[s][a] \in Nat /\ new[s][a] \in Nat
  BY <1>2 DEF Balances
<1>6. from \in activity => mid[CoreSymbol][from] >= Border * Precision
  BY <1>1, <1>3, LockLeavesBorder
<1> HIDE DEF mid, new, after
<1>7. \A s \in Symbols, a \in Accounts :
        (new[s][a] > 0 /\ (bal[s][a] > 0 => a \in rows[s])) => a \in after[s]
  <2> SUFFICES ASSUME NEW s \in Symbols, NEW a \in Accounts, new[s][a] > 0,
                      bal[s][a] > 0 => a \in rows[s]
               PROVE  a \in after[s]
    OBVIOUS
  <2>1. CASE s = CoreSymbol /\ a = to
    BY <1>5, <2>1
  <2>2. CASE s # CoreSymbol \/ a # to
    <3>1. bal[s][a] > 0
      BY <1>4, <1>t, <2>2
    <3> QED
      BY <1>5, <3>1
  <2> QED
    BY <2>1, <2>2
<1>8. \A a \in activity :
        new[CoreSymbol][a] < bal[CoreSymbol][a] => new[CoreSymbol][a] >= Border * Precision
  <2> SUFFICES ASSUME NEW a \in activity, new[CoreSymbol][a] < bal[CoreSymbol][a]
               PROVE  new[CoreSymbol][a] >= Border * Precision
    OBVIOUS
  <2>1. a = from
    BY <1>0, <1>4, <1>t
  <2> QED
    BY <1>4, <1>6, <2>1
<1> QED
  BY <1>2, <1>5, <1>7, <1>8 DEF Fair, new, after

\* What a transaction of fair transfers keeps.
LEMMA FairKeeps ==
  ASSUME Conservation, Backed, stat' = stat, Fair(balance, row, balance', row')
  PROVE  Conservation' /\ Backed' /\ LockKept
<1>1. Conservation'
  BY DEF Conservation, Fair
<1>2. Backed'
  BY DEF Backed, Fair
<1>3. LockKept
  BY DEF LockKept, Fair
<1> QED
  BY <1>1, <1>2, <1>3
=============================================================================

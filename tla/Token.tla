-------------------------------- MODULE Token --------------------------------
(***************************************************************************)
(* The inery.token contract: the stat and accounts tables, one action per  *)
(* contract action. sub_balance also reads the system contract's           *)
(* accountsact table, the fork's lock on the balance of block producers.   *)
(* Amounts are counted in units; Precision units make one INR. Memos,      *)
(* symbol precision, table payers and notifications are left out.          *)
(* CanSub .. RowsWith take the tables as arguments, so that the system     *)
(* contract's modules can chain the inline transfers of one transaction.   *)
(* An operator marked "Fault" is no part of the specification: it is the   *)
(* definition below it with a mistake, which the properties must detect.   *)
(***************************************************************************)
EXTENDS Integers, FiniteSets, Sums

CONSTANTS
    Accounts,       \* the existing accounts (is_account)
    Signers,        \* the accounts whose holders push transactions
    Symbols,        \* symbol codes
    CoreSymbol,     \* "INR", the symbol sub_balance looks up by name
    Creator,        \* createacc
    NoIssuer,       \* the issuer of a symbol that has no stat row
    Quantities,     \* BOUND: amounts passed to issue, retire and transfer
    Supplies,       \* BOUND: maximum supplies passed to create
    Precision,      \* units per INR (10000)
    Border          \* INR a producer keeps (border_balance, 50000)

ASSUME AccountsAssumption == IsFiniteSet(Accounts) /\ Signers \subseteq Accounts
ASSUME SymbolAssumption == CoreSymbol \in Symbols
ASSUME IssuerAssumption == NoIssuer \notin Accounts
ASSUME AmountAssumption ==
    /\ Quantities \subseteq Int /\ Supplies \subseteq Int
    /\ Precision \in Nat \ {0} /\ Border \in Nat

VARIABLES
    stat,       \* symbol -> supply, max_supply and issuer
    balance,    \* symbol -> account -> amount; 0 where there is no row
    row,        \* symbol -> accounts with a row in the accounts table
    activity    \* accounts whose accountsact row says is_active_prod

tokenVars == <<stat, balance, row, activity>>

NoStat == [supply |-> 0, max_supply |-> 0, issuer |-> NoIssuer]

Exists(s) == stat[s].issuer # NoIssuer

(***************************************************************************)
(* The helpers of the token contract, on given tables                      *)
(***************************************************************************)
\* Fault: a row that is there already is overwritten.
CreditedOver(bal, s, a, q) == [bal EXCEPT ![s][a] = q]

\* add_balance and the debit of sub_balance.
Credited(bal, s, a, q) == [bal EXCEPT ![s][a] = @ + q]
Debited(bal, s, a, q) == [bal EXCEPT ![s][a] = @ - q]
RowsWith(rows, s, a) == [rows EXCEPT ![s] = @ \cup {a}]

\* The tail of sub_balance: it reads the owner's INR row whatever the token.
LockRespected(bal, rows, a) ==
    /\ a \in rows[CoreSymbol]
    /\ a \in activity => bal[CoreSymbol][a] \div Precision >= Border

\* Fault: no check for an overdrawn balance.
CanSubUnchecked(bal, rows, s, a, q) ==
    a \in rows[s] /\ LockRespected(Debited(bal, s, a, q), rows, a)

\* Fault: the lock is checked on the balance before the debit.
CanSubLockFirst(bal, rows, s, a, q) ==
    a \in rows[s] /\ bal[s][a] >= q /\ LockRespected(bal, rows, a)

CanSub(bal, rows, s, a, q) ==
    /\ a \in rows[s]
    /\ bal[s][a] >= q
    /\ LockRespected(Debited(bal, s, a, q), rows, a)

\* Fault: amounts that are not positive pass.
CanMoveAny(bal, rows, s, from, to, q) ==
    from # to /\ to # Creator /\ CanSub(bal, rows, s, from, q)

CanMove(bal, rows, s, from, to, q) ==
    /\ from # to
    /\ to # Creator
    /\ q > 0
    /\ CanSub(bal, rows, s, from, q)

Moved(bal, s, from, to, q) == Credited(Debited(bal, s, from, q), s, to, q)

(***************************************************************************)
(* The contract's actions                                                  *)
(***************************************************************************)
\* Signed by the token account itself.
Create(issuer, s, max) ==
    /\ max > 0
    /\ ~Exists(s)
    /\ stat' = [stat EXCEPT ![s] = [supply |-> 0, max_supply |-> max, issuer |-> issuer]]
    /\ UNCHANGED <<balance, row, activity>>

\* to signs, and is the issuer or createacc.
Issue(to, s, q) ==
    /\ Exists(s)
    /\ to \in {stat[s].issuer, Creator}
    /\ q > 0
    /\ q <= stat[s].max_supply - stat[s].supply
    /\ stat' = [stat EXCEPT ![s].supply = @ + q]
    /\ balance' = Credited(balance, s, to, q)
    /\ row' = RowsWith(row, s, to)
    /\ UNCHANGED activity

Retire(s, q) ==
    /\ Exists(s)
    /\ stat[s].issuer \in Signers
    /\ q > 0
    /\ CanSub(balance, row, s, stat[s].issuer, q)
    /\ stat' = [stat EXCEPT ![s].supply = @ - q]
    /\ balance' = Debited(balance, s, stat[s].issuer, q)
    /\ UNCHANGED <<row, activity>>

Transfer(from, to, s, q) ==
    /\ Exists(s)
    /\ CanMove(balance, row, s, from, to, q)
    /\ balance' = Moved(balance, s, from, to, q)
    /\ row' = RowsWith(row, s, to)
    /\ UNCHANGED <<stat, activity>>

\* Any account may pay for the row of another; nothing happens if it is there.
Open(owner, s) ==
    /\ Exists(s)
    /\ row' = RowsWith(row, s, owner)
    /\ UNCHANGED <<stat, balance, activity>>

\* Fault: a row that holds tokens may be closed.
CloseFunded(owner, s) ==
    /\ owner \in row[s]
    /\ row' = [row EXCEPT ![s] = @ \ {owner}]
    /\ UNCHANGED <<stat, balance, activity>>

Close(owner, s) ==
    /\ owner \in row[s]
    /\ balance[s][owner] = 0
    /\ row' = [row EXCEPT ![s] = @ \ {owner}]
    /\ UNCHANGED <<stat, balance, activity>>

(***************************************************************************)
(* The system contract's writes to accountsact: register_producer turns an *)
(* account's flag on without looking at its balance, unregprod turns it off.*)
(***************************************************************************)
RegisterProducer(a) ==
    /\ activity' = activity \cup {a}
    /\ UNCHANGED <<stat, balance, row>>

UnregisterProducer(a) ==
    /\ a \in activity
    /\ activity' = activity \ {a}
    /\ UNCHANGED <<stat, balance, row>>

(***************************************************************************)
(* The specification: before any token is created                          *)
(***************************************************************************)
TokenInit ==
    /\ stat = [s \in Symbols |-> NoStat]
    /\ balance = [s \in Symbols |-> [a \in Accounts |-> 0]]
    /\ row = [s \in Symbols |-> {}]
    /\ activity = {}

TokenNext ==
    \/ \E a \in Accounts, s \in Symbols, max \in Supplies : Create(a, s, max)
    \/ \E a \in Signers, s \in Symbols, q \in Quantities : Issue(a, s, q)
    \/ \E s \in Symbols, q \in Quantities : Retire(s, q)
    \/ \E a \in Signers, b \in Accounts, s \in Symbols, q \in Quantities :
          Transfer(a, b, s, q)
    \/ \E a \in Accounts, s \in Symbols : Open(a, s)
    \/ \E a \in Signers, s \in Symbols : Close(a, s)
    \/ \E a \in Signers : RegisterProducer(a) \/ UnregisterProducer(a)

TokenSpec == TokenInit /\ [][TokenNext]_tokenVars

(***************************************************************************)
(* Properties                                                              *)
(***************************************************************************)
\* Every table holds values of its type; in particular no amount is negative
\* (create, issue, retire and sub_balance keep them so by their checks).
TypeOK ==
    /\ stat \in [Symbols -> {NoStat} \cup [supply : Nat, max_supply : Nat \ {0},
                                            issuer : Accounts]]
    /\ balance \in [Symbols -> [Accounts -> Nat]]
    /\ row \in [Symbols -> SUBSET Accounts]
    /\ activity \in SUBSET Accounts

\* The supply column of a token is the sum of its balances: issue, for createacc
\* too, and retire change both tables together, and transfer loses and creates
\* nothing.
Conservation ==
    \A s \in Symbols : Total(balance[s], Accounts) = stat[s].supply

\* Nobody holds tokens without a row to hold them in, and no more tokens exist
\* than the creator of the token allowed.
Backed ==
    \A s \in Symbols :
        /\ \A a \in Accounts : balance[s][a] > 0 => a \in row[s]
        /\ stat[s].supply <= stat[s].max_supply

\* No action takes INR from an active producer so that fewer than Border whole
\* INR remain: not a transfer, not a retirement by a producing issuer.
ProducerLock ==
    [][\A a \in activity :
          balance'[CoreSymbol][a] < balance[CoreSymbol][a]
             => balance'[CoreSymbol][a] >= Border * Precision]_tokenVars

\* Each token is an ideal ledger: every action of the contract is one mint,
\* one burn, one payment, or invisible to it.
Book(s) == INSTANCE Ledger WITH
    Holders <- Accounts,
    holding <- balance[s],
    issued  <- stat[s].supply,
    cap     <- stat[s].max_supply

ImplementsLedger ==
    /\ \A s \in Symbols : Book(s)!Init
    /\ [][\A s \in Symbols : [Book(s)!Next]_(Book(s)!vars)]_tokenVars
=============================================================================

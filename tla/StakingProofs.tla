---------------------------- MODULE StakingProofs ----------------------------
(***************************************************************************)
(* Staking in inery.system, for every set of accounts, all amounts, delays *)
(* and gifts of memory: the three tables that book a stake agree,          *)
(* inery.stake holds what is staked and what is being refunded, and a      *)
(* refund that is due can be paid.                                         *)
(*                                                                         *)
(* The invariant is stated of a record t of the tables, as changebw is     *)
(* written, with the managed flags m beside it.                            *)
(***************************************************************************)
EXTENDS Staking, TokenProofs

Amounts == [net : Nat, cpu : Nat]
Refunds == [net : Nat, cpu : Nat, age : 0 .. RefundDelay]
Limits == [mem : Values, net : Values, cpu : Values]

TablesType ==
    [balance : Balances, row : [Symbols -> SUBSET Accounts],
     delband : [Accounts \X Accounts -> Amounts], userres : [Accounts -> Rows],
     voters : SUBSET Accounts, staked : [Accounts -> Nat], refunds : [Accounts -> Refunds],
     deferred : [Accounts -> NotScheduled .. RefundDelay], limits : [Accounts -> Limits]]

(***************************************************************************)
(* The parts of the invariant                                              *)
(***************************************************************************)
Out(t, a) == [b \in Accounts |-> Weight(t.delband[<<a, b>>])]
NetIn(t, b) == [a \in Accounts |-> t.delband[<<a, b>>].net]
CpuIn(t, b) == [a \in Accounts |-> t.delband[<<a, b>>].cpu]
Waiting(t) == [a \in Accounts |-> Weight(t.refunds[a])]

Agree(t, a) ==
    /\ t.staked[a] = Total(Out(t, a), Accounts)
    /\ t.userres[a].net = Total(NetIn(t, a), Accounts)
    /\ t.userres[a].cpu = Total(CpuIn(t, a), Accounts)

Held(t) == Total(t.staked, Accounts) + Total(Waiting(t), Accounts)

Covered(t) == t.balance[CoreSymbol][StakeAccount] >= Held(t)

\* Core tokens are only held in rows.
InRow(t, a) == t.balance[CoreSymbol][a] > 0 => a \in t.row[CoreSymbol]

OnTime(t, a) ==
    (Weight(t.refunds[a]) > 0 /\ t.deferred[a] # NotScheduled)
        => t.deferred[a] + t.refunds[a].age >= RefundDelay

Follows(t, m, a) ==
    t.userres[a].row => /\ "net" \in m[a] \/ t.limits[a].net = t.userres[a].net
                        /\ "cpu" \in m[a] \/ t.limits[a].cpu = t.userres[a].cpu

\* Rows that are absent hold nothing, and only signers withdraw stake.
Absent(t, m, a) ==
    /\ ~t.userres[a].row => t.userres[a].net + t.userres[a].cpu + t.userres[a].mem = 0
    /\ a \notin t.voters => t.staked[a] = 0 /\ m[a] = {}
    /\ a \notin Signers => Weight(t.refunds[a]) = 0

Sound(t, m) ==
    /\ t \in TablesType
    /\ m \in [Accounts -> SUBSET Resources]
    /\ Covered(t)
    /\ \A a \in Accounts : /\ Agree(t, a)
                           /\ InRow(t, a)
                           /\ OnTime(t, a)
                           /\ Follows(t, m, a)
                           /\ Absent(t, m, a)

StakingInv ==
    /\ Sound(Tables, managed)
    /\ activity \subseteq Signers
    /\ half \in {0, 1}

(***************************************************************************)
(* Amounts                                                                 *)
(***************************************************************************)
LEMMA LargerType == ASSUME NEW a \in Int, NEW b \in Int PROVE Larger(a, b) \in Int
BY DEF Larger

LEMMA StakeAccountFacts == StakeAccount \in Accounts /\ StakeAccount \notin Signers
BY StakeAccountAssumption

LEMMA DelayFacts == RefundDelay \in Nat /\ RefundDelay >= 2 /\ MemGift \in Nat
BY StakeAmountAssumption

\* What a change takes out of a refund row, and what it cannot.
LEMMA RefundAfterFacts ==
  ASSUME half \in {0, 1}, NEW r \in Refunds, NEW net \in Int, NEW cpu \in Int
  PROVE  LET s == RefundAfter(r, net, cpu)
             owed == Owed(r, net, cpu)
         IN /\ s \in Refunds
            /\ owed \in Nat
            /\ Weight(s) \in Nat
            /\ Weight(s) = Weight(r) - (net + cpu) + owed
<1> DEFINE n == Larger(r.net - net, 0)
           c == Larger(r.cpu - cpu, 0)
           age == IF net < 0 \/ cpu < 0 THEN half ELSE r.age
           s == RefundAfter(r, net, cpu)
           owed == Owed(r, net, cpu)
<1>1. r.net \in Nat /\ r.cpu \in Nat /\ r.age \in 0 .. RefundDelay
  BY DEF Refunds
<1>2. n \in Nat /\ c \in Nat /\ owed \in Nat /\ n + c = r.net + r.cpu - (net + cpu) + owed
  BY <1>1 DEF Larger, Owed
<1>3. age \in 0 .. RefundDelay
  BY <1>1, DelayFacts
<1>4. s = IF n + c = 0 THEN NoRefund ELSE [net |-> n, cpu |-> c, age |-> age]
  BY DEF RefundAfter
<1> HIDE DEF n, c, age, s, owed
<1>5. CASE n + c = 0
  <2>1. s = [net |-> 0, cpu |-> 0, age |-> 0]
    BY <1>4, <1>5 DEF NoRefund
  <2>2. s \in Refunds /\ Weight(s) = 0
    BY <2>1, DelayFacts DEF Refunds, Weight
  <2> QED
    BY <1>1, <1>2, <1>5, <2>2 DEF Weight, s, owed
<1>6. CASE n + c # 0
  <2>1. s = [net |-> n, cpu |-> c, age |-> age]
    BY <1>4, <1>6
  <2>2. s \in Refunds /\ Weight(s) = n + c
    BY <1>2, <1>3, <2>1 DEF Refunds, Weight
  <2> QED
    BY <1>1, <1>2, <2>2 DEF Weight, s, owed
<1> QED
  BY <1>5, <1>6

\* A transfer of the core token.
LEMMA PaidFacts ==
  ASSUME NEW t \in TablesType, NEW from \in Accounts, NEW to \in Accounts, NEW q \in Nat,
         from # to, t.balance[CoreSymbol][from] >= q
  PROVE  LET u == Paid(t, from, to, q)
         IN /\ u \in TablesType
            /\ u.delband = t.delband /\ u.userres = t.userres /\ u.voters = t.voters
            /\ u.staked = t.staked /\ u.refunds = t.refunds /\ u.deferred = t.deferred
            /\ u.limits = t.limits
            /\ u.row[CoreSymbol] = t.row[CoreSymbol] \cup {to}
            /\ u.balance[CoreSymbol] = [t.balance[CoreSymbol] EXCEPT ![from] = @ - q, ![to] = @ + q]
<1> DEFINE bal == Moved(t.balance, CoreSymbol, from, to, q)
           rows == RowsWith(t.row, CoreSymbol, to)
           c == t.balance[CoreSymbol]
           u == Paid(t, from, to, q)
<1>0. CoreSymbol \in Symbols
  BY SymbolAssumption
<1>1. t.balance \in Balances /\ t.row \in [Symbols -> SUBSET Accounts] /\ c \in [Accounts -> Nat]
  BY <1>0 DEF TablesType, Balances
<1>2. bal = [t.balance EXCEPT ![CoreSymbol] = [c EXCEPT ![from] = @ - q, ![to] = @ + q]]
  BY <1>0, <1>1 DEF Moved, Credited, Debited, Balances
<1>3. [c EXCEPT ![from] = @ - q, ![to] = @ + q] \in [Accounts -> Nat]
  BY <1>1
<1> HIDE DEF c
<1>4. bal \in Balances /\ bal[CoreSymbol] = [c EXCEPT ![from] = @ - q, ![to] = @ + q]
  BY <1>0, <1>1, <1>2, <1>3 DEF Balances
<1>5. rows \in [Symbols -> SUBSET Accounts] /\ rows[CoreSymbol] = t.row[CoreSymbol] \cup {to}
  BY <1>0, <1>1 DEF RowsWith
<1>6. u = [t EXCEPT !.balance = bal, !.row = rows]
  BY DEF Paid
<1> HIDE DEF bal, rows, u
<1>7. /\ u \in TablesType
      /\ u.delband = t.delband /\ u.userres = t.userres /\ u.voters = t.voters
      /\ u.staked = t.staked /\ u.refunds = t.refunds /\ u.deferred = t.deferred
      /\ u.limits = t.limits /\ u.balance = bal /\ u.row = rows
  BY <1>4, <1>5, <1>6 DEF TablesType
<1> QED
  BY <1>4, <1>5, <1>7 DEF u, c

(***************************************************************************)
(* changebw                                                                *)
(***************************************************************************)
\* The totals of a receiver, and the limits that follow them.
LEMMA ResourcesFacts ==
  ASSUME NEW t \in TablesType, NEW to \in Accounts, NEW net \in Int, NEW cpu \in Int,
         managed \in [Accounts -> SUBSET Resources],
         t.userres[to].net + net >= 0, t.userres[to].cpu + cpu >= 0
  PROVE  LET u == ResourcesOf(t, to, net, cpu)
             l == LimitsFor(t, to, u)
         IN /\ u \in Rows
            /\ u.net = t.userres[to].net + net /\ u.cpu = t.userres[to].cpu + cpu
            /\ ~u.row => u.net + u.cpu + u.mem = 0
            /\ l \in Limits
            /\ "net" \in managed[to] \/ l.net = u.net
            /\ "cpu" \in managed[to] \/ l.cpu = u.cpu
<1> DEFINE r == t.userres[to]
           n == r.net + net
           c == r.cpu + cpu
           v == [r EXCEPT !.net = n, !.cpu = c]
           has == v.net # 0 \/ v.cpu # 0 \/ v.mem # 0
           u == ResourcesOf(t, to, net, cpu)
           l == LimitsFor(t, to, u)
           old == t.limits[to]
<1>1. r \in Rows /\ old \in Limits
  BY DEF TablesType
<1>2. r.net \in Nat /\ r.cpu \in Nat /\ r.mem \in Nat /\ n \in Nat /\ c \in Nat
  BY <1>1 DEF Rows
<1>3. u = [v EXCEPT !.row = has]
  BY <1>1 DEF ResourcesOf, Rows
<1> HIDE DEF n, c
<1>4. v \in Rows /\ v.net = n /\ v.cpu = c /\ v.mem = r.mem
  BY <1>1, <1>2 DEF Rows
<1>5. has \in BOOLEAN
  OBVIOUS
<1>6. ~has => v.net + v.cpu + v.mem = 0
  BY <1>2, <1>4
<1> HIDE DEF v, has, u
<1>7. u \in Rows /\ u.net = n /\ u.cpu = c /\ u.mem = r.mem
  BY <1>3, <1>4, <1>5 DEF Rows
<1>8. u.row = has
  BY <1>3, <1>4 DEF Rows
<1>9. ~u.row => u.net + u.cpu + u.mem = 0
  BY <1>4, <1>6, <1>7, <1>8
<1>10. l = IF {"net", "cpu"} \subseteq managed[to] THEN old
           ELSE [mem |-> IF "mem" \in managed[to] THEN old.mem
                         ELSE Larger(u.mem + MemGift, old.mem),
                 net |-> IF "net" \in managed[to] THEN old.net ELSE u.net,
                 cpu |-> IF "cpu" \in managed[to] THEN old.cpu ELSE u.cpu]
  BY DEF LimitsFor
<1>11. /\ old.mem \in Values /\ old.net \in Values /\ old.cpu \in Values
       /\ u.net \in Values /\ u.cpu \in Values
       /\ Larger(u.mem + MemGift, old.mem) \in Values
  BY <1>1, <1>2, <1>7, DelayFacts DEF Limits, Rows, Values, Unlimited, Larger
<1> HIDE DEF l, old
<1>12. l \in Limits
  <2>1. CASE {"net", "cpu"} \subseteq managed[to]
    BY <1>1, <1>10, <2>1
  <2>2. CASE ~({"net", "cpu"} \subseteq managed[to])
    BY <1>10, <1>11, <2>2 DEF Limits
  <2> QED
    BY <2>1, <2>2
<1>13. /\ "net" \in managed[to] \/ l.net = u.net
       /\ "cpu" \in managed[to] \/ l.cpu = u.cpu
  BY <1>10
<1> QED
  BY <1>7, <1>9, <1>12, <1>13 DEF u, n, c, l

\* What a change asks for, when both amounts have the same sign.
Changes(t, from, to, net, cpu, transfer) ==
    /\ from \in Signers /\ to \in Accounts /\ transfer \in BOOLEAN
    /\ net \in Int /\ cpu \in Int
    /\ net + cpu > 0 \/ (net + cpu < 0 /\ ~transfer)
    /\ CanChange(t, from, to, net, cpu, transfer)

\* The refund row after a change, and what the source pays.
RefundOf(t, from, to, net, cpu, transfer) ==
    LET r == t.refunds[Owner(from, to, transfer)]
    IN IF Settles(from, to, net, cpu, transfer) THEN RefundAfter(r, net, cpu) ELSE r

LEMMA OwedFacts ==
  ASSUME half \in {0, 1}, NEW t \in TablesType,
         NEW from, NEW to, NEW net, NEW cpu, NEW transfer,
         Changes(t, from, to, net, cpu, transfer)
  PROVE  LET owner == Owner(from, to, transfer)
             owed == OwedBy(t, from, to, net, cpu, transfer)
             s == RefundOf(t, from, to, net, cpu, transfer)
         IN /\ owner \in Accounts
            /\ owed \in Nat
            /\ s \in Refunds
            /\ Weight(s) \in Nat
            /\ Weight(s) = Weight(t.refunds[owner]) - (net + cpu) + owed
            /\ owner \notin Signers => Weight(s) = Weight(t.refunds[owner])
<1> DEFINE owner == Owner(from, to, transfer)
           owed == OwedBy(t, from, to, net, cpu, transfer)
           s == RefundOf(t, from, to, net, cpu, transfer)
           r == t.refunds[owner]
<1>1. /\ from \in Signers /\ from \in Accounts /\ to \in Accounts
      /\ net \in Int /\ cpu \in Int /\ transfer \in BOOLEAN
      /\ net + cpu > 0 \/ (net + cpu < 0 /\ ~transfer)
  BY AccountsAssumption DEF Changes
<1>2. owner \in Accounts /\ (~transfer => owner = from)
  BY <1>1 DEF Owner
<1>3. r \in Refunds /\ r.net \in Nat /\ r.cpu \in Nat
  BY <1>2 DEF TablesType, Refunds
<1>4. CASE Settles(from, to, net, cpu, transfer)
  <2>1. s = RefundAfter(r, net, cpu) /\ owed = Owed(r, net, cpu)
    BY <1>4 DEF RefundOf, OwedBy
  <2>2. owner \in Signers
    BY <1>1, <1>2, <1>4 DEF Settles
  <2> HIDE DEF s, owed, owner, r
  <2>3. /\ s \in Refunds /\ owed \in Nat /\ Weight(s) \in Nat
        /\ Weight(s) = Weight(r) - (net + cpu) + owed
    BY <1>1, <1>3, <2>1, RefundAfterFacts
  <2> QED
    BY <1>2, <2>2, <2>3 DEF s, owed, owner, r
<1>5. CASE ~Settles(from, to, net, cpu, transfer)
  <2>1. s = r /\ owed = net + cpu
    BY <1>5 DEF RefundOf, OwedBy
  <2>2. net + cpu > 0
    BY <1>1, <1>5 DEF Settles
  <2>3. Weight(r) = r.net + r.cpu
    BY DEF Weight
  <2> HIDE DEF s, owed, owner, r
  <2>4. owed \in Nat /\ Weight(s) \in Nat /\ Weight(s) = Weight(r) - (net + cpu) + owed
    BY <1>1, <1>3, <2>1, <2>2, <2>3
  <2> QED
    BY <1>2, <1>3, <2>1, <2>4 DEF s, owed, owner, r
<1> QED
  BY <1>4, <1>5

\* The tables u after changebw on t, one by one, before the final transfer.
Rebooking(t, u, from, to, net, cpu, transfer) ==
    LET owner == Owner(from, to, transfer)
        res == ResourcesOf(t, to, net, cpu)
        s == RefundOf(t, from, to, net, cpu, transfer)
    IN /\ u \in TablesType
       /\ u.balance = t.balance /\ u.row = t.row
       /\ u.delband = [t.delband EXCEPT ![<<owner, to>>] = Delegation(t, owner, to, net, cpu)]
       /\ u.userres = [t.userres EXCEPT ![to] = res]
       /\ u.limits = [t.limits EXCEPT ![to] = LimitsFor(t, to, res)]
       /\ u.refunds = [t.refunds EXCEPT ![owner] = s]
       /\ \E d \in {NotScheduled, RefundDelay} : u.deferred = [t.deferred EXCEPT ![owner] = d]
       /\ u.voters = t.voters \cup {owner}
       /\ u.staked = [t.staked EXCEPT ![owner] = @ + net + cpu]
       /\ t.userres[to].net + net >= 0 /\ t.userres[to].cpu + cpu >= 0

LEMMA RebookedFields ==
  ASSUME half \in {0, 1}, NEW t \in TablesType, managed \in [Accounts -> SUBSET Resources],
         NEW from, NEW to, NEW net, NEW cpu, NEW transfer,
         Changes(t, from, to, net, cpu, transfer)
  PROVE  Rebooking(t, Rebooked(t, from, to, net, cpu, transfer), from, to, net, cpu, transfer)
<1> DEFINE owner == Owner(from, to, transfer)
           u == Rebooked(t, from, to, net, cpu, transfer)
           res == ResourcesOf(t, to, net, cpu)
           l == LimitsFor(t, to, res)
           s == RefundOf(t, from, to, net, cpu, transfer)
           d == Scheduled(t, owner, Settles(from, to, net, cpu, transfer), s)
           del == Delegation(t, owner, to, net, cpu)
           stake == t.staked[owner] + net + cpu
<1>1. /\ to \in Accounts /\ net \in Int /\ cpu \in Int
      /\ CanChange(t, from, to, net, cpu, transfer)
  BY DEF Changes
<1>2. owner \in Accounts /\ s \in Refunds
  BY OwedFacts
<1>3. u = [t EXCEPT !.delband[<<owner, to>>] = del, !.userres[to] = res,
                    !.limits[to] = l, !.refunds[owner] = s, !.deferred[owner] = d,
                    !.voters = @ \cup {owner}, !.staked[owner] = stake]
  BY DEF Rebooked, RefundOf
<1>4. d \in {NotScheduled, RefundDelay} /\ d \in NotScheduled .. RefundDelay
  BY DelayFacts DEF Scheduled, NotScheduled
<1>5. /\ del.net \in Int /\ del.cpu \in Int /\ stake \in Int
      /\ res.net = t.userres[to].net + net /\ res.cpu = t.userres[to].cpu + cpu
  BY <1>1, <1>2 DEF Delegation, ResourcesOf, TablesType, Amounts, Rows
<1> HIDE DEF owner, res, l, s, d, del, stake
<1>6. /\ u.delband = [t.delband EXCEPT ![<<owner, to>>] = del]
      /\ u.userres = [t.userres EXCEPT ![to] = res]
      /\ u.limits = [t.limits EXCEPT ![to] = l]
      /\ u.refunds = [t.refunds EXCEPT ![owner] = s]
      /\ u.deferred = [t.deferred EXCEPT ![owner] = d]
      /\ u.voters = t.voters \cup {owner}
      /\ u.staked = [t.staked EXCEPT ![owner] = stake]
      /\ u.balance = t.balance /\ u.row = t.row
  BY <1>3 DEF TablesType
<1>7. /\ u.delband[<<owner, to>>] = del /\ u.userres[to] = res /\ u.staked[owner] = stake
  BY <1>1, <1>2, <1>6 DEF TablesType
<1>8. /\ del.net >= 0 /\ del.cpu >= 0 /\ res.net >= 0 /\ res.cpu >= 0 /\ stake >= 0
  BY <1>1, <1>7 DEF CanChange, owner
<1>9. del \in Amounts
  BY <1>5, <1>8 DEF del, Delegation, Amounts
<1>10. res \in Rows /\ l \in Limits
  BY <1>1, <1>5, <1>8, ResourcesFacts DEF res, l
<1> HIDE DEF u
<1>11. u \in TablesType
  <2>1. u = [balance |-> u.balance, row |-> u.row, delband |-> u.delband,
             userres |-> u.userres, voters |-> u.voters, staked |-> u.staked,
             refunds |-> u.refunds, deferred |-> u.deferred, limits |-> u.limits]
    BY <1>3 DEF TablesType, u
  <2>2. u.delband \in [Accounts \X Accounts -> Amounts]
    BY <1>1, <1>2, <1>6, <1>9 DEF TablesType
  <2>3. u.userres \in [Accounts -> Rows] /\ u.limits \in [Accounts -> Limits]
    BY <1>1, <1>6, <1>10 DEF TablesType
  <2>4. u.refunds \in [Accounts -> Refunds]
        /\ u.deferred \in [Accounts -> NotScheduled .. RefundDelay]
    BY <1>2, <1>4, <1>6 DEF TablesType
  <2>5. u.voters \in SUBSET Accounts /\ u.staked \in [Accounts -> Nat]
    BY <1>2, <1>5, <1>6, <1>8 DEF TablesType
  <2>6. u.balance \in Balances /\ u.row \in [Symbols -> SUBSET Accounts]
    BY <1>6 DEF TablesType
  <2> QED
    BY <2>1, <2>2, <2>3, <2>4, <2>5, <2>6 DEF TablesType
<1> QED
  BY <1>4, <1>5, <1>6, <1>8, <1>11 DEF Rebooking, owner, u, res, l, s, d, del, stake

\* A total in which one summand changes by d.
LEMMA TotalShift ==
  ASSUME NEW S, IsFiniteSet(S),
         NEW f, \A x \in S : f[x] \in Nat,
         NEW g, \A x \in S : g[x] \in Nat,
         NEW a \in S, NEW d \in Int, g[a] = f[a] + d, \A x \in S \ {a} : f[x] = g[x]
  PROVE  Total(g, S) = Total(f, S) + d
<1>1. Total(g, S) = Total(f, S) - f[a] + g[a]
  BY TotalChange
<1>2. Total(f, S) \in Nat
  BY TotalType
<1> QED
  BY <1>1, <1>2

LEMMA SummandTypes ==
  ASSUME NEW t \in TablesType, NEW a \in Accounts
  PROVE  \A b \in Accounts : /\ Out(t, a)[b] \in Nat /\ NetIn(t, a)[b] \in Nat
                             /\ CpuIn(t, a)[b] \in Nat /\ Waiting(t)[b] \in Nat
                             /\ t.staked[b] \in Nat
<1>1. \A b \in Accounts : /\ t.delband[<<a, b>>] \in Amounts /\ t.delband[<<b, a>>] \in Amounts
                          /\ t.refunds[b] \in Refunds /\ t.staked[b] \in Nat
  BY DEF TablesType
<1> QED
  BY <1>1 DEF Out, NetIn, CpuIn, Waiting, Weight, Amounts, Refunds

\* What changebw books, of an owner's stake for a receiver, on tables t and u.
Books(t, u, owner, to, net, cpu) ==
    LET res == ResourcesOf(t, to, net, cpu) IN
    /\ u.delband = [t.delband EXCEPT ![<<owner, to>>] = Delegation(t, owner, to, net, cpu)]
    /\ u.userres = [t.userres EXCEPT ![to] = res]
    /\ u.staked = [t.staked EXCEPT ![owner] = @ + net + cpu]

\* The three tables that book a stake still agree.
LEMMA BookedAgrees ==
  ASSUME NEW t \in TablesType, NEW u \in TablesType,
         NEW owner \in Accounts, NEW to \in Accounts, NEW net \in Int, NEW cpu \in Int,
         Books(t, u, owner, to, net, cpu), \A x \in Accounts : Agree(t, x),
         NEW a \in Accounts
  PROVE  Agree(u, a)
<1> DEFINE old == t.delband[<<owner, to>>]
           new == u.delband[<<owner, to>>]
           change == net + cpu
<1>0. IsFiniteSet(Accounts)
  BY AccountsAssumption
<1>1. old \in Amounts /\ t.userres[to] \in Rows
  BY DEF TablesType
<1>2. new.net = old.net + net /\ new.cpu = old.cpu + cpu
  BY <1>1 DEF Books, TablesType, Delegation
<1>3. \A x, y \in Accounts : x # owner \/ y # to => u.delband[<<x, y>>] = t.delband[<<x, y>>]
  BY DEF Books, TablesType
<1>4. u.staked[a] = IF a = owner THEN t.staked[a] + change ELSE t.staked[a]
  BY <1>1 DEF Books, TablesType
<1>5. /\ u.userres[a].net = IF a = to THEN t.userres[a].net + net ELSE t.userres[a].net
      /\ u.userres[a].cpu = IF a = to THEN t.userres[a].cpu + cpu ELSE t.userres[a].cpu
  BY <1>1 DEF Books, TablesType, ResourcesOf, Rows
<1>6. Agree(t, a)
  OBVIOUS
<1>7. Weight(new) = Weight(old) + change
  BY <1>1, <1>2 DEF Weight, Amounts
<1> HIDE DEF old, new, change, Agree
<1>8. u.staked[a] = Total(Out(u, a), Accounts)
  <2>1. CASE a = owner
    <3>1. Out(u, a)[to] = Out(t, a)[to] + change
      BY <1>7, <2>1 DEF Out, old, new
    <3>2. \A x \in Accounts \ {to} : Out(t, a)[x] = Out(u, a)[x]
      BY <1>3 DEF Out
    <3>3. \A x \in Accounts : Out(t, a)[x] \in Nat /\ Out(u, a)[x] \in Nat
      BY SummandTypes
    <3>4. Total(Out(u, a), Accounts) = Total(Out(t, a), Accounts) + change
      BY <1>0, <3>1, <3>2, <3>3, TotalShift DEF change
    <3> QED
      BY <1>4, <1>6, <2>1, <3>4 DEF Agree
  <2>2. CASE a # owner
    <3>1. \A x \in Accounts : Out(t, a)[x] = Out(u, a)[x]
      BY <1>3, <2>2 DEF Out
    <3> QED
      BY <1>4, <1>6, <2>2, <3>1, TotalCong DEF Agree
  <2> QED
    BY <2>1, <2>2
<1>9. u.userres[a].net = Total(NetIn(u, a), Accounts)
  <2>1. CASE a = to
    <3>1. NetIn(u, a)[owner] = NetIn(t, a)[owner] + net
      BY <1>2, <2>1 DEF NetIn, old, new
    <3>2. \A x \in Accounts \ {owner} : NetIn(t, a)[x] = NetIn(u, a)[x]
      BY <1>3 DEF NetIn
    <3>3. \A x \in Accounts : NetIn(t, a)[x] \in Nat /\ NetIn(u, a)[x] \in Nat
      BY SummandTypes
    <3>4. Total(NetIn(u, a), Accounts) = Total(NetIn(t, a), Accounts) + net
      BY <1>0, <3>1, <3>2, <3>3, TotalShift
    <3> QED
      BY <1>5, <1>6, <2>1, <3>4 DEF Agree
  <2>2. CASE a # to
    <3>1. \A x \in Accounts : NetIn(t, a)[x] = NetIn(u, a)[x]
      BY <1>3, <2>2 DEF NetIn
    <3> QED
      BY <1>5, <1>6, <2>2, <3>1, TotalCong DEF Agree
  <2> QED
    BY <2>1, <2>2
<1>10. u.userres[a].cpu = Total(CpuIn(u, a), Accounts)
  <2>1. CASE a = to
    <3>1. CpuIn(u, a)[owner] = CpuIn(t, a)[owner] + cpu
      BY <1>2, <2>1 DEF CpuIn, old, new
    <3>2. \A x \in Accounts \ {owner} : CpuIn(t, a)[x] = CpuIn(u, a)[x]
      BY <1>3 DEF CpuIn
    <3>3. \A x \in Accounts : CpuIn(t, a)[x] \in Nat /\ CpuIn(u, a)[x] \in Nat
      BY SummandTypes
    <3>4. Total(CpuIn(u, a), Accounts) = Total(CpuIn(t, a), Accounts) + cpu
      BY <1>0, <3>1, <3>2, <3>3, TotalShift
    <3> QED
      BY <1>5, <1>6, <2>1, <3>4 DEF Agree
  <2>2. CASE a # to
    <3>1. \A x \in Accounts : CpuIn(t, a)[x] = CpuIn(u, a)[x]
      BY <1>3, <2>2 DEF CpuIn
    <3> QED
      BY <1>5, <1>6, <2>2, <3>1, TotalCong DEF Agree
  <2> QED
    BY <2>1, <2>2
<1> QED
  BY <1>8, <1>9, <1>10 DEF Agree

\* The tables but for balances and their rows: what changebw has done before
\* the final transfer, and owes for. The limits of the accounts in X may lag behind.
SoundParts(t, m, X) ==
    \A a \in Accounts : /\ Agree(t, a) /\ OnTime(t, a) /\ Absent(t, m, a)
                        /\ a \notin X => Follows(t, m, a)

SoundBut(t, m, X) ==
    /\ t \in TablesType
    /\ m \in [Accounts -> SUBSET Resources]
    /\ Covered(t)
    /\ SoundParts(t, m, X)
    /\ \A a \in Accounts : InRow(t, a)

SameParts(t, u) ==
    /\ u.delband = t.delband /\ u.userres = t.userres /\ u.voters = t.voters
    /\ u.staked = t.staked /\ u.refunds = t.refunds /\ u.deferred = t.deferred
    /\ u.limits = t.limits

LEMMA SamePartsSound ==
  ASSUME NEW t, NEW u, NEW m, NEW X, SameParts(t, u), SoundParts(t, m, X)
  PROVE  SoundParts(u, m, X) /\ Held(u) = Held(t)
<1>1. ASSUME NEW a \in Accounts
      PROVE  Agree(u, a) /\ OnTime(u, a) /\ Absent(u, m, a) /\ (a \notin X => Follows(u, m, a))
  <2>1. Agree(t, a) /\ OnTime(t, a) /\ Absent(t, m, a) /\ (a \notin X => Follows(t, m, a))
    BY DEF SoundParts
  <2>2. Agree(u, a)
    BY <2>1 DEF Agree, Out, NetIn, CpuIn, SameParts
  <2> QED
    BY <2>1, <2>2 DEF OnTime, Follows, Absent, SameParts
<1>2. Held(u) = Held(t)
  BY DEF Held, Waiting, SameParts
<1> QED
  BY <1>1, <1>2 DEF SoundParts

LEMMA HeldType ==
  ASSUME NEW t \in TablesType
  PROVE  Held(t) \in Nat
<1>0. IsFiniteSet(Accounts) /\ StakeAccount \in Accounts
  BY AccountsAssumption, StakeAccountFacts
<1>1. \A b \in Accounts : Waiting(t)[b] \in Nat /\ t.staked[b] \in Nat
  BY <1>0, SummandTypes
<1>2. Total(t.staked, Accounts) \in Nat /\ Total(Waiting(t), Accounts) \in Nat
  BY <1>0, <1>1, TotalType
<1> QED
  BY <1>2 DEF Held

\* changebw before its final transfer: the tables agree, and what inery.stake
\* has to hold grows by exactly what is owed. The limits of the receiver follow
\* again, if they did not.
LEMMA RebookedSound ==
  ASSUME half \in {0, 1}, NEW t,
         NEW from, NEW to, NEW net, NEW cpu, NEW transfer, SoundBut(t, managed, {to}),
         Changes(t, from, to, net, cpu, transfer)
  PROVE  LET u == Rebooked(t, from, to, net, cpu, transfer)
         IN /\ u \in TablesType
            /\ u.balance = t.balance /\ u.row = t.row
            /\ SoundParts(u, managed, {})
            /\ Held(u) = Held(t) + OwedBy(t, from, to, net, cpu, transfer)
<1> DEFINE owner == Owner(from, to, transfer)
           u == Rebooked(t, from, to, net, cpu, transfer)
           owed == OwedBy(t, from, to, net, cpu, transfer)
           res == ResourcesOf(t, to, net, cpu)
           l == LimitsFor(t, to, res)
           s == RefundOf(t, from, to, net, cpu, transfer)
<1>0. IsFiniteSet(Accounts) /\ Signers \subseteq Accounts
  BY AccountsAssumption
<1>1. /\ t \in TablesType /\ managed \in [Accounts -> SUBSET Resources]
      /\ \A a \in Accounts : /\ Agree(t, a) /\ OnTime(t, a) /\ Absent(t, managed, a)
                             /\ a # to => Follows(t, managed, a)
  BY DEF SoundBut, SoundParts
<1>2. to \in Accounts /\ net \in Int /\ cpu \in Int
  BY DEF Changes
<1>3. /\ owner \in Accounts /\ owed \in Nat /\ s \in Refunds /\ Weight(s) \in Nat
      /\ Weight(s) = Weight(t.refunds[owner]) - (net + cpu) + owed
      /\ owner \notin Signers => Weight(s) = Weight(t.refunds[owner])
  BY <1>1, OwedFacts
<1>4. /\ u \in TablesType /\ u.balance = t.balance /\ u.row = t.row
      /\ u.userres = [t.userres EXCEPT ![to] = res]
      /\ u.limits = [t.limits EXCEPT ![to] = l]
      /\ u.refunds = [t.refunds EXCEPT ![owner] = s]
      /\ \E d \in {NotScheduled, RefundDelay} : u.deferred = [t.deferred EXCEPT ![owner] = d]
      /\ u.voters = t.voters \cup {owner}
      /\ u.staked = [t.staked EXCEPT ![owner] = @ + net + cpu]
      /\ t.userres[to].net + net >= 0 /\ t.userres[to].cpu + cpu >= 0
      /\ Books(t, u, owner, to, net, cpu)
  <2>1. Rebooking(t, u, from, to, net, cpu, transfer)
    BY <1>1, RebookedFields
  <2> HIDE DEF u
  <2> QED
    BY <2>1 DEF Rebooking, Books
<1>5. /\ ~res.row => res.net + res.cpu + res.mem = 0
      /\ "net" \in managed[to] \/ l.net = res.net
      /\ "cpu" \in managed[to] \/ l.cpu = res.cpu
  BY <1>1, <1>2, <1>4, ResourcesFacts
<1> HIDE DEF owner, u, owed, res, l, s
<1>6. \A a \in Accounts : Agree(u, a)
  BY <1>1, <1>2, <1>3, <1>4, BookedAgrees
<1>7. /\ \A a \in Accounts \ {to} : u.userres[a] = t.userres[a] /\ u.limits[a] = t.limits[a]
      /\ u.userres[to] = res /\ u.limits[to] = l
  BY <1>1, <1>2, <1>4 DEF TablesType
<1>8. PICK d \in {NotScheduled, RefundDelay} : u.deferred = [t.deferred EXCEPT ![owner] = d]
  BY <1>4
<1>9. /\ \A a \in Accounts \ {owner} : /\ u.refunds[a] = t.refunds[a]
                                       /\ u.deferred[a] = t.deferred[a]
                                       /\ u.staked[a] = t.staked[a]
      /\ u.refunds[owner] = s /\ u.deferred[owner] = d
      /\ u.staked[owner] = t.staked[owner] + (net + cpu)
  <2>1. t.staked[owner] \in Nat
    BY <1>1, <1>3 DEF TablesType
  <2> QED
    BY <1>1, <1>2, <1>3, <1>4, <1>8, <2>1 DEF TablesType
<1>10. ASSUME NEW a \in Accounts PROVE OnTime(u, a)
  <2>1. CASE a = owner
    <3>1. s.age \in Nat
      BY <1>3 DEF Refunds
    <3> QED
      BY <1>8, <1>9, <2>1, <3>1, DelayFacts DEF OnTime
  <2>2. CASE a # owner
    BY <1>1, <1>9, <2>2 DEF OnTime
  <2> QED
    BY <2>1, <2>2
<1>11. ASSUME NEW a \in Accounts PROVE Follows(u, managed, a)
  BY <1>1, <1>5, <1>7 DEF Follows
<1>12. ASSUME NEW a \in Accounts PROVE Absent(u, managed, a)
  <2>1. ~u.userres[a].row => u.userres[a].net + u.userres[a].cpu + u.userres[a].mem = 0
    BY <1>1, <1>5, <1>7 DEF Absent
  <2>2. a \notin u.voters => u.staked[a] = 0 /\ managed[a] = {}
    BY <1>1, <1>4, <1>9 DEF Absent
  <2>3. a \notin Signers => Weight(u.refunds[a]) = 0
    BY <1>1, <1>3, <1>9 DEF Absent
  <2> QED
    BY <2>1, <2>2, <2>3 DEF Absent
<1>13. Held(u) = Held(t) + owed
  <2>1. \A b \in Accounts : /\ Waiting(t)[b] \in Nat /\ t.staked[b] \in Nat
                            /\ Waiting(u)[b] \in Nat /\ u.staked[b] \in Nat
    BY <1>1, <1>3, <1>4, SummandTypes
  <2>2. Total(u.staked, Accounts) = Total(t.staked, Accounts) + (net + cpu)
    <3>1. net + cpu \in Int /\ \A x \in Accounts \ {owner} : t.staked[x] = u.staked[x]
      BY <1>2, <1>9
    <3>2. u.staked[owner] = t.staked[owner] + (net + cpu)
      BY <1>9
    <3> QED
      BY <1>0, <1>3, <2>1, <3>1, <3>2, TotalShift
  <2>3. /\ Waiting(u)[owner] = Waiting(t)[owner] + (owed - (net + cpu))
        /\ \A x \in Accounts \ {owner} : Waiting(t)[x] = Waiting(u)[x]
    <3>1. Waiting(u)[owner] = Weight(s) /\ Waiting(t)[owner] = Weight(t.refunds[owner])
      BY <1>3, <1>9 DEF Waiting
    <3>2. \A x \in Accounts \ {owner} : Waiting(t)[x] = Waiting(u)[x]
      BY <1>9 DEF Waiting
    <3> HIDE DEF Waiting
    <3>3. Waiting(t)[owner] \in Nat
      BY <1>3, <2>1
    <3> QED
      BY <1>2, <1>3, <3>1, <3>2, <3>3
  <2>4. Total(Waiting(u), Accounts) = Total(Waiting(t), Accounts) + (owed - (net + cpu))
    BY <1>0, <1>2, <1>3, <2>1, <2>3, TotalShift
  <2>5. Total(t.staked, Accounts) \in Nat /\ Total(Waiting(t), Accounts) \in Nat
    BY <1>0, <2>1, TotalType
  <2> QED
    BY <1>2, <1>3, <2>2, <2>4, <2>5 DEF Held
<1> QED
  BY <1>4, <1>6, <1>10, <1>11, <1>12, <1>13 DEF SoundParts, u, owed

\* A payment of the core token leaves the books alone.
LEMMA PaymentSound ==
  ASSUME NEW u \in TablesType, NEW m, NEW X, SoundParts(u, m, X), \A a \in Accounts : InRow(u, a),
         NEW from \in Accounts, NEW to \in Accounts, NEW q \in Nat, CanPay(u, from, to, q)
  PROVE  LET w == Paid(u, from, to, q)
         IN /\ w \in TablesType /\ SoundParts(w, m, X) /\ \A a \in Accounts : InRow(w, a)
            /\ Held(w) = Held(u)
            /\ from # to
            /\ w.refunds = u.refunds
            /\ w.balance[CoreSymbol] = [u.balance[CoreSymbol] EXCEPT ![from] = @ - q, ![to] = @ + q]
<1> DEFINE w == Paid(u, from, to, q)
<1>1. from # to /\ u.balance[CoreSymbol][from] >= q /\ from \in u.row[CoreSymbol]
  BY DEF CanPay, CanMove, CanSub
<1>2. /\ w \in TablesType /\ SameParts(u, w)
      /\ w.row[CoreSymbol] = u.row[CoreSymbol] \cup {to}
      /\ w.balance[CoreSymbol] = [u.balance[CoreSymbol] EXCEPT ![from] = @ - q, ![to] = @ + q]
  BY <1>1, PaidFacts DEF SameParts
<1> HIDE DEF w
<1>3. SoundParts(w, m, X) /\ Held(w) = Held(u)
  BY <1>2, SamePartsSound
<1>4. u.balance[CoreSymbol] \in [Accounts -> Nat]
  BY SymbolAssumption DEF TablesType, Balances
<1>5. ASSUME NEW a \in Accounts PROVE InRow(w, a)
  <2>1. CASE a = to
    BY <1>2, <2>1 DEF InRow
  <2>2. CASE a # to
    <3>1. w.balance[CoreSymbol][a] > 0 => u.balance[CoreSymbol][a] > 0
      BY <1>1, <1>2, <1>4, <2>2
    <3> QED
      BY <1>2, <3>1 DEF InRow
  <2> QED
    BY <2>1, <2>2
<1> QED
  BY <1>1, <1>2, <1>3, <1>5 DEF w, SameParts

LEMMA SoundIs ==
  ASSUME NEW t, NEW m
  PROVE  /\ Sound(t, m) <=> /\ t \in TablesType /\ m \in [Accounts -> SUBSET Resources]
                            /\ Covered(t) /\ SoundParts(t, m, {}) /\ \A a \in Accounts : InRow(t, a)
         /\ Sound(t, m) => \A x \in Accounts : SoundBut(t, m, {x})
BY DEF Sound, SoundBut, SoundParts

LEMMA CoreBalances ==
  ASSUME NEW t \in TablesType
  PROVE  t.balance[CoreSymbol] \in [Accounts -> Nat]
BY SymbolAssumption DEF TablesType, Balances

\* A whole changebw keeps the invariant.
LEMMA ChangedSound ==
  ASSUME half \in {0, 1}, NEW t,
         NEW from, NEW to, NEW net, NEW cpu, NEW transfer, SoundBut(t, managed, {to}),
         Changes(t, from, to, net, cpu, transfer)
  PROVE  Sound(Changed(t, from, to, net, cpu, transfer), managed)
<1> DEFINE u == Rebooked(t, from, to, net, cpu, transfer)
           owed == OwedBy(t, from, to, net, cpu, transfer)
           w == Changed(t, from, to, net, cpu, transfer)
           c == t.balance[CoreSymbol]
<1>1. /\ u \in TablesType /\ u.balance = t.balance /\ u.row = t.row
      /\ SoundParts(u, managed, {}) /\ Held(u) = Held(t) + owed
  BY RebookedSound
<1>2. /\ t \in TablesType /\ managed \in [Accounts -> SUBSET Resources] /\ Covered(t)
      /\ \A a \in Accounts : InRow(t, a)
  BY DEF SoundBut
<1>3. owed \in Nat /\ Held(t) \in Nat
  BY <1>2, OwedFacts, HeldType
<1>4. from \in Accounts /\ from # StakeAccount /\ StakeAccount \in Accounts
  BY AccountsAssumption, StakeAccountFacts DEF Changes
<1>5. owed > 0 => CanPay(t, from, StakeAccount, owed)
  BY DEF Changes, CanChange
<1>6. w = IF owed > 0 THEN Paid(u, from, StakeAccount, owed) ELSE u
  BY DEF Changed
<1>7. c \in [Accounts -> Nat]
  BY <1>2, CoreBalances
<1>8. \A a \in Accounts : InRow(u, a)
  BY <1>1, <1>2 DEF InRow
<1> HIDE DEF u, owed, w, c
<1>9. CASE owed > 0
  <2>1. CanPay(u, from, StakeAccount, owed)
    BY <1>1, <1>5, <1>9 DEF CanPay
  <2>2. /\ w \in TablesType /\ SoundParts(w, managed, {}) /\ \A a \in Accounts : InRow(w, a)
        /\ Held(w) = Held(u)
        /\ w.balance[CoreSymbol] = [u.balance[CoreSymbol] EXCEPT ![from] = @ - owed,
                                                                 ![StakeAccount] = @ + owed]
    BY <1>1, <1>3, <1>4, <1>6, <1>8, <1>9, <2>1, PaymentSound
  <2>3. w.balance[CoreSymbol][StakeAccount] = c[StakeAccount] + owed
    BY <1>1, <1>4, <1>7, <2>2 DEF c
  <2>4. c[StakeAccount] >= Held(t) /\ c[StakeAccount] \in Nat
    BY <1>2, <1>4, <1>7 DEF Covered, c
  <2>5. Covered(w)
    BY <1>1, <1>3, <2>2, <2>3, <2>4 DEF Covered
  <2> QED
    BY <1>2, <2>2, <2>5, SoundIs DEF w
<1>10. CASE ~(owed > 0)
  <2>1. w = u /\ owed = 0
    BY <1>3, <1>6, <1>10
  <2>2. Covered(u)
    BY <1>1, <1>2, <1>3, <2>1 DEF Covered
  <2> QED
    BY <1>1, <1>2, <1>8, <2>1, <2>2, SoundIs DEF w
<1> QED
  BY <1>9, <1>10

\* A payment moves no stake.
LEMMA PaidStaked ==
  ASSUME NEW t \in TablesType, NEW from, NEW to, NEW q
  PROVE  Paid(t, from, to, q).staked = t.staked
BY DEF Paid, TablesType

(***************************************************************************)
(* Refunds                                                                 *)
(***************************************************************************)
\* What a refund pays is what inery.stake no longer has to hold.
Released(t, u, o) ==
    LET q == Waiting(t)[o] IN
    /\ q \in Nat /\ q > 0 /\ o # StakeAccount
    /\ u.balance[CoreSymbol] = [t.balance[CoreSymbol] EXCEPT ![StakeAccount] = @ - q, ![o] = @ + q]
    /\ u.staked = t.staked
    /\ Waiting(u) = [Waiting(t) EXCEPT ![o] = 0]
    /\ Held(u) = Held(t) - q

LEMMA RefundedSound ==
  ASSUME Sound(Tables, managed), NEW owner \in Accounts, CanRefund(owner)
  PROVE  Sound(Refunded(owner), managed) /\ Released(Tables, Refunded(owner), owner)
<1> DEFINE q == Weight(refunds[owner])
           w == Paid(Tables, StakeAccount, owner, q)
           u == Refunded(owner)
           c == balance[CoreSymbol]
<1>0. IsFiniteSet(Accounts) /\ StakeAccount \in Accounts
  BY AccountsAssumption, StakeAccountFacts
<1>1. /\ Tables \in TablesType /\ managed \in [Accounts -> SUBSET Resources] /\ Covered(Tables)
      /\ SoundParts(Tables, managed, {}) /\ \A a \in Accounts : InRow(Tables, a)
  BY SoundIs
<1>2. /\ Tables.refunds = refunds /\ Tables.balance = balance
  BY DEF Tables
<1>3. q > 0 /\ q \in Nat /\ CanPay(Tables, StakeAccount, owner, q)
  <2>1. refunds[owner] \in Refunds
    BY <1>1, <1>2 DEF TablesType
  <2> QED
    BY <2>1 DEF CanRefund, Due, Weight, Refunds
<1>4. c \in [Accounts -> Nat]
  BY <1>1, <1>2, CoreBalances
<1> HIDE DEF q, w, u, c
<1>5. /\ w \in TablesType /\ SoundParts(w, managed, {}) /\ \A a \in Accounts : InRow(w, a)
      /\ Held(w) = Held(Tables) /\ StakeAccount # owner /\ w.refunds = refunds
      /\ w.balance[CoreSymbol] = [c EXCEPT ![StakeAccount] = @ - q, ![owner] = @ + q]
  BY <1>0, <1>1, <1>2, <1>3, PaymentSound DEF w, c
<1>6. u = [w EXCEPT !.refunds[owner] = NoRefund]
  BY DEF u, w, q, Refunded
<1>7. NoRefund \in Refunds /\ Weight(NoRefund) = 0
  BY DelayFacts DEF NoRefund, Refunds, Weight
<1>8. /\ u \in TablesType /\ u.balance = w.balance /\ u.row = w.row /\ u.delband = w.delband
      /\ u.userres = w.userres /\ u.voters = w.voters /\ u.staked = w.staked
      /\ u.deferred = w.deferred /\ u.limits = w.limits
      /\ u.refunds = [w.refunds EXCEPT ![owner] = NoRefund]
  BY <1>5, <1>6, <1>7 DEF TablesType
<1>9. /\ u.refunds[owner] = NoRefund
      /\ \A a \in Accounts \ {owner} : u.refunds[a] = w.refunds[a]
  BY <1>5, <1>8 DEF TablesType
<1>10. SoundParts(u, managed, {})
  <2>1. ASSUME NEW a \in Accounts
        PROVE  Agree(u, a) /\ OnTime(u, a) /\ Follows(u, managed, a) /\ Absent(u, managed, a)
    <3>1. Agree(w, a) /\ OnTime(w, a) /\ Follows(w, managed, a) /\ Absent(w, managed, a)
      BY <1>5 DEF SoundParts
    <3>2. Agree(u, a)
      BY <1>8, <3>1 DEF Agree, Out, NetIn, CpuIn
    <3>3. OnTime(u, a) /\ Absent(u, managed, a)
      BY <1>7, <1>8, <1>9, <3>1 DEF OnTime, Absent
    <3> QED
      BY <1>8, <3>1, <3>2, <3>3 DEF Follows
  <2> QED
    BY <2>1 DEF SoundParts
<1>11. \A a \in Accounts : InRow(u, a)
  BY <1>5, <1>8 DEF InRow
<1>12. Held(u) = Held(w) - q
  <2>1. \A b \in Accounts : /\ Waiting(w)[b] \in Nat /\ w.staked[b] \in Nat
                            /\ Waiting(u)[b] \in Nat
    BY <1>5, <1>8, SummandTypes
  <2>2. /\ Waiting(u)[owner] = Waiting(w)[owner] + (-q) /\ -q \in Int
        /\ \A x \in Accounts \ {owner} : Waiting(w)[x] = Waiting(u)[x]
    <3>1. Waiting(u)[owner] = 0 /\ Waiting(w)[owner] = q
      BY <1>5, <1>7, <1>9 DEF Waiting, q
    <3>2. \A x \in Accounts \ {owner} : Waiting(w)[x] = Waiting(u)[x]
      BY <1>9 DEF Waiting
    <3> QED
      BY <1>3, <3>1, <3>2
  <2>3. Total(Waiting(u), Accounts) = Total(Waiting(w), Accounts) + (-q)
    BY <1>0, <2>1, <2>2, TotalShift
  <2>4. Total(w.staked, Accounts) \in Nat /\ Total(Waiting(w), Accounts) \in Nat
    BY <1>0, <2>1, TotalType
  <2> QED
    BY <1>3, <1>8, <2>3, <2>4 DEF Held
<1>13. Covered(u)
  <2>1. u.balance[CoreSymbol][StakeAccount] = c[StakeAccount] - q
    BY <1>0, <1>4, <1>5, <1>8
  <2>2. c[StakeAccount] >= Held(Tables) /\ c[StakeAccount] \in Nat /\ Held(Tables) \in Nat
    BY <1>0, <1>1, <1>2, <1>4, HeldType DEF Covered, c
  <2> QED
    BY <1>3, <1>5, <1>12, <2>1, <2>2 DEF Covered
<1>14. Sound(u, managed)
  BY <1>1, <1>8, <1>10, <1>11, <1>13, SoundIs
<1>15. Waiting(Tables)[owner] = q /\ Waiting(w) = Waiting(Tables) /\ w.staked = Tables.staked
  BY <1>1, <1>2, <1>5, PaidStaked DEF Waiting, q, w
<1>16. Waiting(u) = [Waiting(w) EXCEPT ![owner] = 0]
  <2>1. \A x \in Accounts : Waiting(u)[x] = IF x = owner THEN 0 ELSE Waiting(w)[x]
    BY <1>7, <1>9 DEF Waiting
  <2>2. Waiting(u) = [x \in Accounts |-> Waiting(u)[x]] /\ Waiting(w) = [x \in Accounts |-> Waiting(w)[x]]
    BY DEF Waiting
  <2> HIDE DEF Waiting
  <2> QED
    BY <2>1, <2>2
<1>17. Tables.balance[CoreSymbol] = c /\ u.balance[CoreSymbol] = w.balance[CoreSymbol]
  BY <1>2, <1>8 DEF c
<1>18. u.staked = Tables.staked /\ Held(u) = Held(Tables) - q
  BY <1>5, <1>8, <1>12, <1>15
<1>19. Released(Tables, u, owner)
  BY <1>3, <1>5, <1>15, <1>16, <1>17, <1>18 DEF Released
<1> QED
  BY <1>14, <1>19 DEF u

\* A deferred transaction that ran or expired is gone.
LEMMA SpentSound ==
  ASSUME NEW t, NEW m, Sound(t, m), NEW owner \in Accounts
  PROVE  Sound(Spent(t, owner), m)
<1> DEFINE u == Spent(t, owner)
<1>1. /\ t \in TablesType /\ m \in [Accounts -> SUBSET Resources] /\ Covered(t)
      /\ SoundParts(t, m, {}) /\ \A a \in Accounts : InRow(t, a)
  BY SoundIs
<1>2. NotScheduled \in NotScheduled .. RefundDelay
  BY DelayFacts DEF NotScheduled
<1>3. /\ u \in TablesType /\ u.balance = t.balance /\ u.row = t.row /\ u.delband = t.delband
      /\ u.userres = t.userres /\ u.voters = t.voters /\ u.staked = t.staked
      /\ u.refunds = t.refunds /\ u.limits = t.limits
      /\ u.deferred = [t.deferred EXCEPT ![owner] = NotScheduled]
  BY <1>1, <1>2 DEF TablesType, Spent
<1> HIDE DEF u
<1>4. \A a \in Accounts : u.deferred[a] = NotScheduled \/ u.deferred[a] = t.deferred[a]
  BY <1>1, <1>3 DEF TablesType
<1>5. ASSUME NEW a \in Accounts
      PROVE  Agree(u, a) /\ OnTime(u, a) /\ Follows(u, m, a) /\ Absent(u, m, a)
  <2>1. Agree(t, a) /\ OnTime(t, a) /\ Follows(t, m, a) /\ Absent(t, m, a)
    BY <1>1 DEF SoundParts
  <2>2. Agree(u, a)
    BY <1>3, <2>1 DEF Agree, Out, NetIn, CpuIn
  <2>3. OnTime(u, a)
    BY <1>3, <1>4, <2>1 DEF OnTime
  <2> QED
    BY <1>3, <2>1, <2>2, <2>3 DEF Follows, Absent
<1>6. Covered(u) /\ \A a \in Accounts : InRow(u, a)
  BY <1>1, <1>3 DEF Covered, Held, Waiting, InRow
<1> QED
  BY <1>1, <1>3, <1>5, <1>6, SoundIs DEF u, SoundParts

(***************************************************************************)
(* The steps                                                               *)
(***************************************************************************)
LEMMA TablesStep ==
  ASSUME NEW t, Sound(t, managed), Become(t), StakingInv,
         UNCHANGED <<stat, activity, managed, half>>
  PROVE  StakingInv'
<1>1. t \in TablesType
  BY SoundIs
<1>2. Tables' = t
  BY <1>1 DEF TablesType, Tables, Become
<1> HIDE DEF Tables, Sound
<1>3. Sound(Tables, managed)'
  BY <1>2
<1> QED
  BY <1>3 DEF StakingInv

LEMMA DelegatebwStep ==
  ASSUME StakingInv, NEW from \in Signers, NEW to \in Receivers,
         NEW net \in StakeAmounts, NEW cpu \in StakeAmounts, NEW transfer \in BOOLEAN,
         Delegatebw(from, to, net, cpu, transfer)
  PROVE  StakingInv'
<1>1. /\ to \in Accounts /\ net \in Int /\ cpu \in Int
  BY StakeAccountAssumption, StakeAmountAssumption
<1>2. Changes(Tables, from, to, net, cpu, transfer)
  BY <1>1 DEF Delegatebw, CanDelegate, Changes
<1>3. Sound(Tables, managed) /\ half \in {0, 1}
  BY DEF StakingInv
<1>4. Sound(Changed(Tables, from, to, net, cpu, transfer), managed)
  BY <1>2, <1>3, ChangedSound, SoundIs DEF Changes
<1> QED
  BY <1>4, TablesStep DEF Delegatebw

LEMMA UndelegatebwStep ==
  ASSUME StakingInv, NEW from \in Signers, NEW to \in Receivers,
         NEW net \in StakeAmounts, NEW cpu \in StakeAmounts, Undelegatebw(from, to, net, cpu)
  PROVE  StakingInv'
<1>1. to \in Accounts /\ net \in Nat /\ cpu \in Nat /\ net + cpu > 0
  BY StakeAccountAssumption, StakeAmountAssumption DEF Undelegatebw, CanUndelegate
<1>2. -net \in Int /\ -cpu \in Int /\ -net + -cpu < 0
  BY <1>1
<1>3. Changes(Tables, from, to, -net, -cpu, FALSE)
  BY <1>1, <1>2 DEF Undelegatebw, CanUndelegate, Changes
<1>4. Sound(Tables, managed) /\ half \in {0, 1}
  BY DEF StakingInv
<1>5. Sound(Changed(Tables, from, to, -net, -cpu, FALSE), managed)
  BY <1>3, <1>4, ChangedSound, SoundIs DEF Changes
<1> QED
  BY <1>5, TablesStep DEF Undelegatebw

LEMMA RefundStep ==
  ASSUME StakingInv, NEW owner \in Accounts, Refund(owner)
  PROVE  StakingInv'
<1>1. Sound(Refunded(owner), managed)
  BY RefundedSound DEF StakingInv, Refund
<1> QED
  BY <1>1, TablesStep DEF Refund

LEMMA RunDeferredStep ==
  ASSUME StakingInv, NEW owner \in Accounts, RunDeferred(owner)
  PROVE  StakingInv'
<1> DEFINE t == IF CanRefund(owner) THEN Refunded(owner) ELSE Tables
<1>1. Sound(t, managed)
  BY RefundedSound DEF StakingInv
<1> HIDE DEF t
<1>2. Sound(Spent(t, owner), managed)
  BY <1>1, SpentSound
<1> QED
  BY <1>2, TablesStep DEF RunDeferred, t

LEMMA ExpireDeferredStep ==
  ASSUME StakingInv, NEW owner \in Accounts, ExpireDeferred(owner)
  PROVE  StakingInv'
<1>1. Sound(Spent(Tables, owner), managed)
  BY SpentSound DEF StakingInv
<1> QED
  BY <1>1, TablesStep DEF ExpireDeferred

\* Time passes for refunds and their transactions together.
LEMMA TickStep ==
  ASSUME StakingInv, Tick
  PROVE  StakingInv'
<1> DEFINE t == [Tables EXCEPT !.refunds = refunds', !.deferred = deferred']
<1>1. /\ Tables \in TablesType /\ managed \in [Accounts -> SUBSET Resources] /\ Covered(Tables)
      /\ SoundParts(Tables, managed, {}) /\ \A a \in Accounts : InRow(Tables, a)
  BY SoundIs DEF StakingInv
<1>2. refunds \in [Accounts -> Refunds] /\ deferred \in [Accounts -> NotScheduled .. RefundDelay]
  BY <1>1 DEF Tables, TablesType
<1>3. ASSUME NEW a \in Accounts
      PROVE  /\ refunds'[a] \in Refunds /\ Weight(refunds'[a]) = Weight(refunds[a])
             /\ refunds'[a].age = IF Weight(refunds[a]) = 0 \/ refunds[a].age >= RefundDelay
                                  THEN refunds[a].age ELSE refunds[a].age + 1
  <2> DEFINE r == refunds[a]
  <2>1. r \in Refunds
    BY <1>2
  <2>2. refunds'[a] = Older(r)
    BY DEF Tick
  <2> HIDE DEF r
  <2>3. CASE Weight(r) = 0 \/ r.age >= RefundDelay
    BY <2>1, <2>2, <2>3 DEF Older, r
  <2>4. CASE ~(Weight(r) = 0 \/ r.age >= RefundDelay)
    <3>1. refunds'[a] = [r EXCEPT !.age = @ + 1]
      BY <2>2, <2>4 DEF Older
    <3>2. r.age \in Nat /\ r.age + 1 \in 0 .. RefundDelay
      BY <2>1, <2>4, DelayFacts DEF Refunds
    <3> QED
      BY <2>1, <2>4, <3>1, <3>2 DEF Refunds, Weight, r
  <2> QED
    BY <2>3, <2>4
<1>4. ASSUME NEW a \in Accounts
      PROVE  /\ deferred'[a] = IF deferred[a] > 0 THEN deferred[a] - 1 ELSE deferred[a]
             /\ deferred'[a] \in NotScheduled .. RefundDelay
  BY <1>2, DelayFacts DEF Tick, Sooner, NotScheduled
<1>5. refunds' \in [Accounts -> Refunds] /\ deferred' \in [Accounts -> NotScheduled .. RefundDelay]
  <2>1. refunds' = [a \in Accounts |-> refunds'[a]] /\ deferred' = [a \in Accounts |-> deferred'[a]]
    BY DEF Tick
  <2> QED
    BY <1>3, <1>4, <2>1
<1>6. /\ t \in TablesType /\ t.balance = balance /\ t.row = row /\ t.delband = delband
      /\ t.userres = userres /\ t.voters = voters /\ t.staked = staked
      /\ t.limits = limits /\ t.refunds = refunds' /\ t.deferred = deferred'
  BY <1>1, <1>5 DEF TablesType, Tables
<1> HIDE DEF t
<1>7. Tables' = t
  BY <1>6 DEF TablesType, Tables, Tick, tokenVars
<1>8. ASSUME NEW a \in Accounts
      PROVE  /\ Agree(t, a) /\ OnTime(t, a) /\ Follows(t, managed, a) /\ Absent(t, managed, a)
             /\ InRow(t, a)
  <2>1. /\ Agree(Tables, a) /\ OnTime(Tables, a) /\ Follows(Tables, managed, a)
        /\ Absent(Tables, managed, a) /\ InRow(Tables, a)
    BY <1>1 DEF SoundParts
  <2>2. Agree(t, a)
    BY <1>6, <2>1 DEF Tables, Agree, Out, NetIn, CpuIn
  <2>3. OnTime(t, a)
    <3>1. OnTime(Tables, a)
      BY <2>1
    <3>2. /\ refunds[a].age \in Nat /\ refunds[a].age <= RefundDelay
          /\ deferred[a] \in NotScheduled .. RefundDelay
      BY <1>2 DEF Refunds
    <3> QED
      BY <1>3, <1>4, <1>6, <3>1, <3>2, DelayFacts DEF OnTime, Tables, NotScheduled
  <2>4. Absent(t, managed, a)
    BY <1>3, <1>6, <2>1 DEF Absent, Tables
  <2> QED
    BY <1>6, <2>1, <2>2, <2>3, <2>4 DEF Tables, Follows, InRow
<1>9. Held(t) = Held(Tables)
  <2>1. \A x \in Accounts : Waiting(t)[x] = Waiting(Tables)[x]
    BY <1>3, <1>6 DEF Waiting, Tables
  <2>2. Total(Waiting(t), Accounts) = Total(Waiting(Tables), Accounts)
    BY <2>1, TotalCong
  <2> QED
    BY <1>6, <2>2 DEF Held, Tables
<1>10. Covered(t)
  BY <1>1, <1>6, <1>9 DEF Covered, Tables
<1>11. Sound(t, managed)
  BY <1>1, <1>6, <1>8, <1>10, SoundIs DEF SoundParts
<1> HIDE DEF Tables, Sound
<1>12. Sound(Tables, managed)'
  BY <1>7, <1>11 DEF Tick
<1>13. half' \in {0, 1} /\ activity' = activity
  BY DEF Tick, StakingInv, tokenVars
<1> QED
  BY <1>12, <1>13 DEF StakingInv

(***************************************************************************)
(* The operator's limits                                                   *)
(***************************************************************************)
\* A step that only touches the limits of one account, its managed flags, and
\* its row among the voters.
LEMMA LimitsStep ==
  ASSUME StakingInv, NEW a \in Accounts, NEW l \in Limits, NEW flags \in SUBSET Resources,
         limits' = [limits EXCEPT ![a] = l], managed' = [managed EXCEPT ![a] = flags],
         voters' = voters \cup {a} \/ (voters' = voters /\ flags \subseteq managed[a]),
         userres[a].row => /\ "net" \in flags \/ l.net = userres[a].net
                           /\ "cpu" \in flags \/ l.cpu = userres[a].cpu,
         UNCHANGED <<tokenVars, delband, userres, staked, refunds, deferred, half>>
  PROVE  StakingInv'
<1> DEFINE t == [Tables EXCEPT !.limits = limits', !.voters = voters']
<1>1. /\ Tables \in TablesType /\ managed \in [Accounts -> SUBSET Resources] /\ Covered(Tables)
      /\ SoundParts(Tables, managed, {}) /\ \A x \in Accounts : InRow(Tables, x)
  BY SoundIs DEF StakingInv
<1>2. /\ voters' \in SUBSET Accounts /\ limits' \in [Accounts -> Limits]
      /\ managed' \in [Accounts -> SUBSET Resources]
  BY <1>1 DEF Tables, TablesType
<1>3. /\ t \in TablesType /\ t.balance = balance /\ t.row = row /\ t.delband = delband
      /\ t.userres = userres /\ t.voters = voters' /\ t.staked = staked
      /\ t.limits = limits' /\ t.refunds = refunds /\ t.deferred = deferred
  BY <1>1, <1>2 DEF TablesType, Tables
<1> HIDE DEF t
<1>4. Tables' = t
  BY <1>3 DEF TablesType, Tables, tokenVars
<1>5. /\ limits'[a] = l /\ managed'[a] = flags
      /\ \A x \in Accounts \ {a} : limits'[x] = limits[x] /\ managed'[x] = managed[x]
  BY <1>1 DEF Tables, TablesType
<1>6. ASSUME NEW x \in Accounts
      PROVE  /\ Agree(t, x) /\ OnTime(t, x) /\ Follows(t, managed', x) /\ Absent(t, managed', x)
             /\ InRow(t, x)
  <2>1. /\ Agree(Tables, x) /\ OnTime(Tables, x) /\ Follows(Tables, managed, x)
        /\ Absent(Tables, managed, x) /\ InRow(Tables, x)
    BY <1>1 DEF SoundParts
  <2>2. Agree(t, x)
    BY <1>3, <2>1 DEF Tables, Agree, Out, NetIn, CpuIn
  <2>3. Follows(t, managed', x)
    BY <1>3, <1>5, <2>1 DEF Follows, Tables
  <2>4. Absent(t, managed', x)
    <3>1. x \notin voters' => staked[x] = 0 /\ managed'[x] = {}
      BY <1>5, <2>1 DEF Absent, Tables
    <3> QED
      BY <1>3, <2>1, <3>1 DEF Absent, Tables
  <2> QED
    BY <1>3, <2>1, <2>2, <2>3, <2>4 DEF Tables, OnTime, InRow
<1>7. Covered(t)
  BY <1>1, <1>3 DEF Covered, Held, Waiting, Tables
<1>8. Sound(t, managed')
  BY <1>2, <1>3, <1>6, <1>7, SoundIs DEF SoundParts
<1> HIDE DEF Tables, Sound
<1>9. Sound(Tables, managed)'
  BY <1>4, <1>8
<1> QED
  BY <1>9 DEF StakingInv, tokenVars

LEMMA StakeTypes ==
  ASSUME StakingInv
  PROVE  /\ limits \in [Accounts -> Limits] /\ managed \in [Accounts -> SUBSET Resources]
         /\ userres \in [Accounts -> Rows] /\ voters \in SUBSET Accounts
BY DEF StakingInv, Sound, Tables, TablesType

LEMMA SetALimitsStep ==
  ASSUME StakingInv, NEW a \in Accounts,
         NEW mem \in LimitValues, NEW net \in LimitValues, NEW cpu \in LimitValues,
         SetALimits(a, mem, net, cpu)
  PROVE  StakingInv'
<1> DEFINE l == [mem |-> mem, net |-> net, cpu |-> cpu]
<1>1. l \in Limits
  BY StakeAmountAssumption DEF Limits, Values, Unlimited
<1>2. managed' = [managed EXCEPT ![a] = managed[a]] /\ managed[a] \in SUBSET Resources
  BY StakeTypes DEF SetALimits
<1>3. ~userres[a].row /\ limits' = [limits EXCEPT ![a] = l] /\ voters' = voters
  BY DEF SetALimits
<1>4. UNCHANGED <<tokenVars, delband, userres, staked, refunds, deferred, half>>
  BY DEF SetALimits
<1> HIDE DEF l
<1> QED
  BY <1>1, <1>2, <1>3, <1>4, LimitsStep

LEMMA SetAcctStep ==
  ASSUME StakingInv, NEW a \in Accounts, NEW resource \in ManagedKinds, NEW value \in LimitValues,
         SetAcct(a, resource, value)
  PROVE  StakingInv'
<1> DEFINE l == [limits[a] EXCEPT ![resource] = value]
           flags == managed[a] \cup {resource}
<1>1. resource \in {"mem", "net", "cpu"} /\ value \in Values
  BY StakeAmountAssumption DEF Values, Unlimited
<1>2. limits[a] \in Limits /\ managed[a] \in SUBSET Resources
  BY StakeTypes
<1>3. flags \in SUBSET Resources
  BY <1>1, <1>2 DEF Resources
<1>4. /\ limits' = [limits EXCEPT ![a] = l] /\ managed' = [managed EXCEPT ![a] = flags]
      /\ voters' = voters \cup {a}
  BY DEF SetAcct
<1>5. UNCHANGED <<tokenVars, delband, userres, staked, refunds, deferred, half>>
  BY DEF SetAcct
<1>6. userres[a].row => /\ "net" \in managed[a] \/ limits[a].net = userres[a].net
                        /\ "cpu" \in managed[a] \/ limits[a].cpu = userres[a].cpu
  BY DEF StakingInv, Sound, Follows, Tables
<1>7. /\ l \in Limits
      /\ resource # "net" => l.net = limits[a].net
      /\ resource # "cpu" => l.cpu = limits[a].cpu
  <2>1. CASE resource = "mem"
    BY <1>1, <1>2, <2>1 DEF Limits
  <2>2. CASE resource = "net"
    BY <1>1, <1>2, <2>2 DEF Limits
  <2>3. CASE resource = "cpu"
    BY <1>1, <1>2, <2>3 DEF Limits
  <2> QED
    BY <1>1, <2>1, <2>2, <2>3
<1>8. userres[a].row => /\ "net" \in flags \/ l.net = userres[a].net
                        /\ "cpu" \in flags \/ l.cpu = userres[a].cpu
  BY <1>6, <1>7
<1> HIDE DEF l, flags
<1> QED
  BY <1>3, <1>4, <1>5, <1>7, <1>8, LimitsStep

LEMMA ResetAcctStep ==
  ASSUME StakingInv, NEW a \in Accounts, NEW resource \in ManagedKinds, ResetAcct(a, resource)
  PROVE  StakingInv'
<1> DEFINE value == userres[a][resource] + IF resource = "mem" THEN MemGift ELSE 0
           l == [limits[a] EXCEPT ![resource] = value]
           flags == managed[a] \ {resource}
<1>1. resource \in {"mem", "net", "cpu"}
  BY StakeAmountAssumption
<1>2. /\ limits[a] \in Limits /\ managed[a] \in SUBSET Resources /\ userres[a] \in Rows
      /\ flags \in SUBSET Resources /\ flags \subseteq managed[a]
  BY StakeTypes
<1>3. /\ limits' = [limits EXCEPT ![a] = l] /\ managed' = [managed EXCEPT ![a] = flags]
      /\ voters' = voters
  BY DEF ResetAcct
<1>4. UNCHANGED <<tokenVars, delband, userres, staked, refunds, deferred, half>>
  BY DEF ResetAcct
<1>5. userres[a].row => /\ "net" \in managed[a] \/ limits[a].net = userres[a].net
                        /\ "cpu" \in managed[a] \/ limits[a].cpu = userres[a].cpu
  BY DEF StakingInv, Sound, Follows, Tables
<1>6. /\ l \in Limits
      /\ resource = "net" => l.net = userres[a].net /\ l.cpu = limits[a].cpu
      /\ resource = "cpu" => l.cpu = userres[a].cpu /\ l.net = limits[a].net
      /\ resource = "mem" => l.net = limits[a].net /\ l.cpu = limits[a].cpu
  <2>1. CASE resource = "mem"
    BY <1>2, <2>1, DelayFacts DEF Limits, Rows, Values
  <2>2. CASE resource = "net"
    BY <1>2, <2>2 DEF Limits, Rows, Values
  <2>3. CASE resource = "cpu"
    BY <1>2, <2>3 DEF Limits, Rows, Values
  <2> QED
    BY <1>1, <2>1, <2>2, <2>3
<1>7. userres[a].row => /\ "net" \in flags \/ l.net = userres[a].net
                        /\ "cpu" \in flags \/ l.cpu = userres[a].cpu
  BY <1>1, <1>5, <1>6
<1> HIDE DEF l, flags, value
<1> QED
  BY <1>2, <1>3, <1>4, <1>6, <1>7, LimitsStep

(***************************************************************************)
(* What holders do with the core token                                     *)
(***************************************************************************)
\* Nobody but the staking actions takes tokens out of inery.stake.
LEMMA TrafficStep ==
  ASSUME StakingInv, UNCHANGED stakeVars,
         balance' \in Balances, row' \in [Symbols -> SUBSET Accounts], activity' \subseteq Signers,
         balance'[CoreSymbol][StakeAccount] >= balance[CoreSymbol][StakeAccount],
         \A x \in Accounts : balance'[CoreSymbol][x] > 0 => x \in row'[CoreSymbol]
  PROVE  StakingInv'
<1> DEFINE t == [Tables EXCEPT !.balance = balance', !.row = row']
<1>1. /\ Tables \in TablesType /\ managed \in [Accounts -> SUBSET Resources] /\ Covered(Tables)
      /\ SoundParts(Tables, managed, {})
  BY SoundIs DEF StakingInv
<1>2. /\ t \in TablesType /\ t.balance = balance' /\ t.row = row' /\ t.delband = delband
      /\ t.userres = userres /\ t.voters = voters /\ t.staked = staked
      /\ t.limits = limits /\ t.refunds = refunds /\ t.deferred = deferred
  BY <1>1 DEF TablesType, Tables
<1> HIDE DEF t
<1>3. Tables' = t
  BY <1>2 DEF TablesType, Tables, stakeVars
<1>4. SameParts(Tables, t)
  BY <1>2 DEF SameParts, Tables
<1>5. SoundParts(t, managed, {}) /\ Held(t) = Held(Tables)
  BY <1>1, <1>4, SamePartsSound
<1>6. Covered(t)
  <2>1. Held(Tables) \in Nat
    BY <1>1, HeldType
  <2>2. /\ balance'[CoreSymbol][StakeAccount] \in Nat /\ balance[CoreSymbol][StakeAccount] \in Nat
        /\ balance[CoreSymbol][StakeAccount] >= Held(Tables)
    BY <1>1, SymbolAssumption, StakeAccountFacts DEF Balances, Covered, Tables, TablesType
  <2> QED
    BY <1>2, <1>5, <2>1, <2>2 DEF Covered
<1>7. \A x \in Accounts : InRow(t, x)
  BY <1>2 DEF InRow
<1>8. Sound(t, managed)
  BY <1>1, <1>2, <1>5, <1>6, <1>7, SoundIs
<1> HIDE DEF Tables, Sound
<1>9. Sound(Tables, managed)'
  BY <1>3, <1>8 DEF stakeVars
<1> QED
  BY <1>9 DEF StakingInv, stakeVars

LEMMA CoreTypes ==
  ASSUME StakingInv
  PROVE  /\ balance \in Balances /\ row \in [Symbols -> SUBSET Accounts]
         /\ activity \subseteq Signers
         /\ \A x \in Accounts : balance[CoreSymbol][x] > 0 => x \in row[CoreSymbol]
BY DEF StakingInv, Sound, InRow, Tables, TablesType

LEMMA TransferStep ==
  ASSUME StakingInv, NEW from \in Signers, NEW to \in Accounts, NEW q \in Quantities,
         Transfer(from, to, CoreSymbol, q), UNCHANGED stakeVars
  PROVE  StakingInv'
<1> DEFINE c == balance[CoreSymbol]
           d == [c EXCEPT ![from] = @ - q, ![to] = @ + q]
<1>0. CoreSymbol \in Symbols /\ from \in Accounts /\ from # StakeAccount /\ StakeAccount \in Accounts
  BY SymbolAssumption, AccountsAssumption, StakeAccountFacts
<1>1. /\ balance \in Balances /\ row \in [Symbols -> SUBSET Accounts] /\ c \in [Accounts -> Nat]
      /\ \A x \in Accounts : c[x] > 0 => x \in row[CoreSymbol]
  BY <1>0, CoreTypes DEF Balances
<1>2. from # to /\ q \in Nat /\ c[from] >= q /\ from \in row[CoreSymbol]
  BY AmountAssumption DEF Transfer, CanMove, CanSub
<1>3. balance' = [balance EXCEPT ![CoreSymbol] = d]
  <2>1. balance' = Moved(balance, CoreSymbol, from, to, q)
    BY DEF Transfer
  <2>2. Moved(balance, CoreSymbol, from, to, q) = [balance EXCEPT ![CoreSymbol] = d]
    BY <1>0, <1>1, <1>2 DEF Moved, Credited, Debited, Balances
  <2> QED
    BY <2>1, <2>2
<1>4. d \in [Accounts -> Nat] /\ d[StakeAccount] >= c[StakeAccount]
  BY <1>0, <1>1, <1>2
<1>5. \A x \in Accounts : x # to /\ d[x] > 0 => c[x] > 0
  BY <1>0, <1>1, <1>2
<1> HIDE DEF d
<1>6. balance' \in Balances /\ balance'[CoreSymbol] = d
  BY <1>0, <1>1, <1>3, <1>4 DEF Balances
<1>7. row' \in [Symbols -> SUBSET Accounts] /\ row'[CoreSymbol] = row[CoreSymbol] \cup {to}
  BY <1>0, <1>1 DEF Transfer, RowsWith
<1>8. activity' \subseteq Signers
  BY CoreTypes DEF Transfer
<1> HIDE DEF c
<1>9. balance'[CoreSymbol][StakeAccount] >= balance[CoreSymbol][StakeAccount]
  BY <1>4, <1>6 DEF c
<1>10. \A x \in Accounts : balance'[CoreSymbol][x] > 0 => x \in row'[CoreSymbol]
  BY <1>1, <1>5, <1>6, <1>7
<1> QED
  BY <1>6, <1>7, <1>8, <1>9, <1>10, TrafficStep

LEMMA CloseStep ==
  ASSUME StakingInv, NEW a \in Signers, Close(a, CoreSymbol), UNCHANGED stakeVars
  PROVE  StakingInv'
<1>0. CoreSymbol \in Symbols /\ StakeAccount \in Accounts
  BY SymbolAssumption, StakeAccountFacts
<1>1. balance' = balance /\ activity' = activity /\ balance[CoreSymbol][a] = 0
  BY DEF Close
<1>2. /\ balance \in Balances /\ row \in [Symbols -> SUBSET Accounts] /\ activity \subseteq Signers
      /\ \A x \in Accounts : balance[CoreSymbol][x] > 0 => x \in row[CoreSymbol]
  BY CoreTypes
<1>3. row' \in [Symbols -> SUBSET Accounts] /\ row'[CoreSymbol] = row[CoreSymbol] \ {a}
  BY <1>0, <1>2 DEF Close
<1>4. balance[CoreSymbol][StakeAccount] \in Nat
  BY <1>0, <1>2 DEF Balances
<1> QED
  BY <1>1, <1>2, <1>3, <1>4, TrafficStep

LEMMA ProducerStep ==
  ASSUME StakingInv, NEW a \in Signers, RegisterProducer(a) \/ UnregisterProducer(a),
         UNCHANGED stakeVars
  PROVE  StakingInv'
<1>1. balance' = balance /\ row' = row
  BY DEF RegisterProducer, UnregisterProducer
<1>2. /\ balance \in Balances /\ row \in [Symbols -> SUBSET Accounts] /\ activity \subseteq Signers
      /\ \A x \in Accounts : balance[CoreSymbol][x] > 0 => x \in row[CoreSymbol]
  BY CoreTypes
<1>3. activity' \subseteq Signers
  BY <1>2 DEF RegisterProducer, UnregisterProducer
<1>4. balance[CoreSymbol][StakeAccount] \in Nat
  BY <1>2, SymbolAssumption, StakeAccountFacts DEF Balances
<1> QED
  BY <1>1, <1>2, <1>3, <1>4, TrafficStep

(***************************************************************************)
(* The invariant                                                           *)
(***************************************************************************)
LEMMA StakingInvInit == StakeInit => StakingInv
<1> SUFFICES ASSUME StakeInit PROVE StakingInv
  OBVIOUS
<1>0. /\ InitialFunds \in [Accounts -> Nat] /\ CoreSymbol \in Symbols /\ StakeAccount \in Accounts
      /\ StakeAccount \notin Signers
  BY StakeAmountAssumption, SymbolAssumption, StakeAccountFacts
<1>1. NoRefund \in Refunds /\ Weight(NoRefund) = 0 /\ NotScheduled \in NotScheduled .. RefundDelay
  BY DelayFacts DEF NoRefund, Refunds, Weight, NotScheduled
<1>2. balance \in Balances /\ row \in [Symbols -> SUBSET Accounts]
  BY <1>0 DEF StakeInit, Balances
<1>3. delband \in [Accounts \X Accounts -> Amounts] /\ userres \in [Accounts -> Rows]
  BY DEF StakeInit, Amounts, Rows
<1>4. voters \in SUBSET Accounts /\ staked \in [Accounts -> Nat]
  BY DEF StakeInit
<1>5. /\ refunds \in [Accounts -> Refunds] /\ deferred \in [Accounts -> NotScheduled .. RefundDelay]
      /\ managed \in [Accounts -> SUBSET Resources]
  BY <1>1 DEF StakeInit
<1>6. limits \in [Accounts -> Limits]
  <2>1. ASSUME NEW a \in Accounts PROVE limits[a] \in Limits
    BY DEF StakeInit, Limits, Values, Unlimited
  <2> QED
    BY <2>1 DEF StakeInit
<1>7. Tables \in TablesType
  BY <1>2, <1>3, <1>4, <1>5, <1>6 DEF Tables, TablesType
<1>8. ASSUME NEW a \in Accounts
      PROVE  /\ OnTime(Tables, a) /\ Follows(Tables, managed, a) /\ Absent(Tables, managed, a)
             /\ InRow(Tables, a)
  <2>1. /\ userres[a] = [row |-> a \in NewAccounts, net |-> 0, cpu |-> 0, mem |-> 0]
        /\ refunds[a] = NoRefund /\ deferred[a] = NotScheduled /\ staked[a] = 0 /\ managed[a] = {}
        /\ balance[CoreSymbol][a] = InitialFunds[a]
        /\ row[CoreSymbol] = {x \in Accounts : InitialFunds[x] > 0}
    BY <1>0 DEF StakeInit
  <2>2. a \in NewAccounts => limits[a].net = 0 /\ limits[a].cpu = 0
    BY DEF StakeInit
  <2>3. OnTime(Tables, a) /\ Absent(Tables, managed, a)
    BY <1>1, <2>1 DEF OnTime, Absent, Tables
  <2>4. Follows(Tables, managed, a)
    <3>1. userres[a].row => a \in NewAccounts
      <4>1. userres[a].row = (a \in NewAccounts)
        BY DEF StakeInit
      <4> QED
        BY <4>1
    <3>2. userres[a].net = 0 /\ userres[a].cpu = 0
      BY <2>1
    <3> QED
      BY <2>2, <3>1, <3>2 DEF Follows, Tables
  <2> QED
    BY <2>1, <2>3, <2>4 DEF InRow, Tables
<1>9. ASSUME NEW a \in Accounts PROVE Agree(Tables, a)
  <2>1. \A x \in Accounts : /\ Out(Tables, a)[x] = 0 /\ NetIn(Tables, a)[x] = 0
                            /\ CpuIn(Tables, a)[x] = 0
    BY DEF Out, NetIn, CpuIn, Tables, StakeInit, Weight
  <2>2. staked[a] = 0 /\ userres[a].net = 0 /\ userres[a].cpu = 0
    BY DEF StakeInit
  <2> QED
    BY <2>1, <2>2, TotalZero DEF Agree, Tables
<1>10. Covered(Tables)
  <2>1. \A x \in Accounts : Waiting(Tables)[x] = 0 /\ staked[x] = 0
    BY <1>1 DEF Waiting, Tables, StakeInit
  <2>2. Total(Waiting(Tables), Accounts) = 0 /\ Total(staked, Accounts) = 0
    BY <2>1, TotalZero
  <2>3. balance[CoreSymbol][StakeAccount] \in Nat
    BY <1>0, <1>2 DEF Balances
  <2> QED
    BY <2>2, <2>3 DEF Covered, Held, Tables
<1>11. Sound(Tables, managed)
  BY <1>5, <1>7, <1>8, <1>9, <1>10 DEF Sound
<1> QED
  BY <1>11 DEF StakingInv, StakeInit

LEMMA StakingInvStep ==
  ASSUME StakingInv, [StakeNext]_allVars
  PROVE  StakingInv'
<1>0. Signers \subseteq Accounts /\ Receivers \subseteq Accounts
  BY AccountsAssumption, StakeAccountAssumption
<1>1. CASE TokenTraffic
  <2>1. UNCHANGED stakeVars
    BY <1>1 DEF TokenTraffic
  <2>2. CASE \E a \in Signers, b \in Accounts, q \in Quantities : Transfer(a, b, CoreSymbol, q)
    BY <2>1, <2>2, TransferStep
  <2>3. CASE \E a \in Signers : Close(a, CoreSymbol)
    BY <2>1, <2>3, CloseStep
  <2>4. CASE \E a \in Signers : RegisterProducer(a) \/ UnregisterProducer(a)
    BY <2>1, <2>4, ProducerStep
  <2> QED
    BY <1>1, <2>2, <2>3, <2>4 DEF TokenTraffic
<1>2. CASE StakeActions
  BY <1>2, DelegatebwStep, UndelegatebwStep DEF StakeActions
<1>3. CASE \E a \in Signers : Refund(a)
  BY <1>0, <1>3, RefundStep
<1>4. CASE ChainActions
  BY <1>4, RunDeferredStep, ExpireDeferredStep, TickStep DEF ChainActions
<1>5. CASE LimitActions
  BY <1>0, <1>5, SetALimitsStep, SetAcctStep, ResetAcctStep DEF LimitActions
<1>6. CASE UNCHANGED allVars
  <2>1. Tables' = Tables /\ managed' = managed /\ activity' = activity /\ half' = half
    BY <1>6 DEF allVars, stakeVars, tokenVars, Tables
  <2> HIDE DEF Sound, Tables
  <2> QED
    BY <2>1 DEF StakingInv
<1> QED
  BY <1>1, <1>2, <1>3, <1>4, <1>5, <1>6 DEF StakeNext

THEOREM StakingInvariant == StakeSpec => []StakingInv
<1> QED
  BY StakingInvInit, StakingInvStep, PTL DEF StakeSpec

(***************************************************************************)
(* The properties that the runs check                                      *)
(***************************************************************************)
\* What the invariant says of the tables, whatever specification keeps it.
LEMMA TypesFollow == StakingInv => StakeTypeOK
<1> SUFFICES ASSUME StakingInv PROVE StakeTypeOK
  OBVIOUS
<1>1. Sound(Tables, managed) /\ activity \subseteq Signers /\ half \in {0, 1}
  BY DEF StakingInv
<1>2. /\ balance \in Balances /\ row \in [Symbols -> SUBSET Accounts]
      /\ delband \in [Accounts \X Accounts -> Amounts] /\ userres \in [Accounts -> Rows]
      /\ voters \in SUBSET Accounts /\ staked \in [Accounts -> Nat]
      /\ refunds \in [Accounts -> Refunds] /\ deferred \in [Accounts -> NotScheduled .. RefundDelay]
      /\ limits \in [Accounts -> Limits]
  BY <1>1 DEF Sound, Tables, TablesType
<1>3. managed \in [Accounts -> SUBSET Resources] /\ activity \in SUBSET Accounts
  BY <1>1, AccountsAssumption DEF Sound
<1>4. \A a \in Accounts : ~userres[a].row => userres[a].net + userres[a].cpu + userres[a].mem = 0
  BY <1>1 DEF Sound, Absent, Tables
<1>5. \A a \in Accounts \ voters : staked[a] = 0 /\ managed[a] = {}
  BY <1>1 DEF Sound, Absent, Tables
<1> QED
  BY <1>1, <1>2, <1>3, <1>4, <1>5 DEF StakeTypeOK, Balances, Amounts, Refunds, Limits

\* Every table holds values of its type; no stake, total or refund is negative.
THEOREM StakingTypes == StakeSpec => []StakeTypeOK
BY TypesFollow, StakingInvariant, PTL

LEMMA AgreementFollows == StakingInv => StakeTablesAgree /\ StakeBacked /\ LimitsFollowStake
<1>1. StakingInv => StakeTablesAgree
  <2> SUFFICES ASSUME StakingInv, NEW a \in Accounts
               PROVE  /\ staked[a] = DelegatedBy(a) /\ userres[a].net = NetFor(a)
                      /\ userres[a].cpu = CpuFor(a)
    BY DEF StakeTablesAgree
  <2>1. Agree(Tables, a)
    BY DEF StakingInv, Sound
  <2> QED
    BY <2>1 DEF Agree, Out, NetIn, CpuIn, Tables, DelegatedBy, NetFor, CpuFor
<1>2. StakingInv => StakeBacked
  BY DEF StakingInv, Sound, Covered, Held, Waiting, Tables, StakeBacked, InStake
<1>3. StakingInv => LimitsFollowStake
  BY DEF StakingInv, Sound, Follows, Tables, LimitsFollowStake
<1> QED
  BY <1>1, <1>2, <1>3

\* The delband, voters and userres tables book the same stake.
THEOREM StakingAgrees == StakeSpec => []StakeTablesAgree
BY AgreementFollows, StakingInvariant, PTL

\* inery.stake holds at least what is staked and what is being refunded.
THEOREM StakingBacked == StakeSpec => []StakeBacked
BY AgreementFollows, StakingInvariant, PTL

LEMMA NotEarlyFollows == StakingInv => DeferredNotEarly
BY DEF StakingInv, Sound, OnTime, Tables, DeferredNotEarly

\* A deferred refund never runs before its row is due.
THEOREM StakingNotEarly == StakeSpec => []DeferredNotEarly
BY NotEarlyFollows, StakingInvariant, PTL

\* The chain's limits follow the stake, except where the operator manages them.
THEOREM StakingLimits == StakeSpec => []LimitsFollowStake
BY AgreementFollows, StakingInvariant, PTL

LEMMA PayableFollows ==
  ASSUME Creator \notin Signers
  PROVE  StakingInv => RefundPayable
<1> SUFFICES ASSUME StakingInv, NEW a \in Accounts, Due(refunds[a]) PROVE CanRefund(a)
  BY DEF RefundPayable
<1> DEFINE q == Weight(refunds[a])
           c == balance[CoreSymbol]
<1>0. IsFiniteSet(Accounts) /\ StakeAccount \in Accounts /\ StakeAccount \notin Signers
  BY AccountsAssumption, StakeAccountFacts
<1>1. /\ Tables \in TablesType /\ Covered(Tables) /\ InRow(Tables, StakeAccount)
      /\ Absent(Tables, managed, a) /\ activity \subseteq Signers
  BY <1>0 DEF StakingInv, Sound
<1>2. refunds[a] \in Refunds /\ c \in [Accounts -> Nat]
  BY <1>1, CoreBalances DEF Tables, TablesType
<1>3. q > 0 /\ q \in Nat
  BY <1>2 DEF Due, Weight, Refunds
<1>4. a \in Signers
  BY <1>1, <1>3 DEF Absent, Tables
<1>5. c[StakeAccount] >= q
  <2>1. \A x \in Accounts : Waiting(Tables)[x] \in Nat /\ staked[x] \in Nat
    BY <1>0, <1>1, SummandTypes DEF Tables
  <2>2. Waiting(Tables)[a] = q
    BY DEF Waiting, Tables
  <2>3. q <= Total(Waiting(Tables), Accounts)
    BY <1>0, <2>1, <2>2, TotalBound
  <2>4. Total(Waiting(Tables), Accounts) \in Nat /\ Total(staked, Accounts) \in Nat
    BY <1>0, <2>1, TotalType
  <2>5. c[StakeAccount] >= Total(staked, Accounts) + Total(Waiting(Tables), Accounts)
    BY <1>1 DEF Covered, Held, Tables
  <2> QED
    BY <1>0, <1>2, <1>3, <2>3, <2>4, <2>5
<1>6. StakeAccount \in row[CoreSymbol]
  BY <1>0, <1>1, <1>2, <1>3, <1>5 DEF InRow, Tables
<1> HIDE DEF q
<1>7. CanPay(Tables, StakeAccount, a, q)
  BY <1>0, <1>1, <1>3, <1>4, <1>5, <1>6 DEF CanPay, CanMove, CanSub, LockRespected, Tables
<1> QED
  BY <1>7 DEF CanRefund, q

\* A refund that is due can be paid, unless createacc stakes: no transfer to it
\* is allowed (token.cpp:117).
THEOREM StakingPayable ==
  ASSUME Creator \notin Signers
  PROVE  StakeSpec => []RefundPayable
BY PayableFollows, StakingInvariant, PTL

(***************************************************************************)
(* Staking implements the vault                                            *)
(***************************************************************************)
\* What is free on given tables: inery.stake's surplus, the tokens of others.
Free(t) == [t.balance[CoreSymbol] EXCEPT ![StakeAccount] = @ - Held(t)]

\* changebw for d tokens more (or less): payer spends what is owed, the stake
\* of owner takes the rest out of its refund, or puts it there.
Moves(t, u, payer, owner, d, owed) ==
    /\ Free(u) = [Free(t) EXCEPT ![payer] = @ - owed]
    /\ u.staked = [t.staked EXCEPT ![owner] = @ + d]
    /\ Waiting(u) = [Waiting(t) EXCEPT ![owner] = @ - d + owed]
    /\ u.balance[CoreSymbol][StakeAccount] >= t.balance[CoreSymbol][StakeAccount]

LEMMA FreeType ==
  ASSUME NEW t \in TablesType, Covered(t)
  PROVE  Free(t) \in [Accounts -> Nat]
<1>1. /\ t.balance[CoreSymbol] \in [Accounts -> Nat] /\ Held(t) \in Nat /\ StakeAccount \in Accounts
  BY CoreBalances, HeldType, StakeAccountFacts
<1> QED
  BY <1>1 DEF Free, Covered

LEMMA ChangedMoves ==
  ASSUME half \in {0, 1}, NEW t, Sound(t, managed),
         NEW from, NEW to, NEW net, NEW cpu, NEW transfer,
         Changes(t, from, to, net, cpu, transfer)
  PROVE  LET owed == OwedBy(t, from, to, net, cpu, transfer)
         IN /\ Moves(t, Changed(t, from, to, net, cpu, transfer), from,
                     Owner(from, to, transfer), net + cpu, owed)
            /\ owed \in Nat /\ owed <= Free(t)[from]
<1> DEFINE owner == Owner(from, to, transfer)
           u == Rebooked(t, from, to, net, cpu, transfer)
           owed == OwedBy(t, from, to, net, cpu, transfer)
           w == Changed(t, from, to, net, cpu, transfer)
           s == RefundOf(t, from, to, net, cpu, transfer)
           c == t.balance[CoreSymbol]
           d == net + cpu
<1>1. t \in TablesType /\ Covered(t) /\ managed \in [Accounts -> SUBSET Resources]
  BY SoundIs
<1>2. /\ from \in Accounts /\ from # StakeAccount /\ StakeAccount \in Accounts
      /\ net \in Int /\ cpu \in Int /\ d \in Int
  BY AccountsAssumption, StakeAccountFacts DEF Changes
<1>3. /\ owner \in Accounts /\ owed \in Nat /\ Weight(s) \in Nat
      /\ Weight(s) = Weight(t.refunds[owner]) - d + owed
  BY <1>1, OwedFacts
<1>4. /\ u \in TablesType /\ u.balance = t.balance /\ Held(u) = Held(t) + owed
  <2>1. to \in Accounts
    BY DEF Changes
  <2>2. SoundBut(t, managed, {to})
    BY <2>1, SoundIs
  <2> QED
    BY <2>2, RebookedSound
<1>5. /\ u.refunds = [t.refunds EXCEPT ![owner] = s]
      /\ u.staked = [t.staked EXCEPT ![owner] = @ + net + cpu]
  <2>1. Rebooking(t, u, from, to, net, cpu, transfer)
    BY <1>1, RebookedFields
  <2> HIDE DEF u
  <2> QED
    BY <2>1 DEF Rebooking
<1>6. w = IF owed > 0 THEN Paid(u, from, StakeAccount, owed) ELSE u
  BY DEF Changed
<1>7. owed > 0 => CanPay(t, from, StakeAccount, owed)
  BY DEF Changes, CanChange
<1>8. c \in [Accounts -> Nat] /\ Held(t) \in Nat
  BY <1>1, CoreBalances, HeldType
<1> HIDE DEF owner, u, owed, w, s, c, d
<1>9. owed <= c[from]
  BY <1>2, <1>3, <1>7, <1>8 DEF CanPay, CanMove, CanSub, c
<1>10. /\ w.staked = u.staked /\ Waiting(w) = Waiting(u) /\ Held(w) = Held(u)
       /\ w.balance[CoreSymbol] = [c EXCEPT ![from] = @ - owed, ![StakeAccount] = @ + owed]
  <2>1. CASE owed > 0
    <3>1. u.balance[CoreSymbol][from] >= owed
      BY <1>2, <1>3, <1>4, <1>8, <1>9 DEF c
    <3>2. /\ SameParts(u, w)
          /\ w.balance[CoreSymbol] = [u.balance[CoreSymbol] EXCEPT ![from] = @ - owed,
                                                                   ![StakeAccount] = @ + owed]
      BY <1>2, <1>3, <1>4, <1>6, <2>1, <3>1, PaidFacts DEF SameParts
    <3> QED
      BY <1>4, <3>2 DEF SameParts, Waiting, Held, c
  <2>2. CASE ~(owed > 0)
    <3>1. w = u /\ owed = 0
      BY <1>3, <1>6, <2>2
    <3>2. [c EXCEPT ![from] = @ - 0, ![StakeAccount] = @ + 0] = c
      BY <1>2, <1>8
    <3> QED
      BY <1>4, <3>1, <3>2 DEF c
  <2> QED
    BY <2>1, <2>2
<1>11. Free(w) = [Free(t) EXCEPT ![from] = @ - owed]
  <2> DEFINE b == w.balance[CoreSymbol]
  <2>1. /\ Free(w) = [b EXCEPT ![StakeAccount] = @ - (Held(t) + owed)]
        /\ Free(t) = [c EXCEPT ![StakeAccount] = @ - Held(t)]
    BY <1>4, <1>10 DEF Free, c
  <2>2. b = [c EXCEPT ![from] = @ - owed, ![StakeAccount] = @ + owed]
    BY <1>10
  <2> HIDE DEF b
  <2>3. \A x \in Accounts :
            /\ Free(w)[x] = IF x = from THEN c[x] - owed
                            ELSE IF x = StakeAccount THEN c[x] + owed - (Held(t) + owed) ELSE c[x]
            /\ Free(t)[x] = IF x = StakeAccount THEN c[x] - Held(t) ELSE c[x]
    BY <1>2, <1>3, <1>8, <2>1, <2>2
  <2>4. \A x \in Accounts : Free(w)[x] = IF x = from THEN Free(t)[x] - owed ELSE Free(t)[x]
    BY <1>2, <1>3, <1>8, <2>3
  <2>5. /\ Free(w) = [x \in Accounts |-> Free(w)[x]]
        /\ Free(t) = [x \in Accounts |-> Free(t)[x]]
    BY <1>8, <2>1, <2>2
  <2> HIDE DEF Free
  <2> QED
    BY <1>2, <2>4, <2>5
<1>12. w.staked = [t.staked EXCEPT ![owner] = @ + d]
  <2>1. t.staked \in [Accounts -> Nat]
    BY <1>1 DEF TablesType
  <2>2. t.staked[owner] + net + cpu = t.staked[owner] + d
    BY <1>2, <1>3, <2>1 DEF d
  <2> QED
    BY <1>5, <1>10, <2>2
<1>13. Waiting(w) = [Waiting(t) EXCEPT ![owner] = @ - d + owed]
  <2>1. \A x \in Accounts : Waiting(u)[x] = IF x = owner THEN Weight(s) ELSE Waiting(t)[x]
    BY <1>1, <1>3, <1>5 DEF Waiting, TablesType
  <2>2. Waiting(t)[owner] = Weight(t.refunds[owner])
    BY <1>3 DEF Waiting
  <2>3. Waiting(u) = [x \in Accounts |-> Waiting(u)[x]] /\ Waiting(t) = [x \in Accounts |-> Waiting(t)[x]]
    BY DEF Waiting
  <2> HIDE DEF Waiting
  <2> QED
    BY <1>3, <1>10, <2>1, <2>2, <2>3
<1>14. w.balance[CoreSymbol][StakeAccount] >= c[StakeAccount]
  BY <1>2, <1>3, <1>8, <1>10
<1>15. Free(t)[from] = c[from]
  BY <1>2, <1>8 DEF Free, c
<1> QED
  BY <1>3, <1>9, <1>11, <1>12, <1>13, <1>14, <1>15 DEF Moves, owner, w, owed, c, d

\* How a change is split between the payer's tokens and the owner's refund.
LEMMA ChangeSplits ==
  ASSUME NEW t \in TablesType, NEW from, NEW to, NEW net, NEW cpu, NEW transfer,
         Changes(t, from, to, net, cpu, transfer)
  PROVE  LET owner == Owner(from, to, transfer)
             owed == OwedBy(t, from, to, net, cpu, transfer)
         IN /\ net + cpu > 0 => owed <= net + cpu
            /\ net + cpu < 0 => owed = 0 /\ owner = from
            /\ owed < net + cpu => owner = from
<1> DEFINE owner == Owner(from, to, transfer)
           owed == OwedBy(t, from, to, net, cpu, transfer)
           r == t.refunds[owner]
<1>1. /\ from \in Accounts /\ to \in Accounts /\ net \in Int /\ cpu \in Int
      /\ net + cpu > 0 \/ (net + cpu < 0 /\ ~transfer)
      /\ net * cpu >= 0
  BY AccountsAssumption DEF Changes, CanChange
<1>2. owner \in Accounts /\ (~transfer => owner = from)
  BY <1>1 DEF Owner
<1>3. r.net \in Nat /\ r.cpu \in Nat
  BY <1>2 DEF TablesType, Refunds
<1>4. (net >= 0 /\ cpu >= 0) \/ (net <= 0 /\ cpu <= 0)
  <2>1. net > 0 /\ cpu < 0 => net * cpu < 0
    BY <1>1
  <2>2. net < 0 /\ cpu > 0 => net * cpu < 0
    BY <1>1
  <2> QED
    BY <1>1, <2>1, <2>2
<1>5. CASE Settles(from, to, net, cpu, transfer)
  <2>1. owed = Owed(r, net, cpu) /\ owner = from
    BY <1>1, <1>2, <1>5 DEF OwedBy, Settles
  <2> HIDE DEF owed, r, owner
  <2> QED
    BY <1>1, <1>3, <1>4, <2>1 DEF Owed, Larger, owed, owner
<1>6. CASE ~Settles(from, to, net, cpu, transfer)
  <2>1. owed = net + cpu /\ net + cpu > 0
    BY <1>1, <1>6 DEF OwedBy, Settles
  <2> QED
    BY <1>1, <2>1
<1> QED
  BY <1>5, <1>6

\* The vault's variables, in terms of the tables.
LEMMA VaultVars ==
  /\ [balance[CoreSymbol] EXCEPT ![StakeAccount] = @ - InStake] = Free(Tables)
  /\ [a \in Accounts |-> Weight(refunds[a])] = Waiting(Tables)
  /\ [balance[CoreSymbol] EXCEPT ![StakeAccount] = @ - InStake]' = Free(Tables)'
  /\ [a \in Accounts |-> Weight(refunds[a])]' = Waiting(Tables)'
BY DEF Free, Waiting, Tables, InStake, Held

\* A change of stake is a lock of free tokens, of tokens that were leaving, or
\* an unlock; inery.stake loses nothing by it.
LEMMA ChangeIsVaultStep ==
  ASSUME half \in {0, 1}, Sound(Tables, managed),
         NEW from, NEW to, NEW net, NEW cpu, NEW transfer,
         Changes(Tables, from, to, net, cpu, transfer),
         Sound(Changed(Tables, from, to, net, cpu, transfer), managed),
         Become(Changed(Tables, from, to, net, cpu, transfer))
  PROVE  /\ Safe!Next
         /\ balance'[CoreSymbol][StakeAccount] >= balance[CoreSymbol][StakeAccount]
<1> DEFINE owner == Owner(from, to, transfer)
           owed == OwedBy(Tables, from, to, net, cpu, transfer)
           w == Changed(Tables, from, to, net, cpu, transfer)
           d == net + cpu
           free == Free(Tables)
           leaving == Waiting(Tables)
<1>1. Tables \in TablesType /\ Covered(Tables) /\ w \in TablesType /\ Covered(w)
  BY SoundIs
<1>2. Tables' = w
  BY <1>1 DEF TablesType, Tables, Become
<1>3. Moves(Tables, w, from, owner, d, owed) /\ owed \in Nat /\ owed <= free[from]
  BY ChangedMoves
<1>4. /\ from \in Accounts /\ from # StakeAccount /\ owner \in Accounts
      /\ net \in Int /\ cpu \in Int /\ d \in Int
      /\ d > 0 \/ (d < 0 /\ ~transfer)
  BY <1>1, OwedFacts, AccountsAssumption, StakeAccountFacts DEF Changes
<1>5. /\ d > 0 => owed <= d
      /\ d < 0 => owed = 0 /\ owner = from
      /\ owed < d => owner = from
  BY <1>1, <1>4, ChangeSplits
<1>6. /\ leaving \in [Accounts -> Nat] /\ free \in [Accounts -> Nat] /\ staked \in [Accounts -> Nat]
  BY <1>1, <1>4, FreeType, SummandTypes DEF Waiting, Tables, TablesType
<1>7. Waiting(w)[owner] \in Nat /\ w.staked[owner] \in Nat
  BY <1>1, <1>4, SummandTypes DEF TablesType
<1> HIDE DEF w, owed, d, owner, free, leaving, Tables
<1>8. /\ Free(Tables)' = [free EXCEPT ![from] = @ - owed]
      /\ staked' = [staked EXCEPT ![owner] = @ + d]
      /\ Waiting(Tables)' = [leaving EXCEPT ![owner] = @ - d + owed]
  <2>1. Free(Tables)' = Free(w) /\ Waiting(Tables)' = Waiting(w)
    BY <1>2
  <2>2. staked' = w.staked /\ staked = Tables.staked
    BY <1>2 DEF Tables
  <2> QED
    BY <1>3, <2>1, <2>2 DEF Moves, free, leaving
<1>9. leaving[owner] - d + owed \in Nat /\ staked[owner] + d \in Nat
  BY <1>4, <1>6, <1>7, <1>8, <1>2 DEF Tables
<1>10. balance'[CoreSymbol][StakeAccount] >= balance[CoreSymbol][StakeAccount]
  BY <1>2, <1>3 DEF Moves, Tables
<1>11. Safe!Next
  <2>1. CASE d > 0 /\ owed = d
    <3>1. d \in 1 .. free[from]
      BY <1>3, <1>4, <2>1
    <3>2. Waiting(Tables)' = leaving
      BY <1>4, <1>6, <1>8, <2>1
    <3>3. Safe!Lock(from, owner)
      BY <1>8, <2>1, <3>1, <3>2, VaultVars DEF Safe!Lock, free, leaving
    <3> QED
      BY <1>4, <3>3 DEF Safe!Next
  <2>2. CASE d > 0 /\ owed # d
    <3> DEFINE x == d - owed
    <3>1. x \in 1 .. leaving[from] /\ owed \in 0 .. free[from] /\ owner = from
      BY <1>3, <1>4, <1>5, <1>6, <1>9, <2>2
    <3>2. /\ staked' = [staked EXCEPT ![from] = @ + x + owed]
          /\ Waiting(Tables)' = [leaving EXCEPT ![from] = @ - x]
      <4>1. /\ staked[from] + x + owed = staked[owner] + d
            /\ leaving[from] - x = leaving[owner] - d + owed
        BY <1>3, <1>4, <1>6, <3>1
      <4> HIDE DEF x
      <4> QED
        BY <1>8, <3>1, <4>1
    <3> HIDE DEF x
    <3>3. \E p \in 1 .. leaving[from], y \in 0 .. free[from] :
              /\ Free(Tables)' = [free EXCEPT ![from] = @ - y]
              /\ staked' = [staked EXCEPT ![from] = @ + p + y]
              /\ Waiting(Tables)' = [leaving EXCEPT ![from] = @ - p]
      <4>1. Free(Tables)' = [free EXCEPT ![from] = @ - owed]
        BY <1>8
      <4> QED
        BY <3>1, <3>2, <4>1
    <3>4. Safe!Relock(from)
      BY <3>3, VaultVars DEF Safe!Relock, free, leaving
    <3> QED
      BY <1>4, <3>4 DEF Safe!Next
  <2>3. CASE d < 0
    <3> DEFINE q == -d
    <3>1. q \in 1 .. staked[from] /\ owed = 0 /\ owner = from
      BY <1>4, <1>5, <1>6, <1>9, <2>3
    <3>2. /\ Free(Tables)' = free
          /\ staked' = [staked EXCEPT ![from] = @ - q]
          /\ Waiting(Tables)' = [leaving EXCEPT ![from] = @ + q]
      <4>1. /\ staked[from] - q = staked[owner] + d
            /\ leaving[from] + q = leaving[owner] - d + owed
            /\ free[from] - owed = free[from]
        BY <1>4, <1>6, <3>1
      <4> HIDE DEF q
      <4> QED
        BY <1>4, <1>6, <1>8, <3>1, <4>1
    <3> HIDE DEF q
    <3>3. Safe!Unlock(from)
      BY <3>1, <3>2, VaultVars DEF Safe!Unlock, free, leaving
    <3> QED
      BY <1>4, <3>3 DEF Safe!Next
  <2> QED
    BY <1>3, <1>4, <2>1, <2>2, <2>3
<1> QED
  BY <1>10, <1>11

\* What holds between two states of staking: a step of the vault, or none of
\* its variables moves; and how inery.stake may lose tokens.
VaultStep ==
    /\ [Safe!Next]_(Safe!vars)
    /\ \/ balance'[CoreSymbol][StakeAccount] >= balance[CoreSymbol][StakeAccount]
       \/ \E a \in Accounts :
            /\ Due(refunds[a]) /\ Weight(refunds'[a]) = 0
            /\ balance'[CoreSymbol] = [balance[CoreSymbol] EXCEPT
                   ![StakeAccount] = @ - Weight(refunds[a]),
                   ![a] = @ + Weight(refunds[a])]

\* A refund releases what was leaving.
LEMMA ReleaseIsVaultStep ==
  ASSUME StakingInv, NEW o \in Accounts, CanRefund(o),
         NEW w \in TablesType, Become(w), Released(Tables, w, o)
  PROVE  VaultStep
<1> DEFINE q == Waiting(Tables)[o]
           c == balance[CoreSymbol]
<1>1. Tables \in TablesType /\ StakeAccount \in Accounts
  BY SoundIs, StakeAccountFacts DEF StakingInv
<1>2. Tables' = w
  BY DEF TablesType, Tables, Become
<1>3. c \in [Accounts -> Nat] /\ Held(Tables) \in Nat /\ Tables.balance = balance
  BY <1>1, CoreBalances, HeldType DEF Tables
<1>4. /\ q \in Nat /\ q > 0 /\ o # StakeAccount
      /\ w.balance[CoreSymbol] = [c EXCEPT ![StakeAccount] = @ - q, ![o] = @ + q]
      /\ w.staked = Tables.staked /\ Waiting(w) = [Waiting(Tables) EXCEPT ![o] = 0]
      /\ Held(w) = Held(Tables) - q
  BY <1>3 DEF Released
<1>5. q = Weight(refunds[o]) /\ Waiting(w)[o] = 0 /\ Waiting(w)[o] = Weight(refunds'[o])
  <2>1. Waiting(Tables)' = Waiting(w)
    BY <1>2
  <2>2. Waiting(Tables) \in [Accounts -> Nat]
    BY <1>1, SummandTypes DEF Waiting
  <2> QED
    BY <1>4, <2>1, <2>2 DEF Waiting, Tables
<1> HIDE DEF q, c, Tables
<1>6. Free(w) = [Free(Tables) EXCEPT ![o] = @ + q]
  <2> DEFINE b == w.balance[CoreSymbol]
  <2>1. /\ Free(w) = [b EXCEPT ![StakeAccount] = @ - (Held(Tables) - q)]
        /\ Free(Tables) = [c EXCEPT ![StakeAccount] = @ - Held(Tables)]
    BY <1>3, <1>4 DEF Free, c
  <2>2. b = [c EXCEPT ![StakeAccount] = @ - q, ![o] = @ + q]
    BY <1>4
  <2> HIDE DEF b
  <2>3. \A x \in Accounts :
            /\ Free(w)[x] = IF x = o THEN c[x] + q
                            ELSE IF x = StakeAccount THEN c[x] - q - (Held(Tables) - q) ELSE c[x]
            /\ Free(Tables)[x] = IF x = StakeAccount THEN c[x] - Held(Tables) ELSE c[x]
    BY <1>1, <1>3, <1>4, <2>1, <2>2
  <2>4. \A x \in Accounts : Free(w)[x] = IF x = o THEN Free(Tables)[x] + q ELSE Free(Tables)[x]
    BY <1>3, <1>4, <2>3
  <2>5. /\ Free(w) = [x \in Accounts |-> Free(w)[x]]
        /\ Free(Tables) = [x \in Accounts |-> Free(Tables)[x]]
    BY <1>3, <2>1, <2>2
  <2> HIDE DEF Free
  <2> QED
    BY <2>4, <2>5
<1>7. /\ Free(Tables)' = [Free(Tables) EXCEPT ![o] = @ + Waiting(Tables)[o]]
      /\ Waiting(Tables)' = [Waiting(Tables) EXCEPT ![o] = 0]
      /\ Waiting(Tables)[o] > 0
  <2>1. Free(Tables)' = Free(w) /\ Waiting(Tables)' = Waiting(w)
    BY <1>2
  <2> QED
    BY <1>4, <1>6, <2>1 DEF q
<1>8. staked' = staked
  BY <1>2, <1>4 DEF Tables
<1>9. Safe!Release(o)
  BY <1>7, <1>8, VaultVars DEF Safe!Release
<1>10. balance'[CoreSymbol] = [balance[CoreSymbol] EXCEPT ![StakeAccount] = @ - Weight(refunds[o]),
                                                          ![o] = @ + Weight(refunds[o])]
  BY <1>2, <1>4, <1>5 DEF Tables, c
<1>11. Due(refunds[o]) /\ Weight(refunds'[o]) = 0
  BY <1>5 DEF CanRefund
<1> QED
  BY <1>9, <1>10, <1>11 DEF VaultStep, Safe!Next

\* Steps that change neither balances, nor stake, nor what waits.
LEMMA StillIsVaultStep ==
  ASSUME StakingInv, balance' = balance, staked' = staked, Waiting(Tables)' = Waiting(Tables)
  PROVE  VaultStep
<1>1. Held(Tables)' = Held(Tables)
  BY DEF Held, Tables
<1>2. Free(Tables)' = Free(Tables)
  BY <1>1 DEF Free, Tables
<1>3. balance[CoreSymbol][StakeAccount] \in Nat
  BY CoreTypes, SymbolAssumption, StakeAccountFacts DEF Balances
<1> QED
  BY <1>2, <1>3, VaultVars DEF VaultStep, Safe!vars

\* A transfer of free tokens; whoever pays into inery.stake adds to its surplus.
LEMMA TransferIsVaultStep ==
  ASSUME StakingInv, NEW from \in Signers, NEW to \in Accounts, NEW q \in Quantities,
         Transfer(from, to, CoreSymbol, q), UNCHANGED stakeVars
  PROVE  VaultStep
<1> DEFINE c == balance[CoreSymbol]
           d == [c EXCEPT ![from] = @ - q, ![to] = @ + q]
           H == Held(Tables)
<1>0. CoreSymbol \in Symbols /\ from \in Accounts /\ from # StakeAccount /\ StakeAccount \in Accounts
  BY SymbolAssumption, AccountsAssumption, StakeAccountFacts
<1>1. balance \in Balances /\ c \in [Accounts -> Nat]
  BY <1>0, CoreTypes DEF Balances
<1>2. from # to /\ q \in Nat /\ q > 0 /\ c[from] >= q
  BY AmountAssumption DEF Transfer, CanMove, CanSub
<1>3. balance' = [balance EXCEPT ![CoreSymbol] = d]
  <2>1. balance' = Moved(balance, CoreSymbol, from, to, q)
    BY DEF Transfer
  <2>2. Moved(balance, CoreSymbol, from, to, q) = [balance EXCEPT ![CoreSymbol] = d]
    BY <1>0, <1>1, <1>2 DEF Moved, Credited, Debited, Balances
  <2> QED
    BY <2>1, <2>2
<1>4. balance'[CoreSymbol] = d
  BY <1>0, <1>1, <1>3 DEF Balances
<1>5. H' = H /\ H \in Nat /\ Waiting(Tables)' = Waiting(Tables) /\ staked' = staked
  <2>1. Tables \in TablesType
    BY SoundIs DEF StakingInv
  <2> QED
    BY <2>1, HeldType DEF Held, Waiting, Tables, stakeVars
<1>6. Free(Tables) = [c EXCEPT ![StakeAccount] = @ - H]
  BY DEF Free, Tables
<1>7. Free(Tables)' = [d EXCEPT ![StakeAccount] = @ - H]
  <2>1. Free(Tables)' = [balance'[CoreSymbol] EXCEPT ![StakeAccount] = @ - H']
    BY DEF Free, Tables
  <2> QED
    BY <1>4, <1>5, <2>1
<1> HIDE DEF c, H
<1>8. \A x \in Accounts :
          /\ Free(Tables)'[x] = IF x = from THEN Free(Tables)[x] - q
                                ELSE IF x = to THEN Free(Tables)[x] + q ELSE Free(Tables)[x]
          /\ Free(Tables)[from] = c[from]
  BY <1>0, <1>1, <1>2, <1>5, <1>6, <1>7
<1>9. Free(Tables)' = [Free(Tables) EXCEPT ![from] = @ - q, ![to] = @ + q]
  <2>1. /\ Free(Tables)' = [x \in Accounts |-> Free(Tables)'[x]]
        /\ Free(Tables) = [x \in Accounts |-> Free(Tables)[x]]
    BY <1>1, <1>6, <1>7
  <2> HIDE DEF Free, Tables
  <2> QED
    BY <1>0, <1>2, <1>8, <2>1
<1>10. q \in 1 .. Free(Tables)[from]
  BY <1>0, <1>1, <1>2, <1>8
<1>11. Safe!Pay(from, to)
  BY <1>2, <1>5, <1>9, <1>10, VaultVars DEF Safe!Pay
<1>12. balance'[CoreSymbol][StakeAccount] >= balance[CoreSymbol][StakeAccount]
  BY <1>0, <1>1, <1>2, <1>4 DEF c
<1> QED
  BY <1>0, <1>11, <1>12 DEF VaultStep, Safe!Next

LEMMA DelegatebwChanges ==
  ASSUME NEW from \in Signers, NEW to \in Receivers,
         NEW net \in StakeAmounts, NEW cpu \in StakeAmounts, NEW transfer \in BOOLEAN,
         Delegatebw(from, to, net, cpu, transfer)
  PROVE  Changes(Tables, from, to, net, cpu, transfer)
<1>1. to \in Accounts /\ net \in Int /\ cpu \in Int
  BY StakeAccountAssumption, StakeAmountAssumption
<1> QED
  BY <1>1 DEF Delegatebw, CanDelegate, Changes

LEMMA UndelegatebwChanges ==
  ASSUME NEW from \in Signers, NEW to \in Receivers,
         NEW net \in StakeAmounts, NEW cpu \in StakeAmounts, Undelegatebw(from, to, net, cpu)
  PROVE  Changes(Tables, from, to, -net, -cpu, FALSE)
<1>1. to \in Accounts /\ net \in Nat /\ cpu \in Nat /\ net + cpu > 0
  BY StakeAccountAssumption, StakeAmountAssumption DEF Undelegatebw, CanUndelegate
<1>2. -net \in Int /\ -cpu \in Int /\ -net + -cpu < 0
  BY <1>1
<1> QED
  BY <1>1, <1>2 DEF Undelegatebw, CanUndelegate, Changes

LEMMA NextIsVaultStep ==
  ASSUME StakingInv, [StakeNext]_allVars
  PROVE  VaultStep
<1>0. /\ Signers \subseteq Accounts /\ Receivers \subseteq Accounts
      /\ Sound(Tables, managed) /\ half \in {0, 1} /\ Tables \in TablesType
  BY AccountsAssumption, StakeAccountAssumption, SoundIs DEF StakingInv
<1>1. CASE TokenTraffic
  <2>1. UNCHANGED stakeVars
    BY <1>1 DEF TokenTraffic
  <2>2. CASE \E a \in Signers, b \in Accounts, q \in Quantities : Transfer(a, b, CoreSymbol, q)
    BY <2>1, <2>2, TransferIsVaultStep
  <2>3. CASE \E a \in Signers : Close(a, CoreSymbol) \/ RegisterProducer(a) \/ UnregisterProducer(a)
    <3>1. balance' = balance /\ staked' = staked /\ Waiting(Tables)' = Waiting(Tables)
      BY <2>1, <2>3 DEF Close, RegisterProducer, UnregisterProducer, stakeVars, Waiting, Tables
    <3> QED
      BY <3>1, StillIsVaultStep
  <2> QED
    BY <1>1, <2>2, <2>3 DEF TokenTraffic
<1>2. ASSUME NEW from \in Signers, NEW to \in Receivers, NEW net \in StakeAmounts,
             NEW cpu \in StakeAmounts, NEW transfer \in BOOLEAN,
             Delegatebw(from, to, net, cpu, transfer)
      PROVE  VaultStep
  <2>1. Changes(Tables, from, to, net, cpu, transfer)
    BY <1>2, DelegatebwChanges
  <2>2. Sound(Changed(Tables, from, to, net, cpu, transfer), managed)
    BY <1>0, <2>1, ChangedSound, SoundIs DEF Changes
  <2>3. Become(Changed(Tables, from, to, net, cpu, transfer))
    BY <1>2 DEF Delegatebw
  <2> QED
    BY <1>0, <2>1, <2>2, <2>3, ChangeIsVaultStep DEF VaultStep
<1>3. ASSUME NEW from \in Signers, NEW to \in Receivers, NEW net \in StakeAmounts,
             NEW cpu \in StakeAmounts, Undelegatebw(from, to, net, cpu)
      PROVE  VaultStep
  <2>1. Changes(Tables, from, to, -net, -cpu, FALSE)
    BY <1>3, UndelegatebwChanges
  <2>2. Sound(Changed(Tables, from, to, -net, -cpu, FALSE), managed)
    BY <1>0, <2>1, ChangedSound, SoundIs DEF Changes
  <2>3. Become(Changed(Tables, from, to, -net, -cpu, FALSE))
    BY <1>3 DEF Undelegatebw
  <2> QED
    BY <1>0, <2>1, <2>2, <2>3, ChangeIsVaultStep DEF VaultStep
<1>4. ASSUME NEW a \in Signers, Refund(a) PROVE VaultStep
  <2>1. CanRefund(a) /\ Become(Refunded(a)) /\ a \in Accounts
    BY <1>0, <1>4 DEF Refund
  <2>2. Released(Tables, Refunded(a), a) /\ Refunded(a) \in TablesType
    BY <1>0, <2>1, RefundedSound, SoundIs
  <2> QED
    BY <2>1, <2>2, ReleaseIsVaultStep
<1>5. ASSUME NEW a \in Accounts, RunDeferred(a) PROVE VaultStep
  <2>1. CASE CanRefund(a)
    <3> DEFINE w == Spent(Refunded(a), a)
    <3>1. Sound(Refunded(a), managed) /\ Released(Tables, Refunded(a), a)
      BY <1>0, <2>1, RefundedSound
    <3>2. Refunded(a) \in TablesType /\ w \in TablesType
      BY <3>1, SpentSound, SoundIs
    <3>3. /\ w.balance = Refunded(a).balance /\ w.staked = Refunded(a).staked
          /\ w.refunds = Refunded(a).refunds
      BY <3>2 DEF Spent, TablesType
    <3>4. Become(w)
      BY <1>5, <2>1 DEF RunDeferred
    <3> HIDE DEF w
    <3>5. Released(Tables, w, a)
      BY <3>1, <3>3 DEF Released, Waiting, Held
    <3> QED
      BY <2>1, <3>2, <3>4, <3>5, ReleaseIsVaultStep
  <2>2. CASE ~CanRefund(a)
    <3>1. Become(Spent(Tables, a))
      BY <1>5, <2>2 DEF RunDeferred
    <3>2. balance' = balance /\ staked' = staked /\ Waiting(Tables)' = Waiting(Tables)
      BY <1>0, <3>1 DEF Become, Spent, Tables, TablesType, Waiting
    <3> QED
      BY <3>2, StillIsVaultStep
  <2> QED
    BY <2>1, <2>2
<1>6. ASSUME NEW a \in Accounts, ExpireDeferred(a) PROVE VaultStep
  <2>1. balance' = balance /\ staked' = staked /\ Waiting(Tables)' = Waiting(Tables)
    BY <1>0, <1>6 DEF ExpireDeferred, Become, Spent, Tables, TablesType, Waiting
  <2> QED
    BY <2>1, StillIsVaultStep
<1>7. CASE Tick
  <2>1. balance' = balance /\ staked' = staked
    BY <1>7 DEF Tick, tokenVars
  <2>2. \A a \in Accounts : Weight(refunds'[a]) = Weight(refunds[a])
    <3> SUFFICES ASSUME NEW a \in Accounts PROVE Weight(refunds'[a]) = Weight(refunds[a])
      OBVIOUS
    <3>1. refunds[a] \in Refunds
      BY <1>0 DEF Tables, TablesType
    <3>2. refunds'[a] = Older(refunds[a])
      BY <1>7 DEF Tick
    <3> QED
      BY <3>1, <3>2 DEF Older, Weight, Refunds
  <2>3. Waiting(Tables)' = Waiting(Tables)
    BY <2>2 DEF Waiting, Tables
  <2> QED
    BY <2>1, <2>3, StillIsVaultStep
<1>8. CASE LimitActions
  <2>1. balance' = balance /\ staked' = staked /\ refunds' = refunds
    BY <1>8 DEF LimitActions, SetALimits, SetAcct, ResetAcct, tokenVars
  <2>2. Waiting(Tables)' = Waiting(Tables)
    BY <2>1 DEF Waiting, Tables
  <2> QED
    BY <2>1, <2>2, StillIsVaultStep
<1>9. CASE UNCHANGED allVars
  <2>1. balance' = balance /\ staked' = staked /\ Waiting(Tables)' = Waiting(Tables)
    BY <1>9 DEF allVars, tokenVars, stakeVars, Waiting, Tables
  <2> QED
    BY <2>1, StillIsVaultStep
<1> QED
  BY <1>1, <1>2, <1>3, <1>4, <1>5, <1>6, <1>7, <1>8, <1>9
     DEF StakeNext, StakeActions, ChainActions

\* Staking implements the vault: tokens are free, locked or leaving, only the
\* owner of a stake gets it back, and only through a whole refund.
THEOREM StakingVault == StakeSpec => ImplementsVault
<1>1. StakingInv /\ [StakeNext]_allVars => [Safe!Next]_(Safe!vars)
  BY NextIsVaultStep DEF VaultStep
<1> QED
  BY <1>1, StakingInvariant, PTL DEF StakeSpec, ImplementsVault

\* What leaves inery.stake in a step is one refund.
LEMMA NextPays ==
  ASSUME StakingInv, [StakeNext]_allVars,
         balance'[CoreSymbol][StakeAccount] < balance[CoreSymbol][StakeAccount]
  PROVE  \E a \in Accounts :
            /\ Due(refunds[a]) /\ Weight(refunds'[a]) = 0
            /\ balance'[CoreSymbol] = [balance[CoreSymbol] EXCEPT
                   ![StakeAccount] = @ - Weight(refunds[a]),
                   ![a] = @ + Weight(refunds[a])]
<1>1. VaultStep
  BY NextIsVaultStep
<1>2. StakingInv'
  BY StakingInvStep
<1>3. balance[CoreSymbol][StakeAccount] \in Nat /\ balance'[CoreSymbol][StakeAccount] \in Nat
  <2>1. balance \in Balances /\ balance' \in Balances
    BY <1>2 DEF StakingInv, Sound, Tables, TablesType
  <2> QED
    BY <2>1, SymbolAssumption, StakeAccountFacts DEF Balances
<1> QED
  BY <1>1, <1>3 DEF VaultStep

\* Tokens leave inery.stake only as one whole refund, to its owner, when due.
THEOREM StakingPays == StakeSpec => StakePaysDueRefunds
<1>1. StakingInv /\ [StakeNext]_allVars =>
        (balance'[CoreSymbol][StakeAccount] < balance[CoreSymbol][StakeAccount] =>
           \E a \in Accounts :
              /\ Due(refunds[a]) /\ Weight(refunds'[a]) = 0
              /\ balance'[CoreSymbol] = [balance[CoreSymbol] EXCEPT
                     ![StakeAccount] = @ - Weight(refunds[a]),
                     ![a] = @ + Weight(refunds[a])])
  BY NextPays
<1> QED
  BY <1>1, StakingInvariant, PTL DEF StakeSpec, StakePaysDueRefunds

(***************************************************************************)
(* The clock of a refund, limits that the operator manages, and the token  *)
(***************************************************************************)
FairOn(t, u) == Fair(t.balance, t.row, u.balance, u.row)

\* Unless the clock of a's refund starts again, it stands and nothing is added.
ClockKept(t, u, a) ==
    \/ u.refunds[a].age <= 1
    \/ /\ u.refunds[a].age = t.refunds[a].age
       /\ Weight(u.refunds[a]) <= Weight(t.refunds[a])

\* What changes of stake may make of tables t: they take nothing from inery.stake.
Careful(t, u) ==
    /\ FairOn(t, u)
    /\ u.balance[CoreSymbol][StakeAccount] >= t.balance[CoreSymbol][StakeAccount]
    /\ \A a \in Accounts : ClockKept(t, u, a)
    /\ \A a \in Accounts : \A r \in managed[a] : u.limits[a][r] = t.limits[a][r]

\* What no step may do to the refunds and limits of account a.
ClockStep(a) == Weight(refunds'[a]) > Weight(refunds[a]) => refunds'[a].age <= 1

FlagStep(a) ==
    userres'[a] # userres[a] => \A r \in managed[a] : limits'[a][r] = limits[a][r]

\* An inline transfer.
LEMMA PaidFair ==
  ASSUME NEW t \in TablesType, activity \in SUBSET Accounts,
         NEW from \in Accounts, NEW to \in Accounts, NEW q \in Int, CanPay(t, from, to, q)
  PROVE  FairOn(t, Paid(t, from, to, q))
<1> DEFINE bal == Moved(t.balance, CoreSymbol, from, to, q)
           rows == RowsWith(t.row, CoreSymbol, to)
           u == Paid(t, from, to, q)
<1>1. t.balance \in Balances /\ t.row \in [Symbols -> SUBSET Accounts]
  BY DEF TablesType
<1>2. Fair(t.balance, t.row, bal, rows)
  BY <1>1, FairMove DEF CanPay
<1>3. u = [t EXCEPT !.balance = bal, !.row = rows]
  BY DEF Paid
<1> HIDE DEF bal, rows, u
<1>4. u.balance = bal /\ u.row = rows
  BY <1>3 DEF TablesType
<1> QED
  BY <1>2, <1>4 DEF FairOn, u

\* A change of one's refund row adds to it only with its clock started again.
LEMMA RefundClock ==
  ASSUME half \in {0, 1}, NEW r \in Refunds, NEW net \in Int, NEW cpu \in Int
  PROVE  LET s == RefundAfter(r, net, cpu)
         IN s.age <= 1 \/ (s.age = r.age /\ Weight(s) <= Weight(r))
<1> DEFINE n == Larger(r.net - net, 0)
           c == Larger(r.cpu - cpu, 0)
           age == IF net < 0 \/ cpu < 0 THEN half ELSE r.age
           s == RefundAfter(r, net, cpu)
<1>1. r.net \in Nat /\ r.cpu \in Nat /\ r.age \in Nat
  BY DEF Refunds
<1>2. n \in Nat /\ c \in Nat /\ (net >= 0 /\ cpu >= 0 => n + c <= r.net + r.cpu)
  BY <1>1 DEF Larger
<1>3. s = IF n + c = 0 THEN NoRefund ELSE [net |-> n, cpu |-> c, age |-> age]
  BY DEF RefundAfter
<1> HIDE DEF n, c, age, s
<1>4. CASE n + c = 0
  BY <1>3, <1>4 DEF NoRefund, s
<1>5. CASE n + c # 0
  <2>1. s.age = age /\ Weight(s) = n + c /\ Weight(r) = r.net + r.cpu
    BY <1>3, <1>5 DEF Weight
  <2>2. CASE net < 0 \/ cpu < 0
    BY <2>1, <2>2 DEF age, s
  <2>3. CASE net >= 0 /\ cpu >= 0
    BY <1>2, <2>1, <2>3 DEF age, s
  <2> QED
    BY <2>2, <2>3
<1> QED
  BY <1>4, <1>5

\* changebw does not touch the limits that are managed.
LEMMA LimitsForManaged ==
  ASSUME NEW t \in TablesType, NEW to \in Accounts, NEW u,
         managed \in [Accounts -> SUBSET Resources], NEW r \in managed[to]
  PROVE  LimitsFor(t, to, u)[r] = t.limits[to][r]
<1> DEFINE l == t.limits[to]
           new == LimitsFor(t, to, u)
<1>1. r \in {"mem", "net", "cpu"}
  BY DEF Resources
<1>2. new = IF {"net", "cpu"} \subseteq managed[to] THEN l
            ELSE [mem |-> IF "mem" \in managed[to] THEN l.mem
                          ELSE Larger(u.mem + MemGift, l.mem),
                  net |-> IF "net" \in managed[to] THEN l.net ELSE u.net,
                  cpu |-> IF "cpu" \in managed[to] THEN l.cpu ELSE u.cpu]
  BY DEF LimitsFor
<1> HIDE DEF new, l
<1>3. CASE r = "mem"
  BY <1>2, <1>3 DEF new, l
<1>4. CASE r = "net"
  BY <1>2, <1>4 DEF new, l
<1>5. CASE r = "cpu"
  BY <1>2, <1>5 DEF new, l
<1> QED
  BY <1>1, <1>3, <1>4, <1>5 DEF new, l

\* Every changebw is careful, on whatever tables.
LEMMA ChangedCareful ==
  ASSUME half \in {0, 1}, NEW t \in TablesType, managed \in [Accounts -> SUBSET Resources],
         activity \in SUBSET Accounts,
         NEW from, NEW to, NEW net, NEW cpu, NEW transfer,
         Changes(t, from, to, net, cpu, transfer)
  PROVE  Careful(t, Changed(t, from, to, net, cpu, transfer))
<1> DEFINE owner == Owner(from, to, transfer)
           u == Rebooked(t, from, to, net, cpu, transfer)
           owed == OwedBy(t, from, to, net, cpu, transfer)
           w == Changed(t, from, to, net, cpu, transfer)
           s == RefundOf(t, from, to, net, cpu, transfer)
           l == LimitsFor(t, to, ResourcesOf(t, to, net, cpu))
           c == t.balance[CoreSymbol]
<1>1. /\ from \in Accounts /\ to \in Accounts /\ net \in Int /\ cpu \in Int
      /\ from # StakeAccount /\ StakeAccount \in Accounts
  BY AccountsAssumption, StakeAccountFacts DEF Changes
<1>2. owner \in Accounts /\ owed \in Nat
  BY OwedFacts
<1>3. /\ u \in TablesType /\ u.balance = t.balance /\ u.row = t.row
      /\ u.limits = [t.limits EXCEPT ![to] = l]
      /\ u.refunds = [t.refunds EXCEPT ![owner] = s]
  <2>1. Rebooking(t, u, from, to, net, cpu, transfer)
    BY RebookedFields
  <2> HIDE DEF u
  <2> QED
    BY <2>1 DEF Rebooking
<1>4. owed > 0 => CanPay(u, from, StakeAccount, owed)
  <2>1. owed > 0 => CanPay(t, from, StakeAccount, owed)
    BY DEF Changes, CanChange
  <2> HIDE DEF u, owed
  <2> QED
    BY <1>3, <2>1 DEF CanPay
<1>5. w = IF owed > 0 THEN Paid(u, from, StakeAccount, owed) ELSE u
  BY DEF Changed
<1>6. c \in [Accounts -> Nat]
  BY CoreBalances
<1>7. \A r \in managed[to] : l[r] = t.limits[to][r]
  BY <1>1, LimitsForManaged
<1>8. s.age <= 1 \/ (s.age = t.refunds[owner].age /\ Weight(s) <= Weight(t.refunds[owner]))
  <2>1. t.refunds[owner] \in Refunds
    BY <1>2 DEF TablesType
  <2>2. s = RefundAfter(t.refunds[owner], net, cpu) \/ s = t.refunds[owner]
    BY DEF RefundOf
  <2>3. Weight(t.refunds[owner]) \in Nat
    BY <2>1 DEF Weight, Refunds
  <2> HIDE DEF s
  <2> QED
    BY <1>1, <2>1, <2>2, <2>3, RefundClock
<1> HIDE DEF u, owed, w, s, l, owner, c
<1>9. /\ FairOn(u, w) /\ w.refunds = u.refunds /\ w.limits = u.limits
      /\ w.balance[CoreSymbol][StakeAccount] >= c[StakeAccount]
  <2>1. CASE owed > 0
    <3>1. CanPay(u, from, StakeAccount, owed) /\ w = Paid(u, from, StakeAccount, owed)
      BY <1>4, <1>5, <2>1
    <3>2. FairOn(u, w)
      BY <1>1, <1>2, <1>3, <3>1, PaidFair
    <3>3. /\ w.refunds = u.refunds /\ w.limits = u.limits
          /\ w.balance[CoreSymbol] = [c EXCEPT ![from] = @ - owed, ![StakeAccount] = @ + owed]
      <4>1. u.balance[CoreSymbol][from] >= owed
        BY <3>1 DEF CanPay, CanMove, CanSub
      <4> QED
        BY <1>1, <1>2, <1>3, <3>1, <4>1, PaidFacts DEF c
    <3> QED
      BY <1>1, <1>2, <1>6, <3>2, <3>3
  <2>2. CASE ~(owed > 0)
    <3>1. w = u
      BY <1>5, <2>2
    <3>2. FairOn(u, u)
      BY <1>3, FairStill DEF FairOn, TablesType
    <3> QED
      BY <1>1, <1>3, <1>6, <3>1, <3>2 DEF c
  <2> QED
    BY <2>1, <2>2
<1>10. FairOn(t, w)
  BY <1>3, <1>9 DEF FairOn
<1>11. ASSUME NEW a \in Accounts PROVE ClockKept(t, w, a)
  <2>1. t.refunds \in [Accounts -> Refunds]
    BY DEF TablesType
  <2>2. Weight(t.refunds[a]) \in Nat
    BY <2>1 DEF Weight, Refunds
  <2>3. w.refunds[a] = IF a = owner THEN s ELSE t.refunds[a]
    BY <1>2, <1>3, <1>9, <2>1
  <2> QED
    BY <1>8, <2>2, <2>3 DEF ClockKept
<1>12. ASSUME NEW a \in Accounts, NEW r \in managed[a] PROVE w.limits[a][r] = t.limits[a][r]
  <2>1. t.limits \in [Accounts -> Limits]
    BY DEF TablesType
  <2>2. w.limits[a] = IF a = to THEN l ELSE t.limits[a]
    BY <1>1, <1>3, <1>9, <2>1
  <2> QED
    BY <1>7, <2>2
<1> QED
  BY <1>9, <1>10, <1>11, <1>12 DEF Careful, w, c

\* Tables reached with care let no refund grow with its clock standing.
LEMMA CarefulSteps ==
  ASSUME Tables \in TablesType, NEW u \in TablesType, Careful(Tables, u), Become(u),
         NEW a \in Accounts
  PROVE  ClockStep(a) /\ FlagStep(a)
<1>1. /\ ClockKept(Tables, u, a) /\ \A r \in managed[a] : u.limits[a][r] = Tables.limits[a][r]
      /\ refunds' = u.refunds /\ limits' = u.limits
      /\ Tables.refunds = refunds /\ Tables.limits = limits
  BY DEF Careful, Become, Tables
<1>2. refunds[a] \in Refunds /\ u.refunds[a] \in Refunds
  BY <1>1 DEF TablesType
<1>3. Weight(refunds[a]) \in Nat /\ Weight(u.refunds[a]) \in Nat
  BY <1>2 DEF Weight, Refunds
<1> HIDE DEF Tables
<1>4. ClockStep(a)
  BY <1>1, <1>3 DEF ClockStep, ClockKept
<1> QED
  BY <1>1, <1>4 DEF FlagStep

LEMMA ChangeKeeps ==
  ASSUME half \in {0, 1}, Sound(Tables, managed), activity \in SUBSET Accounts,
         NEW from, NEW to, NEW net, NEW cpu, NEW transfer,
         Changes(Tables, from, to, net, cpu, transfer),
         Become(Changed(Tables, from, to, net, cpu, transfer)),
         NEW a \in Accounts
  PROVE  ClockStep(a) /\ FlagStep(a)
<1>1. Tables \in TablesType /\ managed \in [Accounts -> SUBSET Resources] /\ to \in Accounts
  BY SoundIs DEF Changes
<1>2. Changed(Tables, from, to, net, cpu, transfer) \in TablesType
  BY <1>1, ChangedSound, SoundIs
<1>3. Careful(Tables, Changed(Tables, from, to, net, cpu, transfer))
  BY <1>1, ChangedCareful
<1> QED
  BY <1>1, <1>2, <1>3, CarefulSteps

\* Steps that leave the totals alone and let no refund grow.
LEMMA KeptSteps ==
  ASSUME NEW a \in Accounts, userres' = userres,
         refunds \in [Accounts -> Refunds],
         refunds'[a] = refunds[a] \/ Weight(refunds'[a]) = 0
           \/ Weight(refunds'[a]) = Weight(refunds[a])
  PROVE  ClockStep(a) /\ FlagStep(a)
<1>1. Weight(refunds[a]) \in Nat
  BY DEF Weight, Refunds
<1> QED
  BY <1>1 DEF ClockStep, FlagStep

LEMMA NextKeeps ==
  ASSUME StakingInv, [StakeNext]_allVars, NEW a \in Accounts
  PROVE  ClockStep(a) /\ FlagStep(a)
<1>0. /\ Signers \subseteq Accounts
      /\ Sound(Tables, managed) /\ half \in {0, 1} /\ Tables \in TablesType
      /\ refunds \in [Accounts -> Refunds] /\ activity \in SUBSET Accounts
  <2>1. /\ Signers \subseteq Accounts /\ activity \in SUBSET Accounts
        /\ Sound(Tables, managed) /\ half \in {0, 1} /\ Tables \in TablesType
    BY AccountsAssumption, SoundIs DEF StakingInv
  <2> QED
    BY <2>1 DEF TablesType, Tables
<1>1. CASE TokenTraffic \/ LimitActions \/ UNCHANGED allVars
  <2>1. userres' = userres /\ refunds' = refunds
    BY <1>1 DEF TokenTraffic, LimitActions, SetALimits, SetAcct, ResetAcct, allVars, stakeVars
  <2> QED
    BY <1>0, <2>1, KeptSteps
<1>2. ASSUME NEW from \in Signers, NEW to \in Receivers, NEW net \in StakeAmounts,
             NEW cpu \in StakeAmounts, NEW transfer \in BOOLEAN,
             Delegatebw(from, to, net, cpu, transfer)
      PROVE  ClockStep(a) /\ FlagStep(a)
  <2>1. Become(Changed(Tables, from, to, net, cpu, transfer))
    BY <1>2 DEF Delegatebw
  <2> QED
    BY <1>0, <1>2, <2>1, DelegatebwChanges, ChangeKeeps
<1>3. ASSUME NEW from \in Signers, NEW to \in Receivers, NEW net \in StakeAmounts,
             NEW cpu \in StakeAmounts, Undelegatebw(from, to, net, cpu)
      PROVE  ClockStep(a) /\ FlagStep(a)
  <2>1. Become(Changed(Tables, from, to, -net, -cpu, FALSE))
    BY <1>3 DEF Undelegatebw
  <2> QED
    BY <1>0, <1>3, <2>1, UndelegatebwChanges, ChangeKeeps
<1>4. ASSUME NEW o \in Accounts, NEW w \in TablesType, Become(w),
             w = Refunded(o) \/ w = Spent(Refunded(o), o) \/ w = Spent(Tables, o)
      PROVE  ClockStep(a) /\ FlagStep(a)
  <2> DEFINE p == Paid(Tables, StakeAccount, o, Weight(refunds[o]))
  <2>1. p.userres = userres /\ p.refunds = refunds
    BY <1>0 DEF Paid, Tables, TablesType
  <2>2. w.userres = userres /\ (w.refunds = refunds \/ w.refunds = [refunds EXCEPT ![o] = NoRefund])
    <3>1. Refunded(o) = [p EXCEPT !.refunds[o] = NoRefund]
      BY DEF Refunded
    <3>2. CASE w = Spent(Tables, o)
      BY <3>2 DEF Spent, Tables
    <3>3. CASE w = Refunded(o) \/ w = Spent(Refunded(o), o)
      <4> DEFINE bal == Moved(balance, CoreSymbol, StakeAccount, o, Weight(refunds[o]))
                 rows == RowsWith(row, CoreSymbol, o)
      <4>1. p = [balance |-> bal, row |-> rows, delband |-> delband,
                 userres |-> userres, voters |-> voters, staked |-> staked,
                 refunds |-> refunds, deferred |-> deferred, limits |-> limits]
        <5>1. Tables.balance = balance /\ Tables.row = row
          BY DEF Tables
        <5> HIDE DEF Tables
        <5>2. p = [Tables EXCEPT !.balance = bal, !.row = rows]
          BY <5>1 DEF Paid
        <5> HIDE DEF p, bal, rows
        <5> QED
          BY <5>2 DEF Tables
      <4> HIDE DEF p, bal, rows
      <4> QED
        BY <3>1, <3>3, <4>1 DEF Spent
    <3> QED
      BY <1>4, <3>2, <3>3
  <2>3. userres' = userres /\ (refunds' = refunds \/ refunds' = [refunds EXCEPT ![o] = NoRefund])
    BY <1>4, <2>2 DEF Become
  <2>4. Weight(NoRefund) = 0
    BY DEF Weight, NoRefund
  <2>5. refunds'[a] = refunds[a] \/ refunds'[a] = NoRefund
    BY <1>0, <2>3
  <2> QED
    BY <1>0, <2>3, <2>4, <2>5, KeptSteps
<1>5. ASSUME NEW o \in Signers, Refund(o) PROVE ClockStep(a) /\ FlagStep(a)
  <2>1. o \in Accounts /\ Become(Refunded(o)) /\ Refunded(o) \in TablesType
    BY <1>0, <1>5, RefundedSound, SoundIs DEF Refund
  <2> QED
    BY <1>4, <2>1
<1>6. ASSUME NEW o \in Accounts, RunDeferred(o) \/ ExpireDeferred(o) PROVE ClockStep(a) /\ FlagStep(a)
  <2>1. CASE Become(Spent(Tables, o))
    <3>1. Spent(Tables, o) \in TablesType
      BY <1>0, SpentSound, SoundIs
    <3> QED
      BY <1>4, <2>1, <3>1
  <2>2. CASE CanRefund(o) /\ Become(Spent(Refunded(o), o))
    <3>1. Spent(Refunded(o), o) \in TablesType
      BY <1>0, <2>2, RefundedSound, SpentSound, SoundIs
    <3> QED
      BY <1>4, <2>2, <3>1
  <2> QED
    BY <1>6, <2>1, <2>2 DEF RunDeferred, ExpireDeferred
<1>7. CASE Tick
  <2>1. Weight(refunds'[a]) = Weight(refunds[a])
    <3>1. refunds[a] \in Refunds /\ refunds'[a] = Older(refunds[a])
      BY <1>0, <1>7 DEF Tick
    <3> QED
      BY <3>1 DEF Older, Weight, Refunds
  <2> QED
    BY <1>0, <1>7, <2>1, KeptSteps DEF Tick
<1> QED
  BY <1>1, <1>2, <1>3, <1>5, <1>6, <1>7 DEF StakeNext, StakeActions, ChainActions

\* Withdrawing more starts the clock of the whole refund again.
THEOREM StakingClock == StakeSpec => WithdrawalRestartsClock
<1>1. StakingInv /\ [StakeNext]_allVars =>
        \A a \in Accounts : Weight(refunds'[a]) > Weight(refunds[a]) => refunds'[a].age <= 1
  BY NextKeeps DEF ClockStep
<1> QED
  BY <1>1, StakingInvariant, PTL DEF StakeSpec, WithdrawalRestartsClock

\* No stake action moves a limit that the operator manages.
THEOREM StakingManaged == StakeSpec => ManagedLimitsStay
<1>1. StakingInv /\ [StakeNext]_allVars =>
        \A a \in Accounts : userres'[a] # userres[a] =>
          \A r \in managed[a] : limits'[a][r] = limits[a][r]
  BY NextKeeps DEF FlagStep
<1> QED
  BY <1>1, StakingInvariant, PTL DEF StakeSpec, ManagedLimitsStay
(***************************************************************************)
(* The token that staking moves                                            *)
(***************************************************************************)
LEMMA RefundedFair ==
  ASSUME Tables \in TablesType, activity \in SUBSET Accounts, NEW o \in Accounts, CanRefund(o)
  PROVE  /\ FairOn(Tables, Refunded(o))
         /\ Spent(Refunded(o), o).balance = Refunded(o).balance
         /\ Spent(Refunded(o), o).row = Refunded(o).row
<1> DEFINE q == Weight(refunds[o])
           p == Paid(Tables, StakeAccount, o, q)
           u == Refunded(o)
<1>1. q \in Int
  <2>1. refunds[o] \in Refunds
    BY DEF Tables, TablesType
  <2> QED
    BY <2>1 DEF Weight, Refunds
<1>2. StakeAccount \in Accounts /\ CanPay(Tables, StakeAccount, o, q)
  BY StakeAccountFacts DEF CanRefund
<1>3. FairOn(Tables, p)
  BY <1>1, <1>2, PaidFair
<1>4. u = [p EXCEPT !.refunds[o] = NoRefund]
  BY DEF Refunded
<1>5. p = [Tables EXCEPT !.balance = Moved(@, CoreSymbol, StakeAccount, o, q),
                         !.row = RowsWith(@, CoreSymbol, o)]
  BY DEF Paid
<1> HIDE DEF p, u
<1>6. u.balance = p.balance /\ u.row = p.row
  BY <1>4, <1>5 DEF Tables
<1>7. Spent(u, o).balance = u.balance /\ Spent(u, o).row = u.row
  BY <1>4, <1>5 DEF Spent, Tables
<1> QED
  BY <1>3, <1>6, <1>7 DEF FairOn, u

\* Whatever the system contract does with stake, it pays by transfers.
LEMMA NextFair ==
  ASSUME StakingInv, [StakeNext]_allVars
  PROVE  Fair(balance, row, balance', row') /\ stat' = stat
<1>0. /\ Signers \subseteq Accounts /\ Receivers \subseteq Accounts
      /\ activity \in SUBSET Accounts /\ half \in {0, 1}
      /\ Tables \in TablesType /\ Sound(Tables, managed) /\ managed \in [Accounts -> SUBSET Resources]
      /\ balance \in Balances /\ row \in [Symbols -> SUBSET Accounts]
      /\ Tables.balance = balance /\ Tables.row = row /\ CoreSymbol \in Symbols
  <2>1. /\ Signers \subseteq Accounts /\ Receivers \subseteq Accounts
        /\ activity \in SUBSET Accounts /\ half \in {0, 1} /\ CoreSymbol \in Symbols
        /\ Tables \in TablesType /\ Sound(Tables, managed)
    BY AccountsAssumption, SymbolAssumption, StakeAccountAssumption, SoundIs DEF StakingInv
  <2> QED
    BY <2>1, CoreTypes DEF Sound, Tables
<1>1. CASE balance' = balance /\ row' = row /\ stat' = stat
  BY <1>0, <1>1, FairStill
<1>2. ASSUME NEW w, FairOn(Tables, w), Become(w), stat' = stat
      PROVE  Fair(balance, row, balance', row') /\ stat' = stat
  BY <1>0, <1>2 DEF FairOn, Become
<1>3. ASSUME NEW from \in Signers, NEW to \in Accounts, NEW q \in Quantities,
             Transfer(from, to, CoreSymbol, q)
      PROVE  Fair(balance, row, balance', row') /\ stat' = stat
  BY <1>0, <1>3, AmountAssumption, FairMove DEF Transfer
<1>4. ASSUME NEW a \in Signers, Close(a, CoreSymbol)
      PROVE  Fair(balance, row, balance', row') /\ stat' = stat
  <2>1. /\ balance[CoreSymbol][a] = 0 /\ row' = [row EXCEPT ![CoreSymbol] = @ \ {a}]
        /\ balance' = balance /\ stat' = stat
    BY <1>4 DEF Close
  <2>2. \A s \in Symbols, b \in Accounts : b \in row[s] /\ balance[s][b] > 0 => b \in row'[s]
    BY <1>0, <2>1
  <2>3. Fair(balance, row, balance, row)
    BY <1>0, FairStill
  <2> QED
    BY <2>1, <2>2, <2>3 DEF Fair
<1>5. CASE TokenTraffic
  BY <1>1, <1>3, <1>4, <1>5 DEF TokenTraffic, RegisterProducer, UnregisterProducer
<1>6. ASSUME NEW from \in Signers, NEW to \in Receivers, NEW net \in StakeAmounts,
             NEW cpu \in StakeAmounts, NEW transfer \in BOOLEAN,
             Delegatebw(from, to, net, cpu, transfer)
      PROVE  Fair(balance, row, balance', row') /\ stat' = stat
  <2>1. Changes(Tables, from, to, net, cpu, transfer)
    BY <1>6, DelegatebwChanges
  <2>2. FairOn(Tables, Changed(Tables, from, to, net, cpu, transfer))
    BY <1>0, <2>1, ChangedCareful DEF Careful
  <2> QED
    BY <1>2, <1>6, <2>2 DEF Delegatebw
<1>7. ASSUME NEW from \in Signers, NEW to \in Receivers, NEW net \in StakeAmounts,
             NEW cpu \in StakeAmounts, Undelegatebw(from, to, net, cpu)
      PROVE  Fair(balance, row, balance', row') /\ stat' = stat
  <2>1. Changes(Tables, from, to, -net, -cpu, FALSE)
    BY <1>7, UndelegatebwChanges
  <2>2. FairOn(Tables, Changed(Tables, from, to, -net, -cpu, FALSE))
    BY <1>0, <2>1, ChangedCareful DEF Careful
  <2> QED
    BY <1>2, <1>7, <2>2 DEF Undelegatebw
<1>8. ASSUME NEW o \in Accounts, Refund(o) \/ RunDeferred(o) \/ ExpireDeferred(o)
      PROVE  Fair(balance, row, balance', row') /\ stat' = stat
  <2>1. CASE CanRefund(o) /\ (Become(Refunded(o)) \/ Become(Spent(Refunded(o), o)))
    BY <1>0, <1>8, <2>1, RefundedFair DEF Refund, RunDeferred, ExpireDeferred, FairOn, Become
  <2>2. CASE Become(Spent(Tables, o))
    <3>1. Spent(Tables, o).balance = balance /\ Spent(Tables, o).row = row
      BY DEF Spent, Tables
    <3> QED
      BY <1>1, <1>8, <2>2, <3>1 DEF Refund, RunDeferred, ExpireDeferred, Become
  <2> QED
    BY <1>8, <2>1, <2>2 DEF Refund, RunDeferred, ExpireDeferred
<1>9. CASE Tick \/ LimitActions \/ UNCHANGED allVars
  BY <1>1, <1>9 DEF Tick, LimitActions, SetALimits, SetAcct, ResetAcct, allVars, tokenVars
<1> QED
  BY <1>0, <1>5, <1>6, <1>7, <1>8, <1>9 DEF StakeNext, StakeActions, ChainActions

\* The core token is issued and held in rows from the start.
LEMMA StakeInitToken == StakeInit => Conservation /\ Backed
<1> SUFFICES ASSUME StakeInit PROVE Conservation /\ Backed
  OBVIOUS
<1>1. ASSUME NEW s \in Symbols PROVE Total(balance[s], Accounts) = stat[s].supply
  <2>1. CASE s = CoreSymbol
    BY <2>1 DEF StakeInit
  <2>2. CASE s # CoreSymbol
    <3>1. (\A a \in Accounts : balance[s][a] = 0) /\ stat[s].supply = 0
      BY <2>2 DEF StakeInit, NoStat
    <3> QED
      BY <3>1, TotalZero
  <2> QED
    BY <2>1, <2>2
<1>2. \A s \in Symbols, a \in Accounts : balance[s][a] > 0 => a \in row[s]
  BY DEF StakeInit
<1>3. Total(InitialFunds, Accounts) \in Nat
  BY AccountsAssumption, StakeAmountAssumption, TotalType
<1>4. \A s \in Symbols : stat[s].supply <= stat[s].max_supply
  BY <1>3 DEF StakeInit, NoStat
<1> QED
  BY <1>1, <1>2, <1>4 DEF Conservation, Backed

\* The supply stays the sum of the balances, and every balance has its row,
\* whatever is staked, withdrawn and refunded through inery.stake.
THEOREM StakingToken == StakeSpec => [](Conservation /\ Backed)
<1>1. StakingInv /\ Conservation /\ Backed /\ [StakeNext]_allVars => (Conservation /\ Backed)'
  BY NextFair, FairKeeps
<1> QED
  BY <1>1, StakeInitToken, StakingInvariant, PTL DEF StakeSpec

\* No stake, and no refund of another, takes INR from an active producer so that
\* fewer than Border whole INR remain.
THEOREM StakingLock == StakeSpec => ProducerLock
<1>1. StakingInv /\ Conservation /\ Backed /\ [StakeNext]_allVars => [LockKept]_tokenVars
  BY NextFair, FairKeeps
<1>2. ProducerLock <=> [][LockKept]_tokenVars
  BY PTL DEF ProducerLock, LockKept
<1> QED
  BY <1>1, <1>2, StakingToken, StakingInvariant, PTL DEF StakeSpec
=============================================================================

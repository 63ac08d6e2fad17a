------------------------------- MODULE Staking -------------------------------
(***************************************************************************)
(* The stake of the inery.system contract: the delband, userres, voters    *)
(* and refunds tables, the deferred refund transactions, the resource      *)
(* limits of the chain, and the core token that all of it moves. changebw  *)
(* is the heart of it; it is written as an operator on a record of the     *)
(* tables it touches, because other handlers call it and go on.            *)
(*                                                                         *)
(* Time passes in block slots of half a second. A refund row keeps its age *)
(* in slots, up to RefundDelay, and a deferred transaction the slots that  *)
(* are left, so that no clock has to be bounded.                           *)
(*                                                                         *)
(* Left out: the row payers, and the vote of the staker, which             *)
(* update_voting_power recounts: it moves no tokens, and stops no change   *)
(* of stake (RestakeNeverRefused in module Voting).                        *)
(***************************************************************************)
EXTENDS Token

CONSTANTS
    StakeAccount,   \* inery.stake; it signs nothing by itself
    Receivers,      \* BOUND: accounts given stake, or limits by the operator
    StakeAmounts,   \* BOUND: net and cpu amounts (un)delegated at a time
    LimitValues,    \* BOUND: limits set by setalimits and setacct*
    ManagedKinds,   \* BOUND: the limits setacct* is called for
    RefundDelay,    \* slots in refund_delay_sec (3 days)
    MemGift,        \* mem_gift_bytes
    Vested,         \* b1
    VestedFloor,    \* what b1 may not claim yet
    InitialFunds,   \* account -> core tokens it starts with
    MayExpire       \* whether a deferred transaction may never get to run

ASSUME StakeAccountAssumption ==
    /\ StakeAccount \in Accounts \ Signers
    /\ Receivers \subseteq Accounts
ASSUME StakeAmountAssumption ==
    /\ StakeAmounts \subseteq Nat
    /\ ManagedKinds \subseteq {"mem", "net", "cpu"}
    /\ RefundDelay \in Nat \ {0, 1}
    /\ MemGift \in Nat
    /\ VestedFloor \in Nat
    /\ LimitValues \subseteq Nat \cup {-1}
    /\ InitialFunds \in [Accounts -> Nat]

VARIABLES
    delband,    \* <<from, to>> -> net and cpu delegated; both 0 without a row
    userres,    \* account -> row present, net, cpu, mem
    voters,     \* accounts with a row in the voters table
    staked,     \* account -> voter_info.staked; 0 without a row
    managed,    \* account -> the managed flags of voter_info.flags1
    refunds,    \* account -> net, cpu and age; both amounts 0 without a row
    deferred,   \* account -> slots until its deferred refund runs
    limits,     \* account -> mem, net and cpu limits kept by the chain
    half        \* 1 in the second slot of a second

stakeVars == <<delband, userres, voters, staked, managed, refunds, deferred, limits, half>>
allVars == <<tokenVars, stakeVars>>

NotScheduled == -1
Unlimited == -1
NoRefund == [net |-> 0, cpu |-> 0, age |-> 0]
Resources == {"mem", "net", "cpu"}

Weight(r) == r.net + r.cpu
Due(r) == Weight(r) > 0 /\ r.age >= RefundDelay

(***************************************************************************)
(* changebw and update_voting_power, on a record t of the tables           *)
(***************************************************************************)
Tables == [balance |-> balance, row |-> row, delband |-> delband,
           userres |-> userres, voters |-> voters, staked |-> staked, refunds |-> refunds,
           deferred |-> deferred, limits |-> limits]

Become(t) ==
    /\ balance' = t.balance /\ row' = t.row /\ delband' = t.delband
    /\ userres' = t.userres /\ voters' = t.voters /\ staked' = t.staked /\ refunds' = t.refunds
    /\ deferred' = t.deferred /\ limits' = t.limits

\* An inline core token transfer.
CanPay(t, from, to, q) == CanMove(t.balance, t.row, CoreSymbol, from, to, q)
Paid(t, from, to, q) ==
    [t EXCEPT !.balance = Moved(@, CoreSymbol, from, to, q),
              !.row = RowsWith(@, CoreSymbol, to)]

\* With the transfer flag the receiver becomes the owner of the stake.
Owner(from, to, transfer) == IF transfer THEN to ELSE from

\* Fault: the flags of net and cpu are mixed up.
LimitsForMixed(t, to, u) ==
    LET l == t.limits[to] IN
    [mem |-> IF "mem" \in managed[to] THEN l.mem ELSE Larger(u.mem + MemGift, l.mem),
     net |-> IF "cpu" \in managed[to] THEN l.net ELSE u.net,
     cpu |-> IF "net" \in managed[to] THEN l.cpu ELSE u.cpu]

\* The limits that follow a receiver's totals, unless they are managed.
LimitsFor(t, to, u) ==
    LET l == t.limits[to] IN
    IF {"net", "cpu"} \subseteq managed[to] THEN l
    ELSE [mem |-> IF "mem" \in managed[to] THEN l.mem
                  ELSE Larger(u.mem + MemGift, l.mem),
          net |-> IF "net" \in managed[to] THEN l.net ELSE u.net,
          cpu |-> IF "cpu" \in managed[to] THEN l.cpu ELSE u.cpu]

\* The refund row takes part when stake is withdrawn, or given to oneself.
Settles(from, to, net, cpu, transfer) == net + cpu < 0 \/ (~transfer /\ from = to)

\* Fault: more is taken out of the row than it holds.
RefundAfterBelow(r, net, cpu) ==
    IF net + cpu = Weight(r) THEN NoRefund
    ELSE [net |-> r.net - net, cpu |-> r.cpu - cpu,
          age |-> IF net < 0 \/ cpu < 0 THEN half ELSE r.age]

\* Fault: a second withdrawal leaves the clock of the first one running.
RefundAfterOnce(r, net, cpu) ==
    LET n == Larger(r.net - net, 0)
        c == Larger(r.cpu - cpu, 0)
    IN IF n + c = 0 THEN NoRefund
       ELSE [net |-> n, cpu |-> c, age |-> IF Weight(r) = 0 THEN half ELSE r.age]

\* The refund row after a change: a negative delta adds to it and starts its
\* clock again (request_time drops the half second), a positive one is taken
\* out of it first.
RefundAfter(r, net, cpu) ==
    LET n == Larger(r.net - net, 0)
        c == Larger(r.cpu - cpu, 0)
    IN IF n + c = 0 THEN NoRefund
       ELSE [net |-> n, cpu |-> c, age |-> IF net < 0 \/ cpu < 0 THEN half ELSE r.age]

\* Fault: a refund of net is counted for cpu, and the reverse.
OwedInAll(r, net, cpu) == Larger(net + cpu - Weight(r), 0)

\* Fault: the refund row pays, and the source once more.
OwedTwice(r, net, cpu) == Larger(net + cpu, 0)

\* What the refund row does not cover is taken from the source.
Owed(r, net, cpu) == Larger(net - r.net, 0) + Larger(cpu - r.cpu, 0)

\* The delband and userres rows after a change, and what is left of them to check.
Delegation(t, owner, to, net, cpu) ==
    [net |-> t.delband[<<owner, to>>].net + net, cpu |-> t.delband[<<owner, to>>].cpu + cpu]

\* Fault: the net amount is added to both totals.
ResourcesOfNet(t, to, net, cpu) ==
    LET v == [t.userres[to] EXCEPT !.net = @ + net, !.cpu = @ + net]
    IN [v EXCEPT !.row = v.net # 0 \/ v.cpu # 0 \/ v.mem # 0]

ResourcesOf(t, to, net, cpu) ==
    LET u == t.userres[to]
        v == [u EXCEPT !.net = @ + net, !.cpu = @ + cpu]
    IN [v EXCEPT !.row = v.net # 0 \/ v.cpu # 0 \/ v.mem # 0]

\* Fault: a refund that is scheduled already is not cancelled first.
ScheduledOnce(t, owner, settles, refund) ==
    IF settles /\ refund # NoRefund /\ t.deferred[owner] = NotScheduled
    THEN RefundDelay ELSE t.deferred[owner]

\* The owner's deferred refund is cancelled, and sent anew if a row took part
\* and is left.
Scheduled(t, owner, settles, refund) ==
    IF settles /\ refund # NoRefund THEN RefundDelay ELSE NotScheduled

\* The tables after changebw, but for the final transfer of what is owed.
Rebooked(t, from, to, net, cpu, transfer) ==
    LET owner   == Owner(from, to, transfer)
        u       == ResourcesOf(t, to, net, cpu)
        settles == Settles(from, to, net, cpu, transfer)
        refund  == IF settles THEN RefundAfter(t.refunds[owner], net, cpu)
                              ELSE t.refunds[owner]
    IN [t EXCEPT !.delband[<<owner, to>>] = Delegation(t, owner, to, net, cpu),
                 !.userres[to] = u,
                 !.limits[to] = LimitsFor(t, to, u),
                 !.refunds[owner] = refund,
                 !.deferred[owner] = Scheduled(t, owner, settles, refund),
                 !.voters = @ \cup {owner},
                 !.staked[owner] = @ + net + cpu]

OwedBy(t, from, to, net, cpu, transfer) ==
    IF Settles(from, to, net, cpu, transfer)
    THEN Owed(t.refunds[Owner(from, to, transfer)], net, cpu)
    ELSE net + cpu

Changed(t, from, to, net, cpu, transfer) ==
    LET new  == Rebooked(t, from, to, net, cpu, transfer)
        owed == OwedBy(t, from, to, net, cpu, transfer)
    IN IF owed > 0 THEN Paid(new, from, StakeAccount, owed) ELSE new

CanChange(t, from, to, net, cpu, transfer) ==
    LET owner == Owner(from, to, transfer)
        new   == Rebooked(t, from, to, net, cpu, transfer)
        owed  == OwedBy(t, from, to, net, cpu, transfer)
    IN /\ net # 0 \/ cpu # 0
       /\ net * cpu >= 0
       /\ new.delband[<<owner, to>>].net >= 0 /\ new.delband[<<owner, to>>].cpu >= 0
       /\ new.userres[to].net >= 0 /\ new.userres[to].cpu >= 0
       /\ owed > 0 => CanPay(t, from, StakeAccount, owed)
       /\ new.staked[owner] >= 0
       /\ owner = Vested => new.staked[owner] >= VestedFloor

(***************************************************************************)
(* The staking actions                                                     *)
(***************************************************************************)
CanDelegate(t, from, to, net, cpu, transfer) ==
    /\ net >= 0 /\ cpu >= 0 /\ net + cpu > 0
    /\ ~(transfer /\ from = to)
    /\ CanChange(t, from, to, net, cpu, transfer)

Delegatebw(from, to, net, cpu, transfer) ==
    /\ CanDelegate(Tables, from, to, net, cpu, transfer)
    /\ Become(Changed(Tables, from, to, net, cpu, transfer))
    /\ UNCHANGED <<stat, activity, managed, half>>

CanUndelegate(t, from, to, net, cpu) ==
    /\ net >= 0 /\ cpu >= 0 /\ net + cpu > 0
    /\ CanChange(t, from, to, -net, -cpu, FALSE)

Undelegatebw(from, to, net, cpu) ==
    /\ CanUndelegate(Tables, from, to, net, cpu)
    /\ Become(Changed(Tables, from, to, -net, -cpu, FALSE))
    /\ UNCHANGED <<stat, activity, managed, half>>

\* Fault: the delay is not checked.
CanRefundEarly(owner) ==
    /\ Weight(refunds[owner]) > 0
    /\ CanPay(Tables, StakeAccount, owner, Weight(refunds[owner]))

\* Fault: a row that is due to the slot is not due yet.
CanRefundLate(owner) ==
    /\ Weight(refunds[owner]) > 0
    /\ refunds[owner].age > RefundDelay
    /\ CanPay(Tables, StakeAccount, owner, Weight(refunds[owner]))

\* refund: the row is due and inery.stake can pay it.
CanRefund(owner) ==
    /\ Due(refunds[owner])
    /\ CanPay(Tables, StakeAccount, owner, Weight(refunds[owner]))

\* Fault: the row stays after it is paid.
RefundedKept(owner) == Paid(Tables, StakeAccount, owner, Weight(refunds[owner]))

Refunded(owner) ==
    [Paid(Tables, StakeAccount, owner, Weight(refunds[owner]))
        EXCEPT !.refunds[owner] = NoRefund]

Refund(owner) ==
    /\ CanRefund(owner)
    /\ Become(Refunded(owner))
    /\ UNCHANGED <<stat, activity, managed, half>>

(***************************************************************************)
(* The chain: a deferred transaction whose delay is over runs the refund   *)
(* action, once, whether it succeeds or not; or it expires.                *)
(***************************************************************************)
Spent(t, owner) == [t EXCEPT !.deferred[owner] = NotScheduled]

RunDeferred(owner) ==
    /\ deferred[owner] = 0
    /\ Become(Spent(IF CanRefund(owner) THEN Refunded(owner) ELSE Tables, owner))
    /\ UNCHANGED <<stat, activity, managed, half>>

ExpireDeferred(owner) ==
    /\ MayExpire
    /\ deferred[owner] = 0
    /\ Become(Spent(Tables, owner))
    /\ UNCHANGED <<stat, activity, managed, half>>

Older(r) == IF Weight(r) = 0 \/ r.age >= RefundDelay THEN r ELSE [r EXCEPT !.age = @ + 1]
Sooner(d) == IF d > 0 THEN d - 1 ELSE d

Tick ==
    /\ half' = 1 - half
    /\ refunds' = [a \in Accounts |-> Older(refunds[a])]
    /\ deferred' = [a \in Accounts |-> Sooner(deferred[a])]
    /\ UNCHANGED <<tokenVars, delband, userres, voters, staked, managed, limits>>

(***************************************************************************)
(* Limits set by the operator (setalimits, setacctmem, setacctnet,         *)
(* setacctcpu with and without a value)                                    *)
(***************************************************************************)
\* Fault: limits that follow stake may be set too.
SetALimitsAny(a, mem, net, cpu) ==
    /\ managed[a] = {}
    /\ limits' = [limits EXCEPT ![a] = [mem |-> mem, net |-> net, cpu |-> cpu]]
    /\ UNCHANGED <<tokenVars, delband, userres, voters, staked, managed, refunds, deferred, half>>

SetALimits(a, mem, net, cpu) ==
    /\ ~userres[a].row
    /\ managed[a] = {}
    /\ limits' = [limits EXCEPT ![a] = [mem |-> mem, net |-> net, cpu |-> cpu]]
    /\ UNCHANGED <<tokenVars, delband, userres, voters, staked, managed, refunds, deferred, half>>

SetAcct(a, resource, value) ==
    /\ value >= IF resource = "mem" THEN 0 ELSE Unlimited
    /\ managed' = [managed EXCEPT ![a] = @ \cup {resource}]
    /\ voters' = voters \cup {a}
    /\ limits' = [limits EXCEPT ![a][resource] = value]
    /\ UNCHANGED <<tokenVars, delband, userres, staked, refunds, deferred, half>>

ResetAcct(a, resource) ==
    /\ resource \in managed[a]
    /\ managed' = [managed EXCEPT ![a] = @ \ {resource}]
    /\ limits' = [limits EXCEPT ![a][resource] =
                    userres[a][resource] + IF resource = "mem" THEN MemGift ELSE 0]
    /\ UNCHANGED <<tokenVars, delband, userres, voters, staked, refunds, deferred, half>>

(***************************************************************************)
(* The specification. The core token is issued and handed out; signers     *)
(* were made by newaccount (a userres row and no limits yet), the system's *)
(* accounts and createacc are older than the contract (no row, unlimited). *)
(***************************************************************************)
NewAccounts == Signers \ {Creator}

StakeInit ==
    /\ stat = [s \in Symbols |->
                 IF s = CoreSymbol
                 THEN [supply |-> Total(InitialFunds, Accounts),
                       max_supply |-> Total(InitialFunds, Accounts) + 1,
                       issuer |-> Creator]
                 ELSE NoStat]
    /\ balance = [s \in Symbols |->
                    IF s = CoreSymbol THEN InitialFunds ELSE [a \in Accounts |-> 0]]
    /\ row = [s \in Symbols |->
                IF s = CoreSymbol THEN {a \in Accounts : InitialFunds[a] > 0} ELSE {}]
    /\ activity = {}
    /\ delband = [p \in Accounts \X Accounts |-> [net |-> 0, cpu |-> 0]]
    /\ userres = [a \in Accounts |->
                    [row |-> a \in NewAccounts, net |-> 0, cpu |-> 0, mem |-> 0]]
    /\ voters = {}
    /\ staked = [a \in Accounts |-> 0]
    /\ managed = [a \in Accounts |-> {}]
    /\ refunds = [a \in Accounts |-> NoRefund]
    /\ deferred = [a \in Accounts |-> NotScheduled]
    /\ limits = [a \in Accounts |->
                   LET l == IF a \in NewAccounts THEN 0 ELSE Unlimited
                   IN [mem |-> l, net |-> l, cpu |-> l]]
    /\ half \in {0, 1}

\* What holders do with the core token meanwhile.
TokenTraffic ==
    /\ \/ \E a \in Signers, b \in Accounts, q \in Quantities : Transfer(a, b, CoreSymbol, q)
       \/ \E a \in Signers : Close(a, CoreSymbol)
       \/ \E a \in Signers : RegisterProducer(a) \/ UnregisterProducer(a)
    /\ UNCHANGED stakeVars

StakeActions ==
    \E from \in Signers, to \in Receivers, net, cpu \in StakeAmounts :
        \/ \E transfer \in BOOLEAN : Delegatebw(from, to, net, cpu, transfer)
        \/ Undelegatebw(from, to, net, cpu)

ChainActions ==
    \/ \E a \in Accounts : RunDeferred(a) \/ ExpireDeferred(a)
    \/ Tick

LimitActions ==
    \E a \in Receivers :
        \/ \E m, n, c \in LimitValues : SetALimits(a, m, n, c)
        \/ \E r \in ManagedKinds : ResetAcct(a, r) \/ \E v \in LimitValues : SetAcct(a, r, v)

StakeNext ==
    \/ TokenTraffic
    \/ StakeActions
    \/ \E a \in Signers : Refund(a)
    \/ ChainActions
    \/ LimitActions

StakeSpec == StakeInit /\ [][StakeNext]_allVars

(***************************************************************************)
(* Blocks keep coming, and a deferred transaction that is due gets into    *)
(* one of them. Nobody is obliged to sign anything.                        *)
(***************************************************************************)
Fairness == WF_allVars(Tick) /\ \A a \in Accounts : WF_allVars(RunDeferred(a))

FairSpec == StakeSpec /\ Fairness

(***************************************************************************)
(* Properties                                                              *)
(***************************************************************************)
Rows == [row : BOOLEAN, net : Nat, cpu : Nat, mem : Nat]
Values == Nat \cup {Unlimited}

\* Every table holds values of its type; no stake, total or refund is negative
\* ("should never happen" in changebw), and a row that is absent holds nothing.
StakeTypeOK ==
    /\ balance \in [Symbols -> [Accounts -> Nat]]
    /\ row \in [Symbols -> SUBSET Accounts]
    /\ activity \in SUBSET Accounts
    /\ delband \in [Accounts \X Accounts -> [net : Nat, cpu : Nat]]
    /\ userres \in [Accounts -> Rows]
    /\ \A a \in Accounts : ~userres[a].row => userres[a].net + userres[a].cpu + userres[a].mem = 0
    /\ voters \in SUBSET Accounts
    /\ staked \in [Accounts -> Nat]
    /\ managed \in [Accounts -> SUBSET Resources]
    /\ \A a \in Accounts \ voters : staked[a] = 0 /\ managed[a] = {}
    /\ refunds \in [Accounts -> [net : Nat, cpu : Nat, age : 0 .. RefundDelay]]
    /\ deferred \in [Accounts -> NotScheduled .. RefundDelay]
    /\ limits \in [Accounts -> [mem : Values, net : Values, cpu : Values]]
    /\ half \in {0, 1}

DelegatedBy(a) == Total([b \in Accounts |-> Weight(delband[<<a, b>>])], Accounts)
NetFor(b) == Total([a \in Accounts |-> delband[<<a, b>>].net], Accounts)
CpuFor(b) == Total([a \in Accounts |-> delband[<<a, b>>].cpu], Accounts)

\* The same stake is kept in three tables: what an account may vote with is
\* what it has delegated, and what a receiver may use is what it was given,
\* through delegation to others, the transfer flag, and partial withdrawals.
StakeTablesAgree ==
    \A a \in Accounts :
        /\ staked[a] = DelegatedBy(a)
        /\ userres[a].net = NetFor(a)
        /\ userres[a].cpu = CpuFor(a)

\* inery.stake holds at least what is delegated and what is being refunded.
InStake == Total(staked, Accounts) + Total([a \in Accounts |-> Weight(refunds[a])], Accounts)
StakeBacked == balance[CoreSymbol][StakeAccount] >= InStake

\* A refund that is due can be paid: inery.stake has the tokens, its row and no
\* producer lock, and refund fails for no other reason.
RefundPayable ==
    \A a \in Accounts : Due(refunds[a]) => CanRefund(a)

\* The deferred refund and the clock of its row agree: it never runs before the
\* row is due, though delegating to oneself arms it again and leaves the clock.
DeferredNotEarly ==
    \A a \in Accounts :
        (Weight(refunds[a]) > 0 /\ deferred[a] # NotScheduled)
            => deferred[a] + refunds[a].age >= RefundDelay

\* Tokens leave inery.stake only as one whole refund, to its owner, when due.
StakePaysDueRefunds ==
    [][balance'[CoreSymbol][StakeAccount] < balance[CoreSymbol][StakeAccount] =>
         \E a \in Accounts :
            /\ Due(refunds[a]) /\ Weight(refunds'[a]) = 0
            /\ balance'[CoreSymbol] = [balance[CoreSymbol] EXCEPT
                   ![StakeAccount] = @ - Weight(refunds[a]),
                   ![a] = @ + Weight(refunds[a])]]_allVars

\* Withdrawing more starts the clock of the whole refund again.
WithdrawalRestartsClock ==
    [][\A a \in Accounts :
          Weight(refunds'[a]) > Weight(refunds[a]) => refunds'[a].age <= 1]_allVars

\* For an account with a userres row the chain's net and cpu limits are its
\* stake, except where the operator manages them.
LimitsFollowStake ==
    \A a \in Accounts : userres[a].row =>
        /\ "net" \in managed[a] \/ limits[a].net = userres[a].net
        /\ "cpu" \in managed[a] \/ limits[a].cpu = userres[a].cpu

\* No stake action moves a limit that the operator manages.
ManagedLimitsStay ==
    [][\A a \in Accounts : userres'[a] # userres[a] =>
          \A r \in managed[a] : limits'[a][r] = limits[a][r]]_allVars

\* Staking implements the vault: an account's own tokens are free, its stake
\* is locked, its refund is leaving. inery.stake's surplus is its free part.
Safe == INSTANCE Vault WITH
    Holders <- Accounts,
    free    <- [balance[CoreSymbol] EXCEPT ![StakeAccount] = @ - InStake],
    locked  <- staked,
    leaving <- [a \in Accounts |-> Weight(refunds[a])]

ImplementsVault == [][Safe!Next]_(Safe!vars)

\* A scheduled refund is paid in the end, unless its owner's stake changes first:
\* no later block, refund of another or payment takes it back.
RefundArrives ==
    \A a \in Accounts, v \in 0 .. Total(InitialFunds, Accounts) :
        (Weight(refunds[a]) > 0 /\ deferred[a] # NotScheduled /\ staked[a] = v)
            ~> (Weight(refunds[a]) = 0 \/ staked[a] # v)

\* "Unstaked tokens are transferred to `from` liquid balance via a deferred
\* transaction with a delay of 3 days" (undelegatebw in the contract's README):
\* as long as a refund waits, its transaction is scheduled.
RefundScheduled ==
    \A a \in Accounts : Weight(refunds[a]) > 0 => deferred[a] # NotScheduled
=============================================================================

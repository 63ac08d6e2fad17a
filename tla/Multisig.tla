------------------------------- MODULE Multisig -------------------------------
(***************************************************************************)
(* The inery.msig contract. A proposal is named by its proposer and a      *)
(* name. Its approvals are kept in the table approvals2, with their times, *)
(* or, when it is older than that table, in approvals without them; the    *)
(* table invals keeps when an account last took back everything. A         *)
(* proposal that is executed becomes a deferred transaction.               *)
(*                                                                         *)
(* Time is counted in block slots; an expiration is in whole seconds, and  *)
(* so is the time it is compared with. The authority of a transaction is   *)
(* the set of levels that it needs.                                        *)
(*                                                                         *)
(* The requested levels are a list that may name one more than once. Of a  *)
(* list only the order among equal levels matters, since entries are found *)
(* by level: requested levels are counted, and those provided keep, level  *)
(* by level, the times of their approvals in the order of the list.        *)
(***************************************************************************)
EXTENDS Integers, Sequences

CONSTANTS
    Proposers, Names, Transactions, Accounts,
    Levels,         \* permission levels that can be requested
    Actor,          \* level -> the account it belongs to
    Needs,          \* transaction -> levels that authorize it together
    NoTrx,          \* no transaction; also: no hash given
    NoRow,          \* a row that is absent
    Lists,          \* BOUND: requested lists: how often each level is named
    Expirations,    \* BOUND: expirations of proposed transactions
    Legacy,         \* BOUND: proposals that may be older than approvals2
    LastSlot        \* BOUND: the last slot

Ids == Proposers \X Names

\* Rows of approvals, the provided ones with times in T.
Rows(T) == [requested : [Levels -> Nat], provided : [Levels -> Seq(T)]]

ASSUME MultisigAssumption ==
    /\ Proposers \subseteq Accounts
    /\ Actor \in [Levels -> Accounts]
    /\ Needs \in [Transactions -> SUBSET Levels]
    /\ NoTrx \notin Transactions
    /\ NoRow \notin [trx : Transactions, expires : Nat]
    /\ NoRow \notin [requested : [Levels -> Nat], provided : [Levels -> Seq(Int)]]
    /\ Lists \subseteq [Levels -> Nat]
    /\ Expirations \subseteq Nat
    /\ Legacy \subseteq Ids
    /\ LastSlot \in Nat

VARIABLES
    proposal,       \* id -> transaction and expiration
    approvals,      \* id -> levels requested; levels provided, with their slots
    oldApprovals,   \* id -> the same, without times
    invalidated,    \* account -> slot of its last invalidation
    deferred,       \* id -> the transaction that exec sent and that waits
    now,            \* the slot of the current block
    agree           \* id -> levels that approved since they last invalidated and
                    \* did not take back each approval they gave: a history
                    \* variable, in no table and read by no guard

msigVars == <<proposal, approvals, oldApprovals, invalidated, deferred, now, agree>>

Never == -1         \* no invalidation; also: the time of an approval without
Second(slot) == slot \div 2

Has(table, i) == table[i] # NoRow

\* The approvals of a proposal, in whichever table they are.
Row(i) == IF Has(approvals, i) THEN approvals[i] ELSE oldApprovals[i]
ProvidedIn(i) == {level \in Levels : Row(i).provided[level] # <<>>}

\* How often each level is named, requested and provided together.
Named(row) == [level \in Levels |-> row.requested[level] + Len(row.provided[level])]
Expired(i) == proposal[i].expires < Second(now)

(***************************************************************************)
(* The contract's actions                                                  *)
(***************************************************************************)
Propose(i, requested, t, expires) ==
    /\ expires >= Second(now)
    /\ ~Has(proposal, i)
    /\ \A level \in Needs[t] : requested[level] > 0
    /\ proposal' = [proposal EXCEPT ![i] = [trx |-> t, expires |-> expires]]
    /\ approvals' = [approvals EXCEPT ![i] =
          [requested |-> requested, provided |-> [level \in Levels |-> <<>>]]]
    /\ UNCHANGED <<oldApprovals, invalidated, deferred, now, agree>>

\* Fault: the level that takes its approval back is not requested again.
TakenBackForGood(row, level) == [row EXCEPT !.provided[level] = Tail(@)]

\* A row in which one entry of a level moves from the requested to the provided,
\* or its first one back.
Given(row, level, time) ==
    [requested |-> [row.requested EXCEPT ![level] = @ - 1],
     provided  |-> [row.provided EXCEPT ![level] = Append(@, time)]]
TakenBack(row, level) ==
    [requested |-> [row.requested EXCEPT ![level] = @ + 1],
     provided  |-> [row.provided EXCEPT ![level] = Tail(@)]]

\* A hash, when there is one, must be that of the proposed transaction.
HashMatches(i, hash) == hash # NoTrx => Has(proposal, i) /\ proposal[i].trx = hash

Approve(i, level, hash) ==
    /\ HashMatches(i, hash)
    /\ \/ /\ Has(approvals, i)
          /\ approvals[i].requested[level] > 0
          /\ approvals' = [approvals EXCEPT ![i] = Given(@, level, now)]
          /\ UNCHANGED oldApprovals
       \/ /\ ~Has(approvals, i) /\ Has(oldApprovals, i)
          /\ oldApprovals[i].requested[level] > 0
          /\ oldApprovals' = [oldApprovals EXCEPT ![i] = Given(@, level, Never)]
          /\ UNCHANGED approvals
    /\ agree' = [agree EXCEPT ![i] = @ \cup {level}]
    /\ UNCHANGED <<proposal, invalidated, deferred, now>>

Unapprove(i, level) ==
    /\ \/ /\ Has(approvals, i)
          /\ approvals[i].provided[level] # <<>>
          /\ approvals' = [approvals EXCEPT ![i] = TakenBack(@, level)]
          /\ UNCHANGED oldApprovals
       \/ /\ ~Has(approvals, i) /\ Has(oldApprovals, i)
          /\ oldApprovals[i].provided[level] # <<>>
          /\ oldApprovals' = [oldApprovals EXCEPT ![i] = TakenBack(@, level)]
          /\ UNCHANGED approvals
    /\ agree' = [agree EXCEPT ![i] = @ \ ({level} \ ProvidedIn(i)')]
    /\ UNCHANGED <<proposal, invalidated, deferred, now>>

\* Fault: rows of the older table stay.
EraseNewApprovals(i) ==
    /\ UNCHANGED oldApprovals
    /\ approvals' = [approvals EXCEPT ![i] = NoRow]

\* Cancel and exec erase the row of approvals2, or else of the older table.
EraseApprovals(i) ==
    \/ /\ Has(approvals, i)
       /\ approvals' = [approvals EXCEPT ![i] = NoRow]
       /\ UNCHANGED oldApprovals
    \/ /\ ~Has(approvals, i) /\ Has(oldApprovals, i)
       /\ oldApprovals' = [oldApprovals EXCEPT ![i] = NoRow]
       /\ UNCHANGED approvals

Cancel(i, canceler) ==
    /\ Has(proposal, i)
    /\ canceler # i[1] => Expired(i)
    /\ proposal' = [proposal EXCEPT ![i] = NoRow]
    /\ EraseApprovals(i)
    /\ agree' = [agree EXCEPT ![i] = {}]
    /\ UNCHANGED <<invalidated, deferred, now>>

\* Fault: an approval of the slot of the invalidation counts.
CountedSameSlot(i) ==
    {level \in ProvidedIn(i) :
       LET times == Row(i).provided[level]
           last  == invalidated[Actor[level]]
       IN  Has(approvals, i) => \E k \in DOMAIN times : last <= times[k]}

\* The approvals that exec counts: newer than the actor's last invalidation,
\* or without a time, of an actor who never invalidated.
Counted(i) ==
    {level \in ProvidedIn(i) :
       LET times == Row(i).provided[level]
           last  == invalidated[Actor[level]]
       IN  IF Has(approvals, i) THEN \E k \in DOMAIN times : last < times[k]
                                ELSE last = Never}

\* The chain refuses a deferred transaction whose id is taken.
Exec(i) ==
    /\ Has(proposal, i)
    /\ ~Expired(i)
    /\ Needs[proposal[i].trx] \subseteq Counted(i)
    /\ deferred[i] = NoTrx
    /\ EraseApprovals(i)
    /\ deferred' = [deferred EXCEPT ![i] = proposal[i].trx]
    /\ proposal' = [proposal EXCEPT ![i] = NoRow]
    /\ agree' = [agree EXCEPT ![i] = {}]
    /\ UNCHANGED <<invalidated, now>>

\* Fault: the invalidation also covers the next slot.
InvalidateAhead(a) ==
    /\ invalidated' = [invalidated EXCEPT ![a] = now + 1]
    /\ agree' = [i \in Ids |-> {level \in agree[i] : Actor[level] # a}]
    /\ UNCHANGED <<proposal, approvals, oldApprovals, deferred, now>>

Invalidate(a) ==
    /\ invalidated' = [invalidated EXCEPT ![a] = now]
    /\ agree' = [i \in Ids |-> {level \in agree[i] : Actor[level] # a}]
    /\ UNCHANGED <<proposal, approvals, oldApprovals, deferred, now>>

(***************************************************************************)
(* The chain: a deferred transaction runs, fails or expires, once.         *)
(***************************************************************************)
FinishDeferred(i) ==
    /\ deferred[i] # NoTrx
    /\ deferred' = [deferred EXCEPT ![i] = NoTrx]
    /\ UNCHANGED <<proposal, approvals, oldApprovals, invalidated, now, agree>>

Tick ==
    /\ now < LastSlot
    /\ now' = now + 1
    /\ UNCHANGED <<proposal, approvals, oldApprovals, invalidated, deferred, agree>>

(***************************************************************************)
(* The specification. Proposals of the contract's first version may exist, *)
(* with some of their approvals.                                           *)
(***************************************************************************)
Untimed(n) == [k \in 1 .. n |-> Never]

OldRows ==
    {row \in {[requested |-> q, provided |-> [level \in Levels |-> Untimed(p[level])]] :
                 q \in Lists, p \in Lists} :
       Named(row) \in Lists}

MsigInit ==
    /\ proposal \in [Ids -> {NoRow} \cup [trx : Transactions, expires : Expirations]]
    /\ \A i \in Ids : Has(proposal, i) => i \in Legacy
    /\ oldApprovals \in [Ids -> {NoRow} \cup OldRows]
    /\ \A i \in Ids :
          /\ Has(oldApprovals, i) <=> Has(proposal, i)
          /\ Has(proposal, i) =>
                \A level \in Needs[proposal[i].trx] : Named(oldApprovals[i])[level] > 0
    /\ approvals = [i \in Ids |-> NoRow]
    /\ invalidated = [a \in Accounts |-> Never]
    /\ deferred = [i \in Ids |-> NoTrx]
    /\ now = 0
    /\ agree = [i \in Ids |-> IF Has(oldApprovals, i) THEN ProvidedIn(i) ELSE {}]

MsigNext ==
    \/ \E i \in Ids, requested \in Lists, t \in Transactions, e \in Expirations :
          Propose(i, requested, t, e)
    \/ \E i \in Ids, level \in Levels :
          \/ \E hash \in Transactions \cup {NoTrx} : Approve(i, level, hash)
          \/ Unapprove(i, level)
    \/ \E i \in Ids, a \in Accounts : Cancel(i, a)
    \/ \E i \in Ids : Exec(i) \/ FinishDeferred(i)
    \/ \E a \in Accounts : Invalidate(a)
    \/ Tick

MsigSpec == MsigInit /\ [][MsigNext]_msigVars

(***************************************************************************)
(* Properties                                                              *)
(***************************************************************************)
Together(i) ==
    /\ Has(proposal, i) <=> (Has(approvals, i) \/ Has(oldApprovals, i))
    /\ ~(Has(approvals, i) /\ Has(oldApprovals, i))

\* The tables hold values of their types; no approval or invalidation is of a
\* later slot than the current one.
MsigTypeOK ==
    /\ proposal \in [Ids -> {NoRow} \cup [trx : Transactions, expires : Nat]]
    /\ approvals \in [Ids -> {NoRow} \cup Rows(0 .. now)]
    /\ oldApprovals \in [Ids -> {NoRow} \cup Rows({Never})]
    /\ invalidated \in [Accounts -> Never .. now]
    /\ deferred \in [Ids -> Transactions \cup {NoTrx}]
    /\ now \in Nat
    /\ agree \in [Ids -> SUBSET Levels]

\* The tables of one proposal stay together: it has a row of approvals in just
\* one of the two tables, so it can always be cancelled or executed, and a new
\* proposal of the same name never meets the approvals of the one before.
RowsMatch == \A i \in Ids : Together(i)

\* However often levels approve and take it back, in either table, while accounts
\* invalidate what they approved, each level stays named as often as propose named
\* it: none that is needed gets lost, and none gains an approval. (So approve and
\* unapprove do not change the size of a row, as the header says.)
NoLevelLost ==
    [][\A i \in Ids : Has(proposal, i) /\ proposal'[i] = proposal[i]
                        => Named(Row(i))' = Named(Row(i))]_msigVars

\* The header says that unapprove erases the level from the provided approvals and
\* so revokes. It erases one approval: a level that a list names twice may have
\* another one there. MultisigProofs shows it for lists that name no level twice.
UnapproveRevokes ==
    [][\A i \in Ids, level \in Levels : Unapprove(i, level) => level \notin ProvidedIn(i)']_msigVars

\* A multisignature is consent: a transaction is sent only while everybody it
\* needs agrees to it, whatever was approved before under the same name. Who has
\* approved agrees until he takes back his approvals (as many as he gave: one, if
\* the list names his level once), or all at once by invalidate.
Agreement == INSTANCE Consent WITH
    Slots   <- Ids,
    Holders <- Levels,
    Nothing <- NoTrx,
    open    <- [i \in Ids |-> IF Has(proposal, i) THEN proposal[i].trx ELSE NoTrx],
    agreed  <- agree,
    queued  <- deferred

ImplementsConsent == Agreement!Spec
===============================================================================

---------------------------- MODULE MultisigProofs ----------------------------
(***************************************************************************)
(* Proofs about Multisig for any proposers, levels and transactions: the   *)
(* tables of a proposal stay together, no level is lost however often a     *)
(* list names it, and the contract implements Consent.                     *)
(***************************************************************************)
EXTENDS Multisig, SequenceTheorems, TLAPS

(***************************************************************************)
(* The inductive invariant. An approval that exec counts was given and not *)
(* taken back since. That needs that no approval is of a later slot than   *)
(* the current one, or an invalidation would miss one. What a row names is *)
(* what was proposed.                                                      *)
(***************************************************************************)
Listed(i) == Has(proposal, i) => Named(Row(i)) \in Lists
CountedAgree(i) == Has(proposal, i) => Counted(i) \subseteq agree[i]

Consistent(i) ==
    /\ Together(i)
    /\ Listed(i)
    /\ CountedAgree(i)

MsigInv == MsigTypeOK /\ \A i \in Ids : Consistent(i)

(***************************************************************************)
(* Rows. A row is never taken for an absent one.                           *)
(***************************************************************************)
LEMMA MoreTimes ==
    ASSUME NEW T, NEW U, T \subseteq U
    PROVE  Rows(T) \subseteq Rows(U)
<1>1. Seq(T) \subseteq Seq(U)
  OBVIOUS
<1> QED
  BY <1>1 DEF Rows

LEMMA RowIsRow ==
    ASSUME NEW T, T \subseteq Int, NEW row \in Rows(T)
    PROVE  row # NoRow
<1>1. row \in Rows(Int)
  BY MoreTimes
<1> QED
  BY <1>1, MultisigAssumption DEF Rows

\* Giving and taking back move one entry of one level.
LEMMA GivenRow ==
    ASSUME NEW T, NEW row \in Rows(T), NEW level \in Levels, NEW time \in T,
           row.requested[level] > 0
    PROVE  LET new == Given(row, level, time) IN
           /\ new \in Rows(T)
           /\ Named(new) = Named(row)
           /\ new.provided[level] = Append(row.provided[level], time)
           /\ \A l \in Levels \ {level} : new.provided[l] = row.provided[l]
<1> DEFINE new == Given(row, level, time)
<1>1. /\ new.requested = [row.requested EXCEPT ![level] = @ - 1]
      /\ new.provided = [row.provided EXCEPT ![level] = Append(@, time)]
  BY DEF Given, Rows
<1>2. new \in Rows(T)
  BY DEF Given, Rows
<1>3. ASSUME NEW l \in Levels
      PROVE  new.requested[l] + Len(new.provided[l]) = row.requested[l] + Len(row.provided[l])
  <2>1. Len(Append(row.provided[level], time)) = Len(row.provided[level]) + 1
    BY DEF Rows
  <2> QED
    BY <1>1, <2>1 DEF Rows
<1> HIDE DEF new
<1>4. Named(new) = Named(row)
  BY <1>3 DEF Named
<1> QED
  BY <1>1, <1>2, <1>4 DEF new, Rows

LEMMA TakenBackRow ==
    ASSUME NEW T, NEW row \in Rows(T), NEW level \in Levels, row.provided[level] # <<>>
    PROVE  LET new == TakenBack(row, level) IN
           /\ new \in Rows(T)
           /\ Named(new) = Named(row)
           /\ new.provided[level] = Tail(row.provided[level])
           /\ \A l \in Levels \ {level} : new.provided[l] = row.provided[l]
<1> DEFINE new == TakenBack(row, level)
           s == row.provided[level]
<1>1. /\ new.requested = [row.requested EXCEPT ![level] = @ + 1]
      /\ new.provided = [row.provided EXCEPT ![level] = Tail(@)]
  BY DEF TakenBack, Rows
<1>2. s \in Seq(T) /\ Tail(s) \in Seq(T) /\ Len(Tail(s)) = Len(s) - 1 /\ Len(s) \in Nat
  BY DEF Rows
<1>3. new \in Rows(T)
  BY <1>2 DEF TakenBack, Rows
<1>4. ASSUME NEW l \in Levels
      PROVE  new.requested[l] + Len(new.provided[l]) = row.requested[l] + Len(row.provided[l])
  BY <1>1, <1>2 DEF Rows
<1> HIDE DEF new, s
<1>5. Named(new) = Named(row)
  BY <1>4 DEF Named
<1> QED
  BY <1>1, <1>3, <1>5 DEF new, Rows

LEMMA ProposalIsRow ==
    ASSUME NEW t \in Transactions, NEW e \in Nat
    PROVE  [trx |-> t, expires |-> e] # NoRow
<1>1. [trx |-> t, expires |-> e] \in [trx : Transactions, expires : Nat]
  OBVIOUS
<1> QED
  BY <1>1, MultisigAssumption

LEMMA TypedRows ==
    ASSUME MsigTypeOK, NEW i \in Ids
    PROVE  /\ Has(proposal, i) => proposal[i] \in [trx : Transactions, expires : Nat]
           /\ Has(approvals, i) => approvals[i] \in Rows(0 .. now)
           /\ Has(oldApprovals, i) => oldApprovals[i] \in Rows({Never})
BY DEF MsigTypeOK, Has

(***************************************************************************)
(* What a step leaves alone stays consistent, whatever time it is.         *)
(***************************************************************************)
LEMMA Frame ==
    ASSUME MsigTypeOK, NEW i \in Ids, Consistent(i), MsigTypeOK',
           proposal'[i] = proposal[i], approvals'[i] = approvals[i],
           oldApprovals'[i] = oldApprovals[i], agree'[i] = agree[i],
           invalidated' = invalidated
    PROVE  Consistent(i)'
<1>1. Row(i)' = Row(i) /\ (Has(proposal, i)' <=> Has(proposal, i))
      /\ (Has(approvals, i)' <=> Has(approvals, i))
      /\ (Has(oldApprovals, i)' <=> Has(oldApprovals, i))
  BY DEF Row, Has
<1>2. Counted(i)' = Counted(i)
  BY <1>1 DEF Counted, ProvidedIn
<1> QED
  BY <1>1, <1>2 DEF Consistent, Together, Listed, CountedAgree

(***************************************************************************)
(* The initial states.                                                     *)
(***************************************************************************)
LEMMA OldRowsTyped == OldRows \subseteq Rows({Never})
<1>1. ASSUME NEW q \in Lists, NEW p \in Lists
      PROVE  [requested |-> q, provided |-> [level \in Levels |-> Untimed(p[level])]]
               \in Rows({Never})
  <2>1. q \in [Levels -> Nat] /\ p \in [Levels -> Nat]
    BY MultisigAssumption
  <2>2. ASSUME NEW n \in Nat PROVE Untimed(n) \in Seq({Never})
    BY DEF Untimed
  <2> QED
    BY <2>1, <2>2 DEF Rows
<1> QED
  BY <1>1 DEF OldRows

LEMMA InitInv == MsigInit => MsigInv
<1> SUFFICES ASSUME MsigInit PROVE MsigInv
  OBVIOUS
<1> USE MultisigAssumption
<1>1. oldApprovals \in [Ids -> {NoRow} \cup Rows({Never})]
  BY OldRowsTyped DEF MsigInit
<1>2. proposal \in [Ids -> {NoRow} \cup [trx : Transactions, expires : Nat]]
  BY DEF MsigInit
<1>3. agree \in [Ids -> SUBSET Levels]
  BY DEF MsigInit, ProvidedIn
<1>4. MsigTypeOK
  BY <1>1, <1>2, <1>3 DEF MsigInit, MsigTypeOK, Never
<1>5. ASSUME NEW i \in Ids PROVE Consistent(i)
  <2>1. ~Has(approvals, i)
    BY DEF MsigInit, Has
  <2>2. Together(i)
    BY <2>1 DEF MsigInit, Together
  <2>3. Listed(i)
    <3> SUFFICES ASSUME Has(proposal, i) PROVE Named(oldApprovals[i]) \in Lists
      BY <2>1 DEF Listed, Row
    <3>1. oldApprovals[i] \in OldRows
      BY DEF MsigInit, Has
    <3> QED
      BY <3>1 DEF OldRows
  <2>4. CountedAgree(i)
    BY <2>1 DEF MsigInit, CountedAgree, Counted
  <2> QED
    BY <2>2, <2>3, <2>4 DEF Consistent
<1> QED
  BY <1>4, <1>5 DEF MsigInv

(***************************************************************************)
(* Type correctness: a step at a time.                                     *)
(***************************************************************************)
LEMMA ApproveTypes ==
    ASSUME MsigTypeOK, NEW i \in Ids, NEW level \in Levels, NEW hash, Approve(i, level, hash)
    PROVE  MsigTypeOK'
<1> USE DEF MsigTypeOK
<1>1. CASE /\ Has(approvals, i) /\ approvals[i].requested[level] > 0 /\ UNCHANGED oldApprovals
           /\ approvals' = [approvals EXCEPT ![i] = Given(@, level, now)]
  <2>1. Given(approvals[i], level, now) \in Rows(0 .. now)
    <3>1. approvals[i] \in Rows(0 .. now) /\ now \in 0 .. now
      BY <1>1 DEF Has
    <3> QED
      BY <1>1, <3>1, GivenRow
  <2> QED
    BY <1>1, <2>1 DEF Approve
<1>2. CASE /\ Has(oldApprovals, i) /\ oldApprovals[i].requested[level] > 0 /\ UNCHANGED approvals
           /\ oldApprovals' = [oldApprovals EXCEPT ![i] = Given(@, level, Never)]
  <2>1. Given(oldApprovals[i], level, Never) \in Rows({Never})
    BY <1>2, TypedRows, GivenRow
  <2> QED
    BY <1>2, <2>1 DEF Approve
<1> QED
  BY <1>1, <1>2 DEF Approve

LEMMA UnapproveTypes ==
    ASSUME MsigTypeOK, NEW i \in Ids, NEW level \in Levels, Unapprove(i, level)
    PROVE  MsigTypeOK'
<1> USE DEF MsigTypeOK
<1>1. CASE /\ Has(approvals, i) /\ approvals[i].provided[level] # <<>> /\ UNCHANGED oldApprovals
           /\ approvals' = [approvals EXCEPT ![i] = TakenBack(@, level)]
  <2>1. TakenBack(approvals[i], level) \in Rows(0 .. now)
    BY <1>1, TypedRows, TakenBackRow
  <2> QED
    BY <1>1, <2>1 DEF Unapprove
<1>2. CASE /\ Has(oldApprovals, i) /\ oldApprovals[i].provided[level] # <<>> /\ UNCHANGED approvals
           /\ oldApprovals' = [oldApprovals EXCEPT ![i] = TakenBack(@, level)]
  <2>1. TakenBack(oldApprovals[i], level) \in Rows({Never})
    BY <1>2, TypedRows, TakenBackRow
  <2> QED
    BY <1>2, <2>1 DEF Unapprove
<1> QED
  BY <1>1, <1>2 DEF Unapprove

LEMMA TypesStep ==
    ASSUME MsigTypeOK, [MsigNext]_msigVars
    PROVE  MsigTypeOK'
<1> USE MultisigAssumption
<1>1. ASSUME NEW i \in Ids, NEW requested \in Lists, NEW t \in Transactions,
             NEW e \in Expirations, Propose(i, requested, t, e)
      PROVE  MsigTypeOK'
  <2>1. [requested |-> requested, provided |-> [level \in Levels |-> <<>>]] \in Rows(0 .. now)
    BY DEF Rows
  <2> QED
    BY <1>1, <2>1 DEF MsigTypeOK, Propose
<1>2. ASSUME NEW i \in Ids, NEW a \in Accounts, Cancel(i, a)
      PROVE  MsigTypeOK'
  BY <1>2 DEF MsigTypeOK, Cancel, EraseApprovals
<1>3. ASSUME NEW i \in Ids, Exec(i)
      PROVE  MsigTypeOK'
  BY <1>3 DEF MsigTypeOK, Exec, EraseApprovals, Has
<1>4. ASSUME NEW i \in Ids, FinishDeferred(i)
      PROVE  MsigTypeOK'
  BY <1>4 DEF MsigTypeOK, FinishDeferred
<1>5. ASSUME NEW a \in Accounts, Invalidate(a)
      PROVE  MsigTypeOK'
  BY <1>5 DEF MsigTypeOK, Invalidate, Never
<1>6. CASE Tick
  <2>1. now' \in Nat /\ 0 .. now \subseteq 0 .. now' /\ Never .. now \subseteq Never .. now'
    BY <1>6 DEF MsigTypeOK, Tick, Never
  <2>2. Rows(0 .. now) \subseteq Rows(0 .. now')
    BY <2>1, MoreTimes
  <2>4. approvals' \in [Ids -> {NoRow} \cup Rows(0 .. now')]
    BY <1>6, <2>2 DEF MsigTypeOK, Tick
  <2>5. invalidated' \in [Accounts -> Never .. now']
    BY <1>6, <2>1 DEF MsigTypeOK, Tick
  <2> QED
    BY <1>6, <2>1, <2>4, <2>5 DEF MsigTypeOK, Tick
<1>7. CASE UNCHANGED msigVars
  BY <1>7 DEF MsigTypeOK, msigVars
<1> QED
  BY <1>1, <1>2, <1>3, <1>4, <1>5, <1>6, <1>7, ApproveTypes, UnapproveTypes DEF MsigNext

(***************************************************************************)
(* Consistency: a lemma per action that writes rows.                       *)
(***************************************************************************)
\* Every other proposal is framed: only the one acted on is to be looked at.
LEMMA OneChanges ==
    ASSUME MsigInv, MsigTypeOK', NEW i \in Ids, Consistent(i)', invalidated' = invalidated,
           \A j \in Ids \ {i} : /\ proposal'[j] = proposal[j]
                               /\ approvals'[j] = approvals[j]
                               /\ oldApprovals'[j] = oldApprovals[j]
                               /\ agree'[j] = agree[j]
    PROVE  MsigInv'
<1>1. ASSUME NEW j \in Ids PROVE Consistent(j)'
  <2>1. CASE j = i
    BY <2>1
  <2>2. CASE j # i
    BY <2>2, Frame DEF MsigInv
  <2> QED
    BY <2>1, <2>2
<1> QED
  BY <1>1 DEF MsigInv

LEMMA ProposeInv ==
    ASSUME MsigInv, MsigTypeOK', NEW i \in Ids, NEW requested \in Lists,
           NEW t \in Transactions, NEW e \in Expirations, Propose(i, requested, t, e)
    PROVE  MsigInv'
<1> DEFINE row == [requested |-> requested, provided |-> [level \in Levels |-> <<>>]]
<1> USE MultisigAssumption
<1>1. proposal'[i] = [trx |-> t, expires |-> e] /\ approvals'[i] = row
      /\ oldApprovals'[i] = oldApprovals[i] /\ ~Has(proposal, i)
  BY DEF Propose, MsigInv, MsigTypeOK
<1>2. Has(proposal, i)'
  BY <1>1, ProposalIsRow DEF Has
<1>3. Has(approvals, i)'
  <2>1. row \in Rows(Int)
    BY DEF Rows
  <2> QED
    BY <1>1, <2>1, RowIsRow DEF Has
<1>4. ~Has(oldApprovals, i)'
  BY <1>1 DEF MsigInv, Consistent, Together, Has
<1>5. Together(i)'
  BY <1>2, <1>3, <1>4 DEF Together
<1>6. Row(i)' = row
  BY <1>1, <1>3 DEF Row
<1>7. Listed(i)'
  <2>1. Named(row) = requested
    BY DEF Named
  <2> QED
    BY <1>6, <2>1 DEF Listed
<1>8. CountedAgree(i)'
  BY <1>6 DEF CountedAgree, Counted, ProvidedIn
<1>9. Consistent(i)'
  BY <1>5, <1>7, <1>8 DEF Consistent
<1> QED
  BY <1>9, OneChanges DEF Propose, MsigInv, MsigTypeOK

\* Approve and unapprove leave a proposal in its tables, and move one entry.
LEMMA Approved ==
    ASSUME MsigTypeOK, MsigTypeOK', NEW i \in Ids, NEW level \in Levels, NEW hash,
           Approve(i, level, hash)
    PROVE  /\ Has(approvals, i)' <=> Has(approvals, i)
           /\ Has(oldApprovals, i)' <=> Has(oldApprovals, i)
           /\ Named(Row(i)') = Named(Row(i))
           /\ \A l \in Levels \ {level} : Row(i)'.provided[l] = Row(i).provided[l]
<1>1. CASE /\ Has(approvals, i) /\ approvals[i].requested[level] > 0 /\ UNCHANGED oldApprovals
           /\ approvals' = [approvals EXCEPT ![i] = Given(@, level, now)]
  <2>0. now \in Nat
    BY DEF MsigTypeOK
  <2>1. approvals[i] \in Rows(0 .. now) /\ now \in 0 .. now
    BY <1>1, <2>0, TypedRows
  <2>2. approvals'[i] = Given(approvals[i], level, now) /\ 0 .. now \subseteq Int
    BY <1>1 DEF MsigTypeOK
  <2>3. approvals'[i] \in Rows(0 .. now)
    BY <1>1, <2>1, <2>2, GivenRow
  <2>4. Has(approvals, i)'
    BY <2>2, <2>3, RowIsRow DEF Has
  <2>5. Row(i)' = Given(Row(i), level, now) /\ Row(i) = approvals[i]
    BY <1>1, <2>2, <2>4 DEF Row
  <2> QED
    BY <1>1, <2>1, <2>4, <2>5, GivenRow DEF Has
<1>2. CASE /\ ~Has(approvals, i) /\ Has(oldApprovals, i)
           /\ oldApprovals[i].requested[level] > 0 /\ UNCHANGED approvals
           /\ oldApprovals' = [oldApprovals EXCEPT ![i] = Given(@, level, Never)]
  <2>1. oldApprovals[i] \in Rows({Never}) /\ {Never} \subseteq Int
    BY <1>2, TypedRows DEF Never
  <2>2. oldApprovals'[i] = Given(oldApprovals[i], level, Never)
    BY <1>2 DEF MsigTypeOK
  <2>3. oldApprovals'[i] \in Rows({Never})
    BY <1>2, <2>1, <2>2, GivenRow
  <2>4. Has(oldApprovals, i)' /\ ~Has(approvals, i)'
    BY <1>2, <2>1, <2>3, RowIsRow DEF Has
  <2>5. Row(i)' = Given(Row(i), level, Never) /\ Row(i) = oldApprovals[i]
    BY <1>2, <2>2, <2>4 DEF Row
  <2> QED
    BY <1>2, <2>1, <2>4, <2>5, GivenRow
<1> QED
  BY <1>1, <1>2 DEF Approve

LEMMA Unapproved ==
    ASSUME MsigTypeOK, MsigTypeOK', NEW i \in Ids, NEW level \in Levels, Unapprove(i, level)
    PROVE  /\ Has(approvals, i)' <=> Has(approvals, i)
           /\ Has(oldApprovals, i)' <=> Has(oldApprovals, i)
           /\ Named(Row(i)') = Named(Row(i))
           /\ Row(i).provided[level] \in Seq(Int) \ {<<>>}
           /\ Row(i)'.provided[level] = Tail(Row(i).provided[level])
           /\ \A l \in Levels \ {level} : Row(i)'.provided[l] = Row(i).provided[l]
           /\ Row(i) \in Rows(Int)
<1>1. CASE /\ Has(approvals, i) /\ approvals[i].provided[level] # <<>> /\ UNCHANGED oldApprovals
           /\ approvals' = [approvals EXCEPT ![i] = TakenBack(@, level)]
  <2>1. approvals[i] \in Rows(Int)
    <3>1. 0 .. now \subseteq Int
      OBVIOUS
    <3> QED
      BY <1>1, <3>1, TypedRows, MoreTimes
  <2>2. approvals'[i] = TakenBack(approvals[i], level)
    BY <1>1 DEF MsigTypeOK
  <2>3. approvals'[i] \in Rows(Int)
    BY <1>1, <2>1, <2>2, TakenBackRow
  <2>4. Has(approvals, i)'
    BY <2>2, <2>3, RowIsRow DEF Has
  <2>5. Row(i)' = TakenBack(Row(i), level) /\ Row(i) = approvals[i]
    BY <1>1, <2>2, <2>4 DEF Row
  <2>6. approvals[i].provided[level] \in Seq(Int)
    BY <2>1 DEF Rows
  <2> QED
    BY <1>1, <2>1, <2>4, <2>5, <2>6, TakenBackRow DEF Has
<1>2. CASE /\ ~Has(approvals, i) /\ Has(oldApprovals, i)
           /\ oldApprovals[i].provided[level] # <<>> /\ UNCHANGED approvals
           /\ oldApprovals' = [oldApprovals EXCEPT ![i] = TakenBack(@, level)]
  <2>1. oldApprovals[i] \in Rows(Int)
    <3>1. {Never} \subseteq Int
      BY DEF Never
    <3> QED
      BY <1>2, <3>1, TypedRows, MoreTimes
  <2>2. oldApprovals'[i] = TakenBack(oldApprovals[i], level)
    BY <1>2 DEF MsigTypeOK
  <2>3. oldApprovals'[i] \in Rows(Int)
    BY <1>2, <2>1, <2>2, TakenBackRow
  <2>4. Has(oldApprovals, i)' /\ ~Has(approvals, i)'
    BY <1>2, <2>3, RowIsRow DEF Has
  <2>5. Row(i)' = TakenBack(Row(i), level) /\ Row(i) = oldApprovals[i]
    BY <1>2, <2>2, <2>4 DEF Row
  <2>6. oldApprovals[i].provided[level] \in Seq(Int)
    BY <2>1 DEF Rows
  <2> QED
    BY <1>2, <2>1, <2>4, <2>5, <2>6, TakenBackRow
<1> QED
  BY <1>1, <1>2 DEF Unapprove

LEMMA ApproveInv ==
    ASSUME MsigInv, MsigTypeOK', NEW i \in Ids, NEW level \in Levels, NEW hash,
           Approve(i, level, hash)
    PROVE  MsigInv'
<1>1. Consistent(i) /\ MsigTypeOK
  BY DEF MsigInv
<1>2. proposal' = proposal /\ agree'[i] = agree[i] \cup {level} /\ invalidated' = invalidated
  BY <1>1 DEF Approve, MsigTypeOK
<1>3. /\ Has(approvals, i)' <=> Has(approvals, i)
      /\ Has(oldApprovals, i)' <=> Has(oldApprovals, i)
      /\ Named(Row(i)') = Named(Row(i))
      /\ \A l \in Levels \ {level} : Row(i)'.provided[l] = Row(i).provided[l]
  BY <1>1, Approved
<1>4. Together(i)'
  BY <1>1, <1>2, <1>3 DEF Consistent, Together, Has
<1>5. Listed(i)'
  BY <1>1, <1>2, <1>3 DEF Consistent, Listed, Has
<1>6. Counted(i)' \subseteq Counted(i) \cup {level}
  BY <1>2, <1>3 DEF Counted, ProvidedIn
<1>7. Consistent(i)'
  BY <1>1, <1>2, <1>4, <1>5, <1>6 DEF Consistent, CountedAgree, Has
<1> QED
  BY <1>7, OneChanges DEF Approve, MsigInv, MsigTypeOK

LEMMA UnapproveInv ==
    ASSUME MsigInv, MsigTypeOK', NEW i \in Ids, NEW level \in Levels, Unapprove(i, level)
    PROVE  MsigInv'
<1>1. Consistent(i) /\ MsigTypeOK
  BY DEF MsigInv
<1>2. /\ proposal' = proposal /\ invalidated' = invalidated
      /\ agree'[i] = agree[i] \ ({level} \ ProvidedIn(i)')
  BY <1>1 DEF Unapprove, MsigTypeOK
<1>3. /\ Has(approvals, i)' <=> Has(approvals, i)
      /\ Has(oldApprovals, i)' <=> Has(oldApprovals, i)
      /\ Named(Row(i)') = Named(Row(i))
      /\ Row(i).provided[level] \in Seq(Int) \ {<<>>}
      /\ Row(i)'.provided[level] = Tail(Row(i).provided[level])
      /\ \A l \in Levels \ {level} : Row(i)'.provided[l] = Row(i).provided[l]
  BY <1>1, Unapproved
<1>4. Together(i)'
  BY <1>1, <1>2, <1>3 DEF Consistent, Together, Has
<1>5. Listed(i)'
  BY <1>1, <1>2, <1>3 DEF Consistent, Listed, Has
<1>6. ASSUME NEW l \in Counted(i)' PROVE l \in Counted(i)
  <2>1. CASE l # level
    BY <1>2, <1>3, <1>6, <2>1 DEF Counted, ProvidedIn
  \* What is left of the level was provided before, too.
  <2>2. CASE l = level
    <3> DEFINE times == Row(i).provided[level]
           last == invalidated[Actor[level]]
    <3>1. \A k \in DOMAIN Tail(times) : k + 1 \in DOMAIN times /\ Tail(times)[k] = times[k + 1]
      <4>1. times \in Seq(Int) /\ times # <<>>
        BY <1>3
      <4> HIDE DEF times
      <4> QED
        BY <4>1
    <3>2. level \in ProvidedIn(i)
      BY <1>3 DEF ProvidedIn
    <3>3. Row(i)'.provided[level] = Tail(times)
      BY <1>3
    <3>4. CASE Has(approvals, i)
      <4>1. PICK k \in DOMAIN Tail(times) : last < Tail(times)[k]
        BY <1>2, <1>3, <1>6, <2>2, <3>3, <3>4 DEF Counted
      <4>2. \E j \in DOMAIN times : last < times[j]
        BY <3>1, <4>1
      <4> QED
        BY <2>2, <3>2, <3>4, <4>2 DEF Counted
    <3>5. CASE ~Has(approvals, i)
      BY <1>2, <1>3, <1>6, <2>2, <3>2, <3>5 DEF Counted
    <3> QED
      BY <3>4, <3>5
  <2> QED
    BY <2>1, <2>2
<1>7. Counted(i)' \subseteq ProvidedIn(i)'
  BY DEF Counted
<1>8. CountedAgree(i)'
  BY <1>1, <1>2, <1>6, <1>7 DEF Consistent, CountedAgree, Has
<1>9. Consistent(i)'
  BY <1>4, <1>5, <1>8 DEF Consistent
<1> QED
  BY <1>9, OneChanges DEF Unapprove, MsigInv, MsigTypeOK

LEMMA EraseInv ==
    ASSUME MsigInv, MsigTypeOK', NEW i \in Ids, EraseApprovals(i), Has(proposal, i),
           proposal' = [proposal EXCEPT ![i] = NoRow],
           agree' = [agree EXCEPT ![i] = {}],
           invalidated' = invalidated
    PROVE  MsigInv'
<1>1. Together(i)
  BY DEF MsigInv, Consistent
<1>2. ~Has(proposal, i)'
  BY DEF MsigInv, MsigTypeOK, Has
<1>3. ~Has(approvals, i)' /\ ~Has(oldApprovals, i)'
  BY <1>1 DEF EraseApprovals, Together, Has, MsigInv, MsigTypeOK
<1>4. Consistent(i)'
  BY <1>2, <1>3 DEF Consistent, Together, Listed, CountedAgree
<1> QED
  BY <1>4, OneChanges DEF EraseApprovals, MsigInv, MsigTypeOK

LEMMA InvalidateInv ==
    ASSUME MsigInv, MsigTypeOK', NEW a \in Accounts, Invalidate(a)
    PROVE  MsigInv'
<1> SUFFICES ASSUME NEW i \in Ids PROVE Consistent(i)'
  BY DEF MsigInv
<1> USE MultisigAssumption
<1>1. Consistent(i) /\ MsigTypeOK
  BY DEF MsigInv
<1>2. /\ Row(i)' = Row(i) /\ ProvidedIn(i)' = ProvidedIn(i)
      /\ Has(proposal, i)' <=> Has(proposal, i)
      /\ Has(approvals, i)' <=> Has(approvals, i)
      /\ Has(oldApprovals, i)' <=> Has(oldApprovals, i)
  BY DEF Invalidate, Row, ProvidedIn, Has
<1>3. now \in Nat /\ invalidated'[a] = now
      /\ \A b \in Accounts : b # a => invalidated'[b] = invalidated[b]
  BY <1>1 DEF Invalidate, MsigTypeOK
<1>4. ASSUME Has(proposal, i), NEW level \in Counted(i)'
      PROVE  level \in Counted(i) /\ Actor[level] # a
  <2>1. level \in ProvidedIn(i) /\ level \in Levels /\ Actor[level] \in Accounts
    BY <1>2 DEF Counted, ProvidedIn
  <2>2. CASE Has(approvals, i)
    <3>1. Row(i).provided[level] \in Seq(0 .. now)
      BY <1>1, <2>1, <2>2, TypedRows DEF Row, Rows
    <3>2. PICK k \in DOMAIN Row(i).provided[level] :
            invalidated'[Actor[level]] < Row(i).provided[level][k]
      BY <1>2, <1>4, <2>2 DEF Counted
    <3>3. Row(i).provided[level][k] \in 0 .. now
      <4>1. ASSUME NEW T, NEW s \in Seq(T), NEW j \in DOMAIN s PROVE s[j] \in T
        BY <4>1
      <4> QED
        BY <3>1, <3>2, <4>1
    \* No slot is after now, so the account that invalidates now is another.
    <3>4. Actor[level] # a
      BY <1>3, <3>2, <3>3
    <3> QED
      BY <1>3, <2>1, <2>2, <3>2, <3>4 DEF Counted
  <2>3. CASE ~Has(approvals, i)
    <3>1. invalidated'[Actor[level]] = Never
      BY <1>2, <1>4, <2>3 DEF Counted
    <3>2. Actor[level] # a
      BY <1>3, <3>1 DEF Never
    <3> QED
      BY <1>3, <2>1, <2>3, <3>1, <3>2 DEF Counted
  <2> QED
    BY <2>2, <2>3
<1>5. agree'[i] = {level \in agree[i] : Actor[level] # a}
  BY DEF Invalidate
<1>6. CountedAgree(i)'
  BY <1>1, <1>2, <1>4, <1>5 DEF CountedAgree, Consistent
<1> QED
  BY <1>1, <1>2, <1>6 DEF Consistent, Together, Listed

LEMMA StepInv ==
    ASSUME MsigInv, [MsigNext]_msigVars
    PROVE  MsigInv'
<1>1. MsigTypeOK'
  BY TypesStep DEF MsigInv
<1>2. ASSUME NEW i \in Ids, NEW a \in Accounts, Cancel(i, a)
      PROVE  MsigInv'
  BY <1>1, <1>2, EraseInv DEF Cancel
<1>3. ASSUME NEW i \in Ids, Exec(i)
      PROVE  MsigInv'
  BY <1>1, <1>3, EraseInv DEF Exec
<1>4. ASSUME UNCHANGED <<proposal, approvals, oldApprovals, invalidated, agree>>
      PROVE  MsigInv'
  BY <1>1, <1>4, Frame DEF MsigInv
<1>5. ASSUME NEW i \in Ids, FinishDeferred(i)
      PROVE  MsigInv'
  BY <1>4, <1>5 DEF FinishDeferred
<1>6. CASE Tick
  BY <1>4, <1>6 DEF Tick
<1>7. CASE UNCHANGED msigVars
  BY <1>4, <1>7 DEF msigVars
<1> QED
  BY <1>1, <1>2, <1>3, <1>5, <1>6, <1>7, ProposeInv, ApproveInv, UnapproveInv, InvalidateInv
     DEF MsigNext

\* The inductive invariant holds in every reachable state.
THEOREM MsigInvariant == MsigSpec => []MsigInv
<1> QED
  BY InitInv, StepInv, PTL DEF MsigSpec

(***************************************************************************)
(* The theorems.                                                           *)
(***************************************************************************)
\* The tables of inery.msig are well typed, no time of them in the future.
THEOREM MultisigTypes == MsigSpec => []MsigTypeOK
<1>1. MsigInv => MsigTypeOK
  BY DEF MsigInv
<1> QED
  BY <1>1, MsigInvariant, PTL

\* A proposal has approvals in exactly one of the two tables, and rows of
\* approvals never outlive it through cancel and exec.
THEOREM MultisigRowsMatch == MsigSpec => []RowsMatch
<1>1. MsigInv => RowsMatch
  BY DEF MsigInv, Consistent, RowsMatch
<1> QED
  BY <1>1, MsigInvariant, PTL

\* A list keeps naming its levels as often as it was proposed with, however often
\* they approve and take it back, in the new table and in the old one.
THEOREM MultisigKeepsLevels == MsigSpec => NoLevelLost
<1> DEFINE Kept == \A i \in Ids : Has(proposal, i) /\ proposal'[i] = proposal[i]
                                 => Named(Row(i))' = Named(Row(i))
<1>1. MsigInv /\ [MsigNext]_msigVars => Kept
  <2> SUFFICES ASSUME MsigInv, [MsigNext]_msigVars, NEW i \in Ids, Has(proposal, i),
                      proposal'[i] = proposal[i]
               PROVE  Named(Row(i)') = Named(Row(i))
    BY DEF Named, Row
  <2>1. MsigTypeOK /\ MsigTypeOK'
    BY TypesStep DEF MsigInv
  <2>2. CASE approvals'[i] = approvals[i] /\ oldApprovals'[i] = oldApprovals[i]
    BY <2>2 DEF Row, Has
  <2>3. ASSUME NEW j \in Ids, proposal' = [proposal EXCEPT ![j] = NoRow], EraseApprovals(j)
        PROVE  Named(Row(i)') = Named(Row(i))
    <3>1. i # j
      BY <2>1, <2>3 DEF MsigTypeOK, Has
    <3> QED
      BY <2>1, <2>2, <2>3, <3>1 DEF EraseApprovals, MsigTypeOK
  <2>4. ASSUME NEW j \in Ids, NEW requested \in Lists, NEW t \in Transactions,
               NEW e \in Expirations, Propose(j, requested, t, e)
        PROVE  Named(Row(i)') = Named(Row(i))
    BY <2>1, <2>2, <2>4 DEF Propose, MsigTypeOK
  <2>5. ASSUME NEW j \in Ids, NEW level \in Levels, NEW hash, Approve(j, level, hash)
        PROVE  Named(Row(i)') = Named(Row(i))
    <3>1. CASE i = j
      BY <2>1, <2>5, <3>1, Approved
    <3>2. CASE i # j
      BY <2>1, <2>2, <2>5, <3>2 DEF Approve, MsigTypeOK
    <3> QED
      BY <3>1, <3>2
  <2>6. ASSUME NEW j \in Ids, NEW level \in Levels, Unapprove(j, level)
        PROVE  Named(Row(i)') = Named(Row(i))
    <3>1. CASE i = j
      BY <2>1, <2>6, <3>1, Unapproved
    <3>2. CASE i # j
      BY <2>1, <2>2, <2>6, <3>2 DEF Unapprove, MsigTypeOK
    <3> QED
      BY <3>1, <3>2
  <2> QED
    BY <2>2, <2>3, <2>4, <2>5, <2>6
       DEF MsigNext, Cancel, Exec, FinishDeferred, Invalidate, Tick, msigVars
<1>2. NoLevelLost <=> [][Kept]_msigVars
  BY PTL DEF NoLevelLost
<1> QED
  BY <1>1, <1>2, MsigInvariant, PTL DEF MsigSpec

\* If no list names a level twice, unapprove revokes: nothing of the level is left
\* among the provided approvals.
THEOREM MultisigRevokes ==
    ASSUME \A list \in Lists, level \in Levels : list[level] <= 1
    PROVE  MsigSpec => UnapproveRevokes
<1> DEFINE Revoked == \A i \in Ids, level \in Levels :
                         Unapprove(i, level) => level \notin ProvidedIn(i)'
<1>1. MsigInv /\ [MsigNext]_msigVars => Revoked
  <2> SUFFICES ASSUME MsigInv, [MsigNext]_msigVars, NEW i \in Ids, NEW level \in Levels,
                      Unapprove(i, level)
               PROVE  level \notin ProvidedIn(i)'
    OBVIOUS
  <2>1. MsigTypeOK /\ MsigTypeOK' /\ Consistent(i)
    BY TypesStep DEF MsigInv
  <2>2. Has(proposal, i)
    BY <2>1 DEF Consistent, Together, Unapprove
  <2>3. /\ Row(i) \in Rows(Int)
        /\ Row(i).provided[level] \in Seq(Int) \ {<<>>}
        /\ Row(i)'.provided[level] = Tail(Row(i).provided[level])
    BY <2>1, Unapproved
  <2>4. Row(i).requested[level] + Len(Row(i).provided[level]) <= 1
    BY <2>1, <2>2 DEF Consistent, Listed, Named
  <2>5. ASSUME NEW s \in Seq(Int), s # <<>>, NEW n \in Nat, n + Len(s) <= 1
        PROVE  Tail(s) = <<>>
    <3>1. Len(s) = 1
      <4> DEFINE m == Len(s)
      <4>1. m # 0 /\ m \in Nat /\ n + m <= 1
        BY <2>5, EmptySeq
      <4> HIDE DEF m
      <4>2. m = 1
        BY <4>1
      <4> QED
        BY <4>2 DEF m
    <3>2. Tail(s) \in Seq(Int) /\ Len(Tail(s)) = 0
      BY <2>5, <3>1
    <3> QED
      BY <3>2, EmptySeq
  <2>6. Tail(Row(i).provided[level]) = <<>>
    <3>1. Row(i).requested[level] \in Nat
      BY <2>3 DEF Rows
    <3> QED
      BY <2>3, <2>4, <2>5, <3>1
  <2> QED
    BY <2>3, <2>6 DEF ProvidedIn
<1>2. UnapproveRevokes <=> [][Revoked]_msigVars
  BY PTL DEF UnapproveRevokes
<1> QED
  BY <1>1, <1>2, MsigInvariant, PTL DEF MsigSpec

(***************************************************************************)
(* Refinement: each step is a step of Consent or changes nothing of it.    *)
(***************************************************************************)
OpenAt(i) == IF Has(proposal, i) THEN proposal[i].trx ELSE NoTrx
Open == [i \in Ids |-> OpenAt(i)]

LEMMA OpenRow ==
    ASSUME MsigTypeOK, NEW i \in Ids
    PROVE  Has(proposal, i) <=> Open[i] # NoTrx
BY MultisigAssumption, TypedRows DEF Open, OpenAt

LEMMA InitConsent == MsigInit => Agreement!Init
<1> SUFFICES ASSUME MsigInit PROVE Agreement!Init
  OBVIOUS
<1>1. MsigInv
  BY InitInv
<1>2. Open \in [Ids -> Transactions \cup {NoTrx}]
  BY <1>1, TypedRows DEF MsigInv, Open, OpenAt
<1>3. ASSUME NEW i \in Ids, Open[i] = NoTrx PROVE agree[i] = {}
  BY <1>1, <1>3, OpenRow DEF MsigInv, MsigInit
<1> QED
  BY <1>1, <1>2, <1>3 DEF Agreement!Init, Open, OpenAt, MsigInv, MsigTypeOK, MsigInit

LEMMA StepConsent ==
    ASSUME MsigInv, [MsigNext]_msigVars
    PROVE  [Agreement!Next]_(Agreement!vars)
<1> USE MultisigAssumption
<1>1. MsigTypeOK /\ MsigTypeOK'
  BY TypesStep DEF MsigInv
<1>2. proposal' = proposal => Open' = Open
  BY DEF Open, OpenAt, Has
<1>3. ASSUME NEW i \in Ids, proposal' = [proposal EXCEPT ![i] = NoRow]
      PROVE  Open' = [Open EXCEPT ![i] = NoTrx]
  BY <1>1, <1>3 DEF Open, OpenAt, Has, MsigTypeOK
<1>4. ASSUME NEW i \in Ids, NEW requested \in Lists, NEW t \in Transactions,
             NEW e \in Expirations, Propose(i, requested, t, e)
      PROVE  Agreement!Propose(i, t)
  <2>1. Open[i] = NoTrx
    BY <1>1, <1>4, OpenRow DEF Propose
  <2>2. [trx |-> t, expires |-> e] # NoRow
    BY ProposalIsRow
  <2>3. Open' = [Open EXCEPT ![i] = t]
    BY <1>1, <1>4, <2>2 DEF Open, OpenAt, Has, MsigTypeOK, Propose
  <2> QED
    BY <1>4, <2>1, <2>3 DEF Agreement!Propose, Open, OpenAt, Propose
<1>5. ASSUME NEW i \in Ids, NEW level \in Levels, NEW hash, Approve(i, level, hash)
      PROVE  Agreement!Agree(i, level)
  <2>1. Has(proposal, i)
    BY <1>5 DEF Approve, MsigInv, Consistent, Together
  <2> QED
    BY <1>1, <1>2, <1>5, <2>1, OpenRow DEF Approve, Agreement!Agree, Open, OpenAt
\* Who has another approval there goes on agreeing.
<1>6. ASSUME NEW i \in Ids, NEW level \in Levels, Unapprove(i, level)
      PROVE  [Agreement!Next]_(Agreement!vars)
  <2>1. CASE level \in ProvidedIn(i)'
    <3>1. agree' = agree
      BY <1>1, <1>6, <2>1 DEF Unapprove, MsigTypeOK
    <3> QED
      BY <1>2, <1>6, <3>1 DEF Unapprove, Agreement!vars, Open, OpenAt
  <2>2. CASE level \notin ProvidedIn(i)'
    <3>1. agree' = [agree EXCEPT ![i] = @ \ {level}]
      <4>1. {level} \ ProvidedIn(i)' = {level}
        BY <2>2
      <4>2. agree' = [agree EXCEPT ![i] = @ \ ({level} \ ProvidedIn(i)')]
        BY <1>6 DEF Unapprove
      <4> QED
        BY <4>1, <4>2
    <3>2. Agreement!Retract(i, level)
      BY <1>2, <1>6, <3>1 DEF Unapprove, Agreement!Retract, Open, OpenAt
    <3> QED
      BY <3>2 DEF Agreement!Next
  <2> QED
    BY <2>1, <2>2
<1>7. ASSUME NEW i \in Ids, NEW a \in Accounts, Cancel(i, a)
      PROVE  Agreement!Drop(i)
  BY <1>1, <1>3, <1>7, OpenRow DEF Cancel, Agreement!Drop, Agreement!Empty, Open, OpenAt
<1>8. ASSUME NEW i \in Ids, Exec(i)
      PROVE  Agreement!Queue(i)
  <2>1. Open[i] = proposal[i].trx /\ Open[i] # NoTrx
    BY <1>1, <1>8, OpenRow DEF Exec, Open, OpenAt
  <2>2. Needs[Open[i]] \subseteq agree[i]
    BY <1>8, <2>1 DEF Exec, MsigInv, Consistent, CountedAgree, Has
  <2>3. Open' = [Open EXCEPT ![i] = NoTrx]
    BY <1>3, <1>8 DEF Exec
  <2> QED
    BY <1>8, <2>1, <2>2, <2>3 DEF Exec, Agreement!Queue, Agreement!Empty, Open, OpenAt
<1>9. ASSUME NEW i \in Ids, FinishDeferred(i)
      PROVE  Agreement!Leave(i)
  BY <1>2, <1>9 DEF FinishDeferred, Agreement!Leave, Open, OpenAt
<1>10. ASSUME NEW a \in Accounts, Invalidate(a)
       PROVE  Agreement!Next
  <2> DEFINE H == {level \in Levels : Actor[level] = a}
  <2>1. agree' = [i \in Ids |-> agree[i] \ H]
    BY <1>1, <1>10 DEF Invalidate, MsigTypeOK
  <2>2. Agreement!RetractAll(H)
    BY <1>2, <1>10, <2>1 DEF Invalidate, Agreement!RetractAll, Open, OpenAt
  <2>3. H \in SUBSET Levels
    OBVIOUS
  <2> QED
    BY <2>2, <2>3 DEF Agreement!Next
<1>11. CASE Tick \/ UNCHANGED msigVars
  BY <1>2, <1>11 DEF Tick, msigVars, Agreement!vars, Open, OpenAt
<1> QED
  BY <1>4, <1>5, <1>6, <1>7, <1>8, <1>9, <1>10, <1>11 DEF MsigNext, Agreement!Next

\* inery.msig implements Consent: it sends a transaction only while everybody
\* that it needs agrees to it, whatever was approved, taken back, invalidated,
\* cancelled and proposed again before, and however often lists name a level.
THEOREM MultisigImplementsConsent == MsigSpec => ImplementsConsent
<1> QED
  BY InitConsent, StepConsent, MsigInvariant, PTL DEF MsigSpec, ImplementsConsent, Agreement!Spec
===============================================================================

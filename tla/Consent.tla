------------------------------- MODULE Consent -------------------------------
(***************************************************************************)
(* What a multisignature promises to the holders of permissions: each slot *)
(* carries at most one proposed transaction; holders agree to it and       *)
(* change their minds, singly or about everything at once; the transaction *)
(* is queued, once, only while everybody it needs agrees to that very      *)
(* transaction.                                                            *)
(***************************************************************************)
CONSTANTS
    Slots, Transactions, Holders,
    Needs,      \* transaction -> the holders who must agree to it
    Nothing     \* no transaction

VARIABLES
    open,       \* slot -> the transaction proposed there
    agreed,     \* slot -> the holders who agree to it now
    queued      \* slot -> the transaction from it that waits to run

vars == <<open, agreed, queued>>

Empty(s) ==
    /\ open' = [open EXCEPT ![s] = Nothing]
    /\ agreed' = [agreed EXCEPT ![s] = {}]

Propose(s, t) ==
    /\ open[s] = Nothing
    /\ open' = [open EXCEPT ![s] = t]
    /\ UNCHANGED <<agreed, queued>>

Agree(s, h) ==
    /\ open[s] # Nothing
    /\ agreed' = [agreed EXCEPT ![s] = @ \cup {h}]
    /\ UNCHANGED <<open, queued>>

Retract(s, h) ==
    /\ agreed' = [agreed EXCEPT ![s] = @ \ {h}]
    /\ UNCHANGED <<open, queued>>

\* Several holders at once agree to nothing any more.
RetractAll(H) ==
    /\ agreed' = [s \in Slots |-> agreed[s] \ H]
    /\ UNCHANGED <<open, queued>>

Drop(s) ==
    /\ open[s] # Nothing
    /\ Empty(s)
    /\ UNCHANGED queued

Queue(s) ==
    /\ open[s] # Nothing
    /\ Needs[open[s]] \subseteq agreed[s]
    /\ queued[s] = Nothing
    /\ queued' = [queued EXCEPT ![s] = open[s]]
    /\ Empty(s)

Leave(s) ==
    /\ queued[s] # Nothing
    /\ queued' = [queued EXCEPT ![s] = Nothing]
    /\ UNCHANGED <<open, agreed>>

Init ==
    /\ open \in [Slots -> Transactions \cup {Nothing}]
    /\ agreed \in [Slots -> SUBSET Holders]
    /\ \A s \in Slots : open[s] = Nothing => agreed[s] = {}
    /\ queued = [s \in Slots |-> Nothing]

Next ==
    \/ \E s \in Slots : Drop(s) \/ Queue(s) \/ Leave(s)
    \/ \E s \in Slots, t \in Transactions : Propose(s, t)
    \/ \E s \in Slots, h \in Holders : Agree(s, h) \/ Retract(s, h)
    \/ \E H \in SUBSET Holders : RetractAll(H)

Spec == Init /\ [][Next]_vars
=============================================================================

-------------------------------- MODULE Vault --------------------------------
(***************************************************************************)
(* What staking promises to the owners of tokens. Every token is free for  *)
(* its holder to spend, locked as somebody's stake, or leaving a stake on  *)
(* its way back to the one who owned it; nothing is in two places, nothing *)
(* is lost, and only the owner of a stake ever gets it back.               *)
(***************************************************************************)
EXTENDS Integers

CONSTANT Holders

VARIABLES free, locked, leaving

vars == <<free, locked, leaving>>

Pay(h, k) == \E q \in 1 .. free[h] :
    /\ h # k
    /\ free' = [free EXCEPT ![h] = @ - q, ![k] = @ + q]
    /\ UNCHANGED <<locked, leaving>>

\* h locks its own tokens as the stake of o.
Lock(h, o) == \E q \in 1 .. free[h] :
    /\ free' = [free EXCEPT ![h] = @ - q]
    /\ locked' = [locked EXCEPT ![o] = @ + q]
    /\ UNCHANGED leaving

\* o locks again what was leaving, and adds to it.
Relock(o) == \E x \in 1 .. leaving[o], y \in 0 .. free[o] :
    /\ free' = [free EXCEPT ![o] = @ - y]
    /\ locked' = [locked EXCEPT ![o] = @ + x + y]
    /\ leaving' = [leaving EXCEPT ![o] = @ - x]

Unlock(o) == \E q \in 1 .. locked[o] :
    /\ locked' = [locked EXCEPT ![o] = @ - q]
    /\ leaving' = [leaving EXCEPT ![o] = @ + q]
    /\ UNCHANGED free

Release(o) ==
    /\ leaving[o] > 0
    /\ free' = [free EXCEPT ![o] = @ + leaving[o]]
    /\ leaving' = [leaving EXCEPT ![o] = 0]
    /\ UNCHANGED locked

Next ==
    \/ \E h, k \in Holders : Pay(h, k) \/ Lock(h, k)
    \/ \E o \in Holders : Relock(o) \/ Unlock(o) \/ Release(o)
=============================================================================

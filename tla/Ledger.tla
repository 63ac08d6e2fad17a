------------------------------- MODULE Ledger -------------------------------
(***************************************************************************)
(* What a token contract promises about one token: amounts come into being *)
(* only up to a cap fixed once, disappear only from a holder who had them, *)
(* and otherwise move between two different holders without changing size. *)
(***************************************************************************)
EXTENDS Integers, Sums

CONSTANT Holders

VARIABLES holding,   \* what each holder has
          issued,    \* the amount in existence
          cap        \* the most that may ever exist; 0 before the launch

vars == <<holding, issued, cap>>

Init ==
    /\ holding = [h \in Holders |-> 0]
    /\ issued = 0
    /\ cap = 0

Launch ==
    /\ cap = 0
    /\ cap' \in Nat \ {0}
    /\ UNCHANGED <<holding, issued>>

Mint(h) == \E q \in 1 .. (cap - issued) :
    /\ holding' = [holding EXCEPT ![h] = @ + q]
    /\ issued' = issued + q
    /\ UNCHANGED cap

Burn(h) == \E q \in 1 .. holding[h] :
    /\ holding' = [holding EXCEPT ![h] = @ - q]
    /\ issued' = issued - q
    /\ UNCHANGED cap

Pay(h, k) == \E q \in 1 .. holding[h] :
    /\ h # k
    /\ holding' = [holding EXCEPT ![h] = @ - q, ![k] = @ + q]
    /\ UNCHANGED <<issued, cap>>

Next ==
    \/ Launch
    \/ \E h \in Holders : Mint(h) \/ Burn(h)
    \/ \E h, k \in Holders : Pay(h, k)

Spec == Init /\ [][Next]_vars
=============================================================================

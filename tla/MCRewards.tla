------------------------------ MODULE MCRewards ------------------------------
(* Rewards with two producers; bob may leave.                                *)
EXTENDS Rewards

CONSTANTS alice, bob, createacc, sys, saving, bpay, vpay, INR

OneEach == [a \in Accounts |-> IF a \in {alice, bob} THEN 1 ELSE 0]
TwoForBob == [a \in Accounts |-> IF a = bob THEN 2 ELSE 0]
Stakes == [a \in Accounts |-> IF a = alice THEN 1 ELSE IF a = bob THEN 2 ELSE 0]
Doubling == [d \in 0 .. LastDay |-> 2]
Down == {-1}
UpDown == {-1, 1}
Rates == [annual \in {0, 1} |-> 2 * annual]
Start == <<1, 3, 3>>
NoInflation == {<<0, 3, 3>>}
=============================================================================

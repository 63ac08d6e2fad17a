------------------------------ MODULE MCStaking ------------------------------
(* Staking with two holders.                                                *)
EXTENDS Staking

CONSTANTS alice, bob, createacc, stakeacct, INR

TwoAndNone == [a \in Accounts |-> IF a = alice THEN 2 ELSE 0]
OneEach == [a \in Accounts |-> IF a \in {alice, bob} THEN 1 ELSE 0]
=============================================================================

------------------------------ MODULE MCVoting ------------------------------
(* Voting with three accounts, so that one may use another as its proxy     *)
(* that then uses the third. carol starts without stake and may leave.      *)
EXTENDS Voting

CONSTANTS alice, bob, carol, createacc, INR

AllFunded == [a \in Accounts |-> 1]
TwoStaked == [a \in Accounts |-> IF a \in {alice, bob} THEN 1 ELSE 0]
UpAndDown == {-1, 1}
Doubling == [d \in 0 .. LastDay |-> 2 * (d + 1)]
=============================================================================

----------------------------- MODULE MCMemMarket -----------------------------
(* The MEM market at 3 bytes for 2 units, with one or two buyers.           *)
EXTENDS MemMarket

CONSTANTS alice, bob, stakeacct, memacct, INR

AliceHas(n) == [a \in Accounts |-> IF a = alice THEN n ELSE 0]
AliceHas14 == AliceHas(14)
AliceHas12 == AliceHas(12)
TriedLimits == {-1, 2}
=============================================================================

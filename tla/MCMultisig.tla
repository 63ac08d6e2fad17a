------------------------------ MODULE MCMultisig ------------------------------
(***************************************************************************)
(* Instances of Multisig for TLC: two permission levels of one account and *)
(* one of another; one transaction needs both accounts, the other needs    *)
(* one level only. A list may name bob's level, which both need, twice.    *)
(***************************************************************************)
EXTENDS Multisig

CONSTANTS alice, bob, pay, pause, alice_active, alice_owner, bob_active, upgrade

MCActor == [l \in Levels |-> IF l = bob_active THEN bob ELSE alice]
MCNeeds == [t \in Transactions |-> IF t = pay THEN {alice_active, bob_active} ELSE {bob_active}]
MCLists == {list \in [Levels -> 0 .. 2] : \A l \in Levels \ {bob_active} : list[l] < 2}
MCLegacy == Proposers \X {upgrade}
===============================================================================

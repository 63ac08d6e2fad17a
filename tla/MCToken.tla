------------------------------- MODULE MCToken -------------------------------
(* inery.token with three accounts, createacc among them, and two tokens.   *)
EXTENDS Token, Functions, TLC

CONSTANTS alice, bob, createacc, INR, OTH

\* alice and bob may be exchanged; createacc and INR may not.
Symmetry == Permutations({alice, bob})

TriedQuantities == {-1, 1, 2}

\* The total by units is the sum of the function's values.
ASSUME TotalIsSum ==
    \A f \in [{alice, bob, createacc} -> 0 .. 3] :
        Total(f, DOMAIN f) = FoldFunction(LAMBDA x, y : x + y, 0, f)
=============================================================================

-------------------------------- MODULE Sums --------------------------------
(***************************************************************************)
(* Totals of a natural-valued function over a finite set, written as a     *)
(* count of units: the element x contributes the f[x] pairs <<x, 1>> ..    *)
(* <<x, f[x]>>. The amount columns of the contracts' tables (balances,     *)
(* delegated weights, refunds, memory) are totalled with it; it needs no   *)
(* recursion, so the facts about it follow from the cardinality theorems   *)
(* (module SumTheorems).                                                   *)
(***************************************************************************)
EXTENDS Integers, FiniteSets

\* The units that x contributes.
UnitsOf(f, x) == {x} \X (1 .. f[x])

Units(f, S) == UNION {UnitsOf(f, x) : x \in S}

Total(f, S) == Cardinality(Units(f, S))

\* The larger of two amounts (std::max).
Larger(a, b) == IF a >= b THEN a ELSE b
=============================================================================

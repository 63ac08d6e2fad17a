----------------------------- MODULE SumTheorems -----------------------------
(***************************************************************************)
(* Facts about Total: it is a natural number, it depends only on the       *)
(* summands, one summand can be split off, no summand exceeds it, changing *)
(* one or two changes it by the difference, and totals of sums add up.     *)
(***************************************************************************)
EXTENDS Sums, Functions, FiniteSetTheorems, TLAPS

\* One element contributes exactly f[x] units.
LEMMA UnitsOfCardinality ==
  ASSUME NEW f, NEW x, f[x] \in Nat
  PROVE  /\ IsFiniteSet(UnitsOf(f, x))
         /\ Cardinality(UnitsOf(f, x)) = f[x]
<1>1. IsFiniteSet({x}) /\ Cardinality({x}) = 1
  BY FS_Singleton
<1>2. IsFiniteSet(1 .. f[x]) /\ Cardinality(1 .. f[x]) = f[x]
  BY FS_Interval
<1>3. /\ IsFiniteSet({x} \X (1 .. f[x]))
      /\ Cardinality({x} \X (1 .. f[x])) = Cardinality({x}) * Cardinality(1 .. f[x])
  BY <1>1, <1>2, FS_Product
<1>4. Cardinality({x}) * Cardinality(1 .. f[x]) = f[x]
  BY <1>1, <1>2
<1> QED
  BY <1>3, <1>4 DEF UnitsOf

\* Finitely many naturals have a finite total.
LEMMA TotalType ==
  ASSUME NEW S, IsFiniteSet(S), NEW f, \A x \in S : f[x] \in Nat
  PROVE  IsFiniteSet(Units(f, S)) /\ Total(f, S) \in Nat
<1> DEFINE T == {UnitsOf(f, x) : x \in S}
           g == [x \in S |-> UnitsOf(f, x)]
<1>1. g \in Surjection(S, T)
  BY DEF Surjection
<1>2. IsFiniteSet(T)
  BY <1>1, FS_Surjection
<1>3. \A U \in T : IsFiniteSet(U)
  BY UnitsOfCardinality
<1>4. IsFiniteSet(UNION T)
  <2> HIDE DEF T
  <2> QED BY <1>2, <1>3, FS_UNION
<1> QED
  BY <1>4, FS_CardinalityType DEF Units, Total

\* Functions that agree on S have the same total over S.
LEMMA TotalCong ==
  ASSUME NEW S, NEW f, NEW g, \A x \in S : f[x] = g[x]
  PROVE  Total(f, S) = Total(g, S)
<1>1. Units(f, S) = Units(g, S)
  BY DEF Units, UnitsOf
<1> QED
  BY <1>1 DEF Total

\* A total of zeros is zero.
LEMMA TotalZero ==
  ASSUME NEW S, NEW f, \A x \in S : f[x] = 0
  PROVE  Total(f, S) = 0
<1>1. Units(f, S) = {}
  BY DEF Units, UnitsOf
<1> QED
  BY <1>1, FS_EmptySet DEF Total

\* One summand can be split off.
LEMMA TotalSplit ==
  ASSUME NEW S, IsFiniteSet(S), NEW f, \A x \in S : f[x] \in Nat, NEW a \in S
  PROVE  Total(f, S) = Total(f, S \ {a}) + f[a]
<1> DEFINE R == S \ {a}
<1>1. IsFiniteSet(R)
  BY FS_Subset
<1>2. IsFiniteSet(Units(f, R)) /\ Total(f, R) \in Nat
  BY <1>1, TotalType
<1>3. IsFiniteSet(UnitsOf(f, a)) /\ Cardinality(UnitsOf(f, a)) = f[a]
  BY UnitsOfCardinality
<1>4. Units(f, S) = Units(f, R) \cup UnitsOf(f, a)
  BY DEF Units
<1>5. Units(f, R) \cap UnitsOf(f, a) = {}
  BY DEF Units, UnitsOf
<1>6. Cardinality(Units(f, R) \cap UnitsOf(f, a)) = 0
  BY <1>5, FS_EmptySet
<1>7. Cardinality(Units(f, S)) = Cardinality(Units(f, R)) + Cardinality(UnitsOf(f, a))
                                 - Cardinality(Units(f, R) \cap UnitsOf(f, a))
  BY <1>2, <1>3, <1>4, FS_Union
<1> QED
  BY <1>2, <1>3, <1>6, <1>7 DEF Total

\* No summand exceeds the total.
LEMMA TotalBound ==
  ASSUME NEW S, IsFiniteSet(S), NEW f, \A x \in S : f[x] \in Nat, NEW a \in S
  PROVE  f[a] <= Total(f, S)
<1>1. Total(f, S) = Total(f, S \ {a}) + f[a]
  BY TotalSplit
<1>2. IsFiniteSet(S \ {a})
  BY FS_Subset
<1>3. Total(f, S \ {a}) \in Nat
  BY <1>2, TotalType
<1> QED
  BY <1>1, <1>3

\* Two functions that differ only at a: the totals differ as the summands at a do.
LEMMA TotalChange ==
  ASSUME NEW S, IsFiniteSet(S),
         NEW f, \A x \in S : f[x] \in Nat,
         NEW g, \A x \in S : g[x] \in Nat,
         NEW a \in S, \A x \in S \ {a} : f[x] = g[x]
  PROVE  Total(g, S) = Total(f, S) - f[a] + g[a]
<1>1. Total(f, S) = Total(f, S \ {a}) + f[a]
  BY TotalSplit
<1>2. Total(g, S) = Total(g, S \ {a}) + g[a]
  BY TotalSplit
<1>3. Total(f, S \ {a}) = Total(g, S \ {a})
  BY TotalCong
<1>4. IsFiniteSet(S \ {a})
  BY FS_Subset
<1>5. Total(f, S \ {a}) \in Nat
  BY <1>4, TotalType
<1> QED
  BY <1>1, <1>2, <1>3, <1>5

\* Moving q from one summand to another leaves the total alone.
LEMMA TotalMove ==
  ASSUME NEW S, IsFiniteSet(S),
         NEW f, \A x \in S : f[x] \in Nat,
         NEW g, \A x \in S : g[x] \in Nat,
         NEW a \in S, NEW b \in S \ {a}, NEW q \in Nat,
         g[a] = f[a] - q, g[b] = f[b] + q,
         \A x \in S \ {a, b} : g[x] = f[x]
  PROVE  Total(g, S) = Total(f, S)
<1> DEFINE R == S \ {a}
<1>1. IsFiniteSet(R) /\ b \in R
  BY FS_Subset
<1>2. Total(g, R) = Total(f, R) - f[b] + g[b]
  BY <1>1, TotalChange
<1>3. Total(f, S) = Total(f, R) + f[a] /\ Total(g, S) = Total(g, R) + g[a]
  BY TotalSplit
<1>4. Total(f, R) \in Nat /\ Total(g, R) \in Nat
  BY <1>1, TotalType
<1> QED
  BY <1>2, <1>3, <1>4

\* The total of a sum is the sum of the totals: the units of g follow those of f.
LEMMA TotalSum ==
  ASSUME NEW S, IsFiniteSet(S),
         NEW f, \A x \in S : f[x] \in Nat,
         NEW g, \A x \in S : g[x] \in Nat,
         NEW h, \A x \in S : h[x] = f[x] + g[x]
  PROVE  Total(h, S) = Total(f, S) + Total(g, S)
<1> DEFINE F == Units(f, S)
           G == Units(g, S)
           Lift(u) == <<u[1], u[2] + f[u[1]]>>
           V == {Lift(u) : u \in G}
           m == [u \in G |-> Lift(u)]
<1>1. /\ IsFiniteSet(F) /\ Total(f, S) \in Nat
      /\ IsFiniteSet(G) /\ Total(g, S) \in Nat
  BY TotalType
<1>2. \A u : u \in F <=> \E x \in S : \E i \in 1 .. f[x] : u = <<x, i>>
  BY DEF Units, UnitsOf
<1>3. \A u : u \in G <=> \E x \in S : \E i \in 1 .. g[x] : u = <<x, i>>
  BY DEF Units, UnitsOf
<1>4. \A u : u \in Units(h, S) <=> \E x \in S : \E i \in 1 .. h[x] : u = <<x, i>>
  BY DEF Units, UnitsOf
<1>5. \A u : u \in V <=> \E x \in S : \E i \in 1 .. g[x] : u = <<x, i + f[x]>>
  <2> HIDE DEF F, G
  <2>1. ASSUME NEW v \in G PROVE \E x \in S : \E i \in 1 .. g[x] : Lift(v) = <<x, i + f[x]>>
    <3>1. PICK x \in S : \E i \in 1 .. g[x] : v = <<x, i>>
      BY <1>3
    <3>2. PICK i \in 1 .. g[x] : v = <<x, i>>
      BY <3>1
    <3>3. Lift(v) = <<x, i + f[x]>>
      BY <3>2
    <3> QED
      BY <3>3
  <2>2. ASSUME NEW x \in S, NEW i \in 1 .. g[x]
        PROVE  <<x, i>> \in G /\ Lift(<<x, i>>) = <<x, i + f[x]>>
    BY <1>3
  <2>3. \A u : u \in V <=> \E v \in G : u = Lift(v)
    OBVIOUS
  <2> HIDE DEF V, Lift
  <2>4. ASSUME NEW u, u \in V PROVE \E x \in S : \E i \in 1 .. g[x] : u = <<x, i + f[x]>>
    <3>1. PICK v \in G : u = Lift(v)
      BY <2>3, <2>4
    <3> QED
      BY <2>1, <3>1
  <2>5. ASSUME NEW x \in S, NEW i \in 1 .. g[x] PROVE <<x, i + f[x]>> \in V
    <3>1. <<x, i>> \in G /\ Lift(<<x, i>>) = <<x, i + f[x]>>
      BY <2>2
    <3> QED
      BY <2>3, <3>1
  <2> QED
    BY <2>4, <2>5
<1> HIDE DEF F, G
<1>6. m \in Bijection(G, V)
  <2>1. m \in [G -> V] /\ \A t \in V : \E u \in G : m[u] = t
    OBVIOUS
  <2>2. ASSUME NEW u \in G, NEW v \in G, m[u] = m[v]
        PROVE  u = v
    <3>0. PICK x \in S : \E i \in 1 .. g[x] : u = <<x, i>>
      BY <1>3
    <3>1. PICK i \in 1 .. g[x] : u = <<x, i>>
      BY <3>0
    <3>6. PICK y \in S : \E j \in 1 .. g[y] : v = <<y, j>>
      BY <1>3
    <3>2. PICK j \in 1 .. g[y] : v = <<y, j>>
      BY <3>6
    <3>3. <<x, i + f[x]>> = <<y, j + f[y]>>
      BY <2>2, <3>1, <3>2
    <3>4. x = y /\ i + f[x] = j + f[y]
      BY <3>3
    <3>5. i = j
      <4>1. i \in Int /\ j \in Int /\ f[x] \in Int
        OBVIOUS
      <4> QED
        BY <3>4, <4>1
    <3> QED
      BY <3>1, <3>2, <3>4, <3>5
  <2> HIDE DEF m, V
  <2> QED
    BY <2>1, <2>2 DEF Bijection, Injection, Surjection, IsInjective
<1>7. IsFiniteSet(V) /\ Cardinality(V) = Total(g, S)
  BY <1>1, <1>6, FS_Bijection DEF ExistsBijection, Total, G
<1> HIDE DEF V
<1>8. Units(h, S) = F \cup V
  <2>1. ASSUME NEW x \in S, NEW i \in 1 .. h[x] PROVE <<x, i>> \in F \cup V
    <3>1. f[x] \in Nat /\ g[x] \in Nat /\ h[x] = f[x] + g[x]
      OBVIOUS
    <3>2. CASE i <= f[x]
      BY <1>2, <3>1, <3>2
    <3>3. CASE i > f[x]
      <4>1. i - f[x] \in 1 .. g[x] /\ (i - f[x]) + f[x] = i
        BY <3>1, <3>3
      <4> QED
        BY <1>5, <4>1
    <3> QED
      BY <3>1, <3>2, <3>3
  <2>2. ASSUME NEW x \in S, NEW i \in 1 .. f[x] PROVE <<x, i>> \in Units(h, S)
    <3>1. f[x] \in Nat /\ g[x] \in Nat /\ h[x] = f[x] + g[x]
      OBVIOUS
    <3>2. i \in 1 .. h[x]
      BY <3>1
    <3> QED
      BY <1>4, <3>2
  <2>3. ASSUME NEW x \in S, NEW i \in 1 .. g[x] PROVE <<x, i + f[x]>> \in Units(h, S)
    <3>1. f[x] \in Nat /\ g[x] \in Nat /\ h[x] = f[x] + g[x]
      OBVIOUS
    <3>2. i + f[x] \in 1 .. h[x]
      BY <3>1
    <3> QED
      BY <1>4, <3>2
  <2> QED
    BY <1>2, <1>4, <1>5, <2>1, <2>2, <2>3
<1>9. F \cap V = {}
  <2> SUFFICES ASSUME NEW x \in S, NEW i \in 1 .. f[x], NEW y \in S, NEW j \in 1 .. g[y],
                      <<x, i>> = <<y, j + f[y]>>
               PROVE  FALSE
    BY <1>2, <1>5
  <2>1. x = y /\ i = j + f[y]
    OBVIOUS
  <2>2. f[x] \in Nat /\ g[x] \in Nat
    OBVIOUS
  <2> QED
    BY <2>1, <2>2
<1>10. Cardinality(F \cup V) = Cardinality(F) + Cardinality(V) - Cardinality({})
  BY <1>1, <1>7, <1>9, FS_Union
<1>11. Cardinality({}) = 0
  BY FS_EmptySet
<1> QED
  BY <1>1, <1>7, <1>8, <1>10, <1>11 DEF Total, F
=============================================================================

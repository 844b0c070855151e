------------------------------ MODULE Induction ------------------------------
(***************************************************************************)
(* Induction over the natural numbers, and functions defined by recursion, *)
(* in a form without operator parameters: a property is the set of the     *)
(* numbers that have it, and the body of a recursive definition a function *)
(* from functions to functions.                                            *)
(***************************************************************************)
EXTENDS Integers, WellFoundedInduction, TLAPS

\* A set with 0 that has n + 1 whenever it has n has every number.
LEMMA SetInduction ==
  ASSUME NEW T, 0 \in T, \A n \in Nat : n \in T => n + 1 \in T
  PROVE  Nat \subseteq T
<1> DEFINE R == {p \in Nat \X Nat : p[1] < p[2]}
           Out == Nat \ T
<1>1. IsWellFoundedOn(R, Nat)
  <2>1. R = OpToRel(<, Nat)
    BY DEF OpToRel
  <2>2. QED
    BY <2>1, NatLessThanWellFounded, Zenon
<1>2. SUFFICES ASSUME Out # {}
               PROVE  FALSE
  OBVIOUS
<1>3. PICK x \in Out : \A y \in Out : <<y, x>> \notin R
  <2>1. Out \subseteq Nat
    OBVIOUS
  <2> HIDE DEF R, Out
  <2>2. QED
    BY <1>1, <1>2, <2>1, WFMin
<1>4. x \in Nat /\ x # 0 /\ x - 1 \in Nat
  OBVIOUS
<1>5. <<x - 1, x>> \in R
  BY <1>4
<1>6. x - 1 \in T
  BY <1>3, <1>4, <1>5
<1>7. QED
  BY <1>4, <1>6

\* G is the body of a recursive definition over S whose value at x only depends
\* on values at points of a smaller measure m.
Recursive(G, S, V, m) ==
  /\ m \in [S -> Nat]
  /\ G \in [[S -> V] -> [S -> V]]
  /\ \A g, h \in [S -> V] : \A x \in S :
       (\A y \in S : m[y] < m[x] => g[y] = h[y]) => G[g][x] = G[h][x]

\* g obeys the definition as far as the measure n.
Obeys(g, G, S, m, n) == \A x \in S : m[x] < n => g[x] = G[g][x]

LEMMA ObeysUnique ==
  ASSUME NEW S, NEW V, NEW G, NEW m, Recursive(G, S, V, m),
         NEW g \in [S -> V], NEW h \in [S -> V]
  PROVE  \A n \in Nat : Obeys(g, G, S, m, n) /\ Obeys(h, G, S, m, n) =>
           \A x \in S : m[x] < n => g[x] = h[x]
<1> DEFINE T == {n \in Nat : Obeys(g, G, S, m, n) /\ Obeys(h, G, S, m, n) =>
                               \A x \in S : m[x] < n => g[x] = h[x]}
<1>1. 0 \in T
  BY DEF Recursive
<1>2. ASSUME NEW n \in Nat, n \in T
      PROVE  n + 1 \in T
  <2>1. SUFFICES ASSUME Obeys(g, G, S, m, n + 1), Obeys(h, G, S, m, n + 1),
                        NEW x \in S, m[x] < n + 1
                 PROVE  g[x] = h[x]
    OBVIOUS
  <2>2. \A y \in S : m[y] \in Nat
    BY DEF Recursive
  <2>3. Obeys(g, G, S, m, n) /\ Obeys(h, G, S, m, n)
    BY <2>1, <2>2 DEF Obeys
  <2>4. \A y \in S : m[y] < m[x] => g[y] = h[y]
    BY <1>2, <2>1, <2>2, <2>3
  <2>5. G[g][x] = G[h][x]
    BY <2>4 DEF Recursive
  <2>6. QED
    BY <2>1, <2>5 DEF Obeys
<1>3. Nat \subseteq T
  <2> HIDE DEF T
  <2> QED BY <1>1, <1>2, SetInduction
<1>4. QED
  BY <1>3

LEMMA ObeysExists ==
  ASSUME NEW S, NEW V, NEW G, NEW m, Recursive(G, S, V, m), NEW v \in V
  PROVE  \A n \in Nat : \E g \in [S -> V] : Obeys(g, G, S, m, n)
<1> DEFINE T == {n \in Nat : \E g \in [S -> V] : Obeys(g, G, S, m, n)}
<1>1. 0 \in T
  <2>1. [x \in S |-> v] \in [S -> V]
    OBVIOUS
  <2>2. Obeys([x \in S |-> v], G, S, m, 0)
    BY DEF Obeys, Recursive
  <2>3. QED
    BY <2>1, <2>2
<1>2. ASSUME NEW n \in Nat, n \in T
      PROVE  n + 1 \in T
  <2>1. PICK g \in [S -> V] : Obeys(g, G, S, m, n)
    BY <1>2
  <2>2. G[g] \in [S -> V]
    BY DEF Recursive
  <2>3. ASSUME NEW x \in S, m[x] < n + 1
        PROVE  G[g][x] = G[G[g]][x]
    <3>1. \A y \in S : m[y] < m[x] => g[y] = G[g][y]
      BY <2>1, <2>3 DEF Obeys, Recursive
    <3>2. QED
      BY <2>2, <3>1 DEF Recursive
  <2>4. Obeys(G[g], G, S, m, n + 1)
    BY <2>3 DEF Obeys
  <2>5. QED
    BY <2>2, <2>4
<1>3. Nat \subseteq T
  <2> HIDE DEF T
  <2> QED BY <1>1, <1>2, SetInduction
<1>4. QED
  BY <1>3

\* A recursive definition defines a function.
THEOREM RecursionTheorem ==
  ASSUME NEW S, NEW V, NEW G, NEW m, Recursive(G, S, V, m), V # {}
  PROVE  \E f \in [S -> V] : f = G[f]
<1>1. PICK v : v \in V
  OBVIOUS
<1>2. \A n \in Nat : \E g \in [S -> V] : Obeys(g, G, S, m, n)
  BY <1>1, ObeysExists
<1>3. \A x \in S : m[x] \in Nat /\ m[x] + 1 \in Nat
  BY DEF Recursive
<1> DEFINE to(x) == CHOOSE g \in [S -> V] : Obeys(g, G, S, m, m[x] + 1)
           f == [x \in S |-> to(x)[x]]
<1>4. \A x \in S : to(x) \in [S -> V] /\ Obeys(to(x), G, S, m, m[x] + 1)
  BY <1>2, <1>3
<1>5. f \in [S -> V]
  BY <1>4
<1>6. ASSUME NEW x \in S
      PROVE  f[x] = G[f][x]
  <2> DEFINE g == to(x)
  <2>1. g \in [S -> V] /\ Obeys(g, G, S, m, m[x] + 1)
    BY <1>4
  <2>2. ASSUME NEW y \in S, m[y] < m[x]
        PROVE  g[y] = f[y]
    <3> DEFINE h == to(y)
    <3>1. h \in [S -> V] /\ Obeys(h, G, S, m, m[y] + 1)
      BY <1>4
    <3> HIDE DEF g
    <3>2. Obeys(g, G, S, m, m[y] + 1)
      BY <1>3, <2>1, <2>2 DEF Obeys
    <3> HIDE DEF h
    <3>3. g[y] = h[y]
      BY <1>3, <2>1, <3>1, <3>2, ObeysUnique
    <3>4. QED
      BY <3>3 DEF h
  <2>3. f[x] = g[x]
    OBVIOUS
  <2> HIDE DEF g, f
  <2>4. G[g][x] = G[f][x]
    BY <1>5, <2>1, <2>2 DEF Recursive
  <2>5. g[x] = G[g][x]
    BY <1>3, <2>1 DEF Obeys
  <2>6. QED
    BY <2>3, <2>4, <2>5
<1>7. G[f] \in [S -> V]
  BY <1>5 DEF Recursive
<1>8. f = G[f]
  <2> HIDE DEF f
  <2> QED BY <1>5, <1>6, <1>7
<1>9. QED
  BY <1>5, <1>8

\* f has the values that are computed from base step by step, F[k] being step k.
Steps(F, n, V) == n \in Nat /\ F \in [1 .. n -> [V -> V]]
Iterates(f, F, base, n) == f[0] = base /\ \A k \in 1 .. n : f[k] = F[k][f[k - 1]]

LEMMA IterationExists ==
  ASSUME NEW V, NEW base \in V, NEW n, NEW F, Steps(F, n, V)
  PROVE  \E f \in [0 .. n -> V] : Iterates(f, F, base, n)
<1> DEFINE S == 0 .. n
           m == [k \in S |-> k]
           Value(g, k) == IF k = 0 THEN base ELSE F[k][g[k - 1]]
           G == [g \in [S -> V] |-> [k \in S |-> Value(g, k)]]
<1>0. n \in Nat /\ F \in [1 .. n -> [V -> V]]
  BY DEF Steps
<1>1. \A k \in S : k # 0 => k \in 1 .. n /\ k - 1 \in S /\ m[k - 1] < m[k]
  BY <1>0
<1>2. ASSUME NEW g \in [S -> V], NEW k \in S
      PROVE  Value(g, k) \in V
  <2> HIDE DEF S, m
  <2> QED BY <1>0, <1>1
<1>3. m \in [S -> Nat]
  BY <1>0
<1>4. G \in [[S -> V] -> [S -> V]]
  <2> HIDE DEF Value, S
  <2> QED BY <1>2
<1>5. ASSUME NEW g \in [S -> V], NEW h \in [S -> V], NEW k \in S,
             \A j \in S : m[j] < m[k] => g[j] = h[j]
      PROVE  G[g][k] = G[h][k]
  <2>1. k # 0 => g[k - 1] = h[k - 1]
    <3> HIDE DEF S, m
    <3> QED BY <1>1, <1>5
  <2>2. Value(g, k) = Value(h, k)
    BY <2>1
  <2> HIDE DEF Value, S
  <2>3. QED
    BY <2>2
<1>6. Recursive(G, S, V, m)
  <2> HIDE DEF G, m, S
  <2> QED BY <1>3, <1>4, <1>5 DEF Recursive
<1>7. PICK f \in [S -> V] : f = G[f]
  <2> HIDE DEF G, m, S
  <2> QED BY <1>6, RecursionTheorem
<1>8. f = [k \in S |-> Value(f, k)]
  <2> HIDE DEF Value, S
  <2> QED BY <1>7
<1>9. \A k \in S : f[k] = Value(f, k)
  <2> HIDE DEF Value, S
  <2> QED BY <1>8
<1>10. QED
  BY <1>0, <1>9 DEF Iterates

\* Every set of natural numbers has a least one, and a greatest one if bounded.
LEMMA SmallestIn ==
  ASSUME NEW S \in SUBSET Nat, S # {}
  PROVE  \E x \in S : \A y \in S : x <= y
<1> SUFFICES ASSUME \A x \in S : \E y \in S : ~(x <= y)
             PROVE  FALSE
  OBVIOUS
<1> DEFINE T == {n \in Nat : \A y \in S : n <= y}
<1>1. 0 \in T
  OBVIOUS
<1>2. ASSUME NEW n \in Nat, n \in T
      PROVE  n + 1 \in T
  <2>1. n \notin S
    BY <1>2
  <2>2. QED
    BY <1>2, <2>1
<1>3. Nat \subseteq T
  <2> HIDE DEF T
  <2> QED BY <1>1, <1>2, SetInduction
<1>4. PICK x \in S : TRUE
  OBVIOUS
<1>5. x + 1 \in T
  BY <1>3, <1>4
<1>6. QED
  BY <1>4, <1>5

LEMMA GreatestIn ==
  ASSUME NEW S \in SUBSET Nat, S # {}, NEW n \in Nat, \A x \in S : x <= n
  PROVE  \E x \in S : \A y \in S : y <= x
<1> DEFINE D == {n - x : x \in S}
<1>1. D \in SUBSET Nat /\ D # {}
  <2>1. \A x \in S : n - x \in Nat
    OBVIOUS
  <2>2. D \subseteq Nat
    BY <2>1
  <2>3. D # {}
    <3>1. PICK x : x \in S
      OBVIOUS
    <3>2. n - x \in D
      BY <3>1
    <3>3. QED
      BY <3>2
  <2>4. QED
    BY <2>2, <2>3
<1>2. PICK d \in D : \A c \in D : d <= c
  <2> HIDE DEF D
  <2> QED BY <1>1, SmallestIn
<1>3. PICK x \in S : d = n - x
  OBVIOUS
<1>4. \A y \in S : n - x <= n - y
  BY <1>2, <1>3
<1>5. QED
  BY <1>3, <1>4
=============================================================================

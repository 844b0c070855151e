---------------------------- MODULE TreeProofs ----------------------------
(***************************************************************************)
(* The tree that fpParse builds is the program it has read, for every      *)
(* text: written back in the order of the grammar, node by node, it gives  *)
(* the tokens of the text, except the => of an empty signature.            *)
(*                                                                         *)
(* While the tree is read, E[i] is the place where the units that begin    *)
(* with node i end, and 0 until the call that reads from node i returns.   *)
(* Every call waits at a place of its caller (Waits), each node is in a    *)
(* stage of its reading (Stage), and what has been read covers the tokens  *)
(* between its first one and E (Covers).  Growing(E) says so of the whole  *)
(* state; a step of the parser keeps it, and when the last call returns    *)
(* the tree is the program.                                                *)
(***************************************************************************)
EXTENDS GrammarProofs

-----------------------------------------------------------------------------
(* The text of a chain, put together again from its symbols.               *)

IsDotting(f, es, n, d) ==
  f = [i \in 1 .. n |-> IF i = n THEN es[i] ELSE es[i] \o d \o f[i + 1]]

LEMMA DottingIs ==
  ASSUME NEW S, NEW d \in Seq(S), d = Dot, NEW es \in Seq(Seq(S)), es # <<>>
  PROVE  \E f : IsDotting(f, es, Len(es), d) /\ Dotted(es) = f[1]
<1> DEFINE n == Len(es)
           D == 1 .. n
           V == Seq(S)
           v(g, i) == IF i = n THEN es[i] ELSE es[i] \o d \o g[i + 1]
           G == [g \in [D -> V] |-> [i \in D |-> v(g, i)]]
           m == [i \in D |-> n - i]
<1>1. n \in Nat /\ n >= 1 /\ \A i \in D : es[i] \in V
  BY EmptySeq, LenProperties, ElementOfSeq
<1>2. m \in [D -> Nat] /\ \A i \in D : i # n => i + 1 \in D /\ m[i + 1] < m[i]
  BY <1>1
<1>3. ASSUME NEW g \in [D -> V], NEW i \in D
      PROVE  v(g, i) \in V
  <2>1. i # n => g[i + 1] \in V
    BY <1>2
  <2>2. es[i] \in V
    BY <1>1
  <2>3. i # n => es[i] \o d \in V
    BY <2>2
  <2> HIDE DEF D, n
  <2>4. QED
    BY <2>1, <2>2, <2>3
<1>4. G \in [[D -> V] -> [D -> V]]
  <2> HIDE DEF v, V, D
  <2> QED BY <1>3
<1>5. ASSUME NEW g \in [D -> V], NEW h \in [D -> V], NEW i \in D,
             \A c \in D : m[c] < m[i] => g[c] = h[c]
      PROVE  G[g][i] = G[h][i]
  <2>1. i # n => g[i + 1] = h[i + 1]
    <3> HIDE DEF D, m, V
    <3> QED BY <1>2, <1>5
  <2>2. v(g, i) = v(h, i)
    BY <2>1
  <2> HIDE DEF v, D, V
  <2>3. QED
    BY <2>2
<1>6. Recursive(G, D, V, m)
  <2> HIDE DEF G, m, D, V
  <2> QED BY <1>2, <1>4, <1>5 DEF Recursive
<1>7. <<>> \in V
  BY EmptySeq
<1>8. PICK f \in [D -> V] : f = G[f]
  <2> HIDE DEF G, m, D, V
  <2> QED BY <1>6, <1>7, RecursionTheorem
<1>9. f = [i \in D |-> v(f, i)]
  <2> HIDE DEF v, D, V
  <2> QED BY <1>8
<1>10. IsDotting(f, es, n, d)
  <2> HIDE DEF V, n
  <2> QED BY <1>9, Zenon DEF IsDotting, v, D
<1> DEFINE h == CHOOSE h : IsDotting(h, es, n, d)
<1>11. IsDotting(h, es, n, d)
  BY <1>10
<1>12. Dotted(es) = h[1]
  <2> HIDE DEF V
  <2> QED BY Zenon DEF Dotted, IsDotting, Dot
<1>13. QED
  <2>1. IsDotting(h, es, Len(es), d)
    BY <1>11
  <2> HIDE DEF h
  <2>2. QED
    BY <1>12, <2>1

LEMMA DottedOne ==
  ASSUME NEW S, Dot \in Seq(S), NEW x \in Seq(S)
  PROVE  Dotted(<<x>>) = x
<1>1. PICK d \in Seq(S) : d = Dot
  OBVIOUS
<1>2. PICK es : es = <<x>>
  OBVIOUS
<1>3. es # <<>> /\ Len(es) = 1 /\ es[1] = x /\ es \in Seq(Seq(S))
  <2>1. \A V : x \in V => <<x>> \in Seq(V)
    OBVIOUS
  <2>2. es \in Seq(Seq(S))
    BY <1>2, <2>1
  <2>3. QED
    BY <1>2, <2>2
<1>4. PICK f : IsDotting(f, es, Len(es), d) /\ Dotted(es) = f[1]
  BY <1>1, <1>3, DottingIs
<1>5. 1 \in 1 .. Len(es) /\ 1 = Len(es)
  BY <1>3
<1>6. f[1] = es[1]
  BY <1>4, <1>5 DEF IsDotting
<1>7. QED
  BY <1>2, <1>3, <1>4, <1>6

LEMMA DottedMore ==
  ASSUME NEW S, NEW d \in Seq(S), d = Dot, NEW x \in Seq(S), NEW s \in Seq(Seq(S)), s # <<>>
  PROVE  Dotted(<<x>> \o s) = x \o d \o Dotted(s)
<1>1. PICK es : es = <<x>> \o s
  OBVIOUS
<1>2. PICK n \in Nat : n = Len(s)
  BY LenProperties
<1>3. n >= 1
  BY <1>2, EmptySeq
<1>4. /\ es \in Seq(Seq(S)) /\ Len(es) = n + 1 /\ es[1] = x
      /\ \A i \in 1 .. n : es[i + 1] = s[i]
  <2>0. \A V : x \in V => <<x>> \in Seq(V)
    OBVIOUS
  <2>01. <<x>> \in Seq(Seq(S)) /\ Len(<<x>>) = 1 /\ <<x>>[1] = x
    BY <2>0
  <2>1. /\ es \in Seq(Seq(S)) /\ Len(es) = 1 + n
        /\ \A i \in 1 .. 1 + n : es[i] = IF i <= 1 THEN <<x>>[i] ELSE s[i - 1]
    BY <1>1, <1>2, <2>01, ConcatProperties
  <2>2. \A i \in 1 .. n : i + 1 \in 1 .. 1 + n /\ ~(i + 1 <= 1) /\ (i + 1) - 1 = i
    OBVIOUS
  <2>3. 1 \in 1 .. 1 + n /\ 1 <= 1
    OBVIOUS
  <2>4. \A i \in 1 .. n : es[i + 1] = s[i]
    BY <2>1, <2>2
  <2>5. es[1] = x
    BY <2>01, <2>1, <2>3
  <2>6. QED
    BY <2>1, <2>4, <2>5
<1>5. es # <<>>
  BY <1>4
<1>6. PICK f : IsDotting(f, es, n + 1, d) /\ Dotted(es) = f[1]
  BY <1>4, <1>5, DottingIs
<1>7. PICK h : IsDotting(h, s, n, d) /\ Dotted(s) = h[1]
  BY <1>2, DottingIs
<1>8. \A i \in 1 .. n : h[i] = IF i = n THEN s[i] ELSE s[i] \o d \o h[i + 1]
  BY <1>7 DEF IsDotting
<1>9. \A i \in 1 .. n + 1 : f[i] = IF i = n + 1 THEN es[i] ELSE es[i] \o d \o f[i + 1]
  BY <1>6 DEF IsDotting
<1> DEFINE Same(i) == f[i + 1] = h[i]
<1>10. ASSUME NEW i \in 1 .. n, i # n => Same(i + 1)
       PROVE  Same(i)
  <2>1. i + 1 \in 1 .. n + 1 /\ (i + 1 = n + 1 <=> i = n)
    OBVIOUS
  <2>2. f[i + 1] = IF i = n THEN es[i + 1] ELSE es[i + 1] \o d \o f[(i + 1) + 1]
    BY <1>9, <2>1
  <2>3. es[i + 1] = s[i]
    BY <1>4
  <2>4. i # n => f[(i + 1) + 1] = h[i + 1]
    BY <1>10
  <2>5. QED
    BY <1>8, <2>2, <2>3, <2>4
<1> DEFINE T == {k \in Nat : k < n => Same(n - k)}
<1>11. 0 \in T
  <2>1. n \in 1 .. n /\ n - 0 = n
    BY <1>3
  <2> HIDE DEF Same
  <2>2. QED
    BY <1>10, <2>1
<1>12. ASSUME NEW k \in Nat, k \in T
       PROVE  k + 1 \in T
  <2>1. SUFFICES ASSUME k + 1 < n
                 PROVE  Same(n - (k + 1))
    OBVIOUS
  <2>2. n - (k + 1) \in 1 .. n /\ (n - (k + 1)) + 1 = n - k /\ k < n
    BY <2>1
  <2> HIDE DEF Same
  <2>3. Same((n - (k + 1)) + 1)
    BY <1>12, <2>2
  <2>4. QED
    BY <1>10, <2>2, <2>3
<1>13. Nat \subseteq T
  <2> HIDE DEF T
  <2> QED BY <1>11, <1>12, SetInduction
<1>14. f[2] = h[1]
  <2>1. n - 1 \in Nat /\ n - 1 < n /\ n - (n - 1) = 1
    BY <1>3
  <2>2. Same(1)
    <3> HIDE DEF Same
    <3> QED BY <1>13, <2>1
  <2>3. QED
    BY <2>2
<1>15. f[1] = es[1] \o d \o f[2]
  <2>1. 1 \in 1 .. n + 1 /\ 1 # n + 1 /\ 1 + 1 = 2
    BY <1>3
  <2>2. QED
    BY <1>9, <2>1
<1>16. QED
  BY <1>1, <1>4, <1>6, <1>7, <1>14, <1>15

LEMMA PartOf ==
  ASSUME NEW S, NEW w \in Seq(S), NEW a \in Nat, NEW b \in Nat, a <= b, b <= Len(w)
  PROVE  LET x == SubSeq(w, a + 1, b)
         IN  x \in Seq(S) /\ Len(x) = b - a /\ \A i \in 1 .. b - a : x[i] = w[a + i]
OBVIOUS

\* A chain's symbols, put together with dots, are the text again.
LEMMA ChainReadsBack ==
  ASSUME NEW S, NEW d \in Seq(S), d = Dot, NEW w \in Seq(S), IsChain(w)
  PROVE  ChainWritten(ChainElems(w)) = w
<1>1. PICK N \in Nat : N = Len(w)
  BY LenProperties
<1>2. PICK from : /\ IsCutting(from, w)
                  /\ ChainElems(w) = IF CharAt(w, 0) = "." THEN <<CharAt(w, 0)>> \o from[1]
                                     ELSE from[0]
  BY <1>1, CuttingExists
<1> DEFINE Chars(a, b) == SubSeq(w, a + 1, b)
<1>3. from[N + 1] = <<>> /\ \A b \in 0 .. N : from[b] = <<Chars(b, Cut(w, b))>> \o from[Cut(w, b) + 1]
  <2>1. \A b \in 0 .. N + 1 : from[b] = IF b > N THEN <<>> ELSE <<Chars(b, Cut(w, b))>> \o from[Cut(w, b) + 1]
    <3> HIDE DEF Chars
    <3>1. from = [b \in 0 .. N + 1 |-> IF b > N THEN <<>> ELSE <<Chars(b, Cut(w, b))>> \o from[Cut(w, b) + 1]]
      BY <1>1, <1>2, Zenon DEF IsCutting, Chars
    <3>2. QED
      BY <3>1
  <2>2. /\ N + 1 \in 0 .. N + 1 /\ N + 1 > N
        /\ \A b \in 0 .. N : b \in 0 .. N + 1 /\ ~(b > N)
    OBVIOUS
  <2> HIDE DEF Chars
  <2>3. QED
    BY <2>1, <2>2
<1>4. /\ N > 0 /\ CharAt(w, N - 1) # Dot
      /\ \A i \in 1 .. N - 1 : CharAt(w, i - 1) = Dot => CharAt(w, i) # Dot
  BY <1>1 DEF IsChain, LastOf, Dot
<1>5. Len(d) = 1
  <2>1. \A c \in Marks : Len(c) = 1
    BY MarksAre
  <2>2. QED
    BY <2>1, MarksAre
<1>6. \A a \in 0 .. N, b \in 0 .. N : Chars(a, b) \in Seq(S)
  BY <1>1
<1>7. \A b \in 0 .. N : /\ Cut(w, b) \in b .. N /\ (Cut(w, b) = N \/ CharAt(w, Cut(w, b)) = d)
                        /\ \A i \in b .. Cut(w, b) - 1 : CharAt(w, i) # d
  BY <1>1, CutIs DEF Dot
\* A part, a dot, and the rest.
<1>8. ASSUME NEW b \in 0 .. N, NEW c \in b .. N - 1, CharAt(w, c) = d
      PROVE  Chars(b, c) \o d \o Chars(c + 1, N) = Chars(b, N)
  <2>1. PICK x : x = Chars(b, c)
    OBVIOUS
  <2>2. PICK y : y = Chars(c + 1, N)
    OBVIOUS
  <2>3. PICK z : z = Chars(b, N)
    OBVIOUS
  <2>4. /\ x \in Seq(S) /\ Len(x) = c - b /\ \A i \in 1 .. c - b : x[i] = w[b + i]
        /\ z \in Seq(S) /\ Len(z) = N - b /\ \A i \in 1 .. N - b : z[i] = w[b + i]
        /\ y \in Seq(S) /\ Len(y) = N - (c + 1) /\ \A i \in 1 .. N - (c + 1) : y[i] = w[(c + 1) + i]
    <3>1. /\ 0 \leq b /\ b \in Nat /\ c \in Nat /\ b <= c /\ c <= N /\ c + 1 <= N /\ b <= N /\ c + 1 \in Nat
      OBVIOUS
    <3>2. x \in Seq(S) /\ Len(x) = c - b /\ \A i \in 1 .. c - b : x[i] = w[b + i]
      BY <1>1, <2>1, <3>1, PartOf
    <3>3. z \in Seq(S) /\ Len(z) = N - b /\ \A i \in 1 .. N - b : z[i] = w[b + i]
      BY <1>1, <2>3, <3>1, PartOf
    <3>4. y \in Seq(S) /\ Len(y) = N - (c + 1) /\ \A i \in 1 .. N - (c + 1) : y[i] = w[(c + 1) + i]
      BY <1>1, <2>2, <3>1, PartOf
    <3>5. QED
      BY <3>2, <3>3, <3>4
  <2>5. d[1] = w[c + 1]
    BY <1>1, <1>8, CharIs
  <2>6. PICK u : u = x \o d
    OBVIOUS
  <2>7. /\ u \in Seq(S) /\ Len(u) = (c - b) + 1
        /\ \A i \in 1 .. c - b : u[i] = w[b + i]
        /\ u[(c - b) + 1] = w[c + 1]
    <3>1. /\ u \in Seq(S) /\ Len(u) = Len(x) + Len(d)
          /\ \A i \in 1 .. Len(x) : u[i] = x[i]
          /\ \A i \in 1 .. Len(d) : u[Len(x) + i] = d[i]
      <4>1. x \in Seq(S)
        BY <2>4
      <4>2. QED
        BY ONLY <2>6, <4>1, d \in Seq(S), JoinIs
    <3>2. QED
      BY <1>5, <2>4, <2>5, <3>1
  <2>8. PICK v : v = u \o y
    OBVIOUS
  <2>9. /\ v \in Seq(S) /\ Len(v) = Len(u) + Len(y)
        /\ \A i \in 1 .. Len(u) : v[i] = u[i]
        /\ \A i \in 1 .. Len(y) : v[Len(u) + i] = y[i]
    <3>1. u \in Seq(S) /\ y \in Seq(S)
      BY <2>4, <2>7
    <3>2. QED
      BY ONLY <2>8, <3>1, JoinIs
  <2>10. Len(v) = N - b
    BY <2>4, <2>7, <2>9
  <2>11. ASSUME NEW i \in 1 .. N - b
         PROVE  v[i] = z[i]
    <3>1. CASE i \in 1 .. c - b
      BY <2>4, <2>7, <2>9, <3>1
    <3>2. CASE i = (c - b) + 1
      BY <2>4, <2>7, <2>9, <3>2
    <3>3. CASE i > (c - b) + 1
      <4>1. PICK j \in 1 .. N - (c + 1) : j = i - ((c - b) + 1)
        BY <3>3
      <4>2. v[Len(u) + j] = w[(c + 1) + j]
        BY <2>4, <2>9, <4>1
      <4>3. Len(u) + j = i /\ (c + 1) + j = b + i
        BY <2>7, <4>1
      <4>4. QED
        BY <2>4, <4>2, <4>3
    <3>4. QED
      BY <3>1, <3>2, <3>3
  <2>12. v = z
    <3>1. v = [i \in 1 .. N - b |-> v[i]] /\ z = [i \in 1 .. N - b |-> z[i]]
      BY <2>4, <2>9, <2>10
    <3>2. [i \in 1 .. N - b |-> v[i]] = [i \in 1 .. N - b |-> z[i]]
      BY <2>11
    <3>3. QED
      BY <3>1, <3>2
  <2>13. QED
    BY <2>1, <2>2, <2>3, <2>6, <2>8, <2>12
<1> DEFINE Again(b) == /\ from[b] \in Seq(Seq(S)) /\ from[b] # <<>>
                      /\ from[b][1] = Chars(b, Cut(w, b))
                      /\ Dotted(from[b]) = Chars(b, N)
<1>9. ASSUME NEW b \in 0 .. N - 1, CharAt(w, b) # d,
             \A c \in b + 1 .. N - 1 : CharAt(w, c) # d => Again(c)
      PROVE  Again(b)
  <2> DEFINE c == Cut(w, b)
             x == Chars(b, c)
  <2>1. c \in b .. N /\ (c = N \/ CharAt(w, c) = d)
    BY <1>7
  <2>2. x \in Seq(S)
    <3>1. b \in 0 .. N /\ c \in 0 .. N
      BY <2>1
    <3> HIDE DEF c, Chars
    <3>2. QED
      BY <1>6, <3>1
  <2>3. from[b] = <<x>> \o from[c + 1]
    <3>1. b \in 0 .. N
      OBVIOUS
    <3>2. QED
      BY <1>3, <3>1
  <2> HIDE DEF c, x
  <2>4. \A V : x \in V => <<x>> \in Seq(V) /\ <<x>> # <<>> /\ <<x>>[1] = x /\ <<x>> \o <<>> = <<x>>
    OBVIOUS
  <2>5. CASE c = N
    <3>1. from[b] = <<x>>
      BY <1>3, <2>2, <2>3, <2>4, <2>5
    <3>2. Dotted(<<x>>) = x
      BY <2>2, DottedOne
    <3>3. QED
      BY <2>2, <2>4, <2>5, <3>1, <3>2 DEF c, x
  <2>6. CASE c # N
    <3>1. CharAt(w, c) = d /\ c \in 0 .. N - 1
      BY <2>1, <2>6
    <3>2. c \in b + 1 .. N - 2
      <4>1. c # b
        BY <1>9, <3>1
      <4>2. c # N - 1
        BY <1>4, <3>1
      <4>3. QED
        BY <2>1, <2>6, <4>1, <4>2
    <3>3. CharAt(w, c + 1) # d
      <4>1. c + 1 \in 1 .. N - 1 /\ (c + 1) - 1 = c
        BY <3>2
      <4>2. QED
        BY <1>4, <3>1, <4>1
    <3>4. Again(c + 1)
      <4>1. c + 1 \in b + 1 .. N - 1
        BY <3>2
      <4> HIDE DEF Again
      <4>2. QED
        BY <1>9, <3>3, <4>1
    <3>5. PICK s : s = from[c + 1]
      OBVIOUS
    <3>6. s \in Seq(Seq(S)) /\ s # <<>> /\ Dotted(s) = Chars(c + 1, N)
      BY <3>4, <3>5
    <3>7. Dotted(<<x>> \o s) = x \o d \o Dotted(s)
      BY <2>2, <3>6, DottedMore
    <3>8. x \o d \o Chars(c + 1, N) = Chars(b, N)
      <4>1. c \in b .. N - 1
        BY <3>2
      <4> HIDE DEF Chars
      <4>2. QED
        BY <1>8, <3>1, <4>1 DEF x
    <3>9. PICK t : t = <<x>> \o s
      OBVIOUS
    <3>10. /\ t \in Seq(Seq(S)) /\ Len(t) = 1 + Len(s) /\ Len(s) \in Nat
           /\ \A i \in 1 .. 1 + Len(s) : t[i] = IF i <= 1 THEN <<x>>[i] ELSE s[i - 1]
      <4>1. <<x>> \in Seq(Seq(S)) /\ Len(<<x>>) = 1
        BY <2>2, <2>4
      <4>2. QED
        BY <3>6, <3>9, <4>1, ConcatProperties, LenProperties
    <3>11. t # <<>> /\ t[1] = x
      <4>1. 1 \in 1 .. 1 + Len(s) /\ 1 <= 1 /\ <<x>>[1] = x
        BY <3>10
      <4>2. QED
        BY <3>10, <4>1
    <3> HIDE DEF Chars
    <3>12. QED
      BY <2>3, <3>5, <3>6, <3>7, <3>8, <3>9, <3>10, <3>11 DEF x, c
  <2>7. QED
    BY <2>5, <2>6
<1> DEFINE T == {k \in Nat : \A b \in 0 .. N - 1 : N - 1 - b < k /\ CharAt(w, b) # d => Again(b)}
<1>10. 0 \in T
  OBVIOUS
<1>11. ASSUME NEW k \in Nat, k \in T
       PROVE  k + 1 \in T
  <2> HIDE DEF Again
  <2>1. SUFFICES ASSUME NEW b \in 0 .. N - 1, N - 1 - b < k + 1, CharAt(w, b) # d
                 PROVE  Again(b)
    OBVIOUS
  <2>2. \A c \in b + 1 .. N - 1 : c \in 0 .. N - 1 /\ N - 1 - c < k
    BY <2>1
  <2>3. QED
    BY <1>9, <1>11, <2>1, <2>2
<1>12. Nat \subseteq T
  <2> HIDE DEF T
  <2> QED BY <1>10, <1>11, SetInduction
<1>13. \A b \in 0 .. N - 1 : CharAt(w, b) # d => Again(b)
  <2> HIDE DEF Again
  <2>0. N \in T
    <3> HIDE DEF T
    <3> QED BY <1>12
  <2>1. N \in T /\ \A b \in 0 .. N - 1 : N - 1 - b < N
    BY <2>0
  <2>2. QED
    BY <2>1
<1>14. 0 \in 0 .. N - 1
  BY <1>4
<1>15. ChainWritten(ChainElems(w)) =
         LET es == ChainElems(w) IN IF Head(es) = d THEN d \o Dotted(Tail(es)) ELSE Dotted(es)
  BY Zenon DEF ChainWritten, Dot
<1>16. Chars(0, N) = w
  BY <1>1
<1>17. CASE CharAt(w, 0) = d
  <2>1. 1 \in 0 .. N - 1 /\ CharAt(w, 1) # d
    <3>1. N # 1
      BY <1>4, <1>17
    <3>2. 1 \in 1 .. N - 1 /\ 1 - 1 = 0
      BY <1>4, <3>1
    <3>3. QED
      BY <1>4, <1>17, <3>2
  <2>2. PICK s : s = from[1]
    OBVIOUS
  <2>3. s \in Seq(Seq(S)) /\ Dotted(s) = Chars(1, N)
    BY <1>13, <2>1, <2>2
  <2>4. ChainElems(w) = <<d>> \o s
    BY <1>2, <1>17, <2>2 DEF Dot
  <2>5. Head(<<d>> \o s) = d /\ Tail(<<d>> \o s) = s
    BY <2>3
  <2>6. ChainWritten(ChainElems(w)) = d \o Chars(1, N)
    BY <1>15, <2>3, <2>4, <2>5
  <2>7. Chars(0, 0) \o d \o Chars(0 + 1, N) = Chars(0, N)
    <3>1. 0 \in 0 .. N - 1
      BY <1>14
    <3> HIDE DEF Chars
    <3>2. QED
      BY <1>8, <1>17, <3>1
  <2>8. Chars(0, 0) \o d = d
    <3>1. Chars(0, 0) = <<>>
      BY <1>1
    <3>2. QED
      BY <3>1
  <2>9. 0 + 1 = 1
    OBVIOUS
  <2> HIDE DEF Chars
  <2>10. QED
    BY <1>16, <2>6, <2>7, <2>8, <2>9
<1>18. CASE CharAt(w, 0) # d
  <2>1. Again(0)
    <3> HIDE DEF Again
    <3> QED BY <1>13, <1>14, <1>18
  <2>2. PICK s : s = from[0]
    OBVIOUS
  <2>3. /\ s \in Seq(Seq(S)) /\ s # <<>> /\ s[1] = Chars(0, Cut(w, 0)) /\ Dotted(s) = Chars(0, N)
        /\ ChainElems(w) = s
    BY <1>2, <1>18, <2>1, <2>2 DEF Dot
  <2>4. Head(s) = Chars(0, Cut(w, 0))
    BY <2>3
  <2>5. Chars(0, Cut(w, 0)) # d
    <3>1. SUFFICES ASSUME Chars(0, Cut(w, 0)) = d
                   PROVE  FALSE
      OBVIOUS
    <3>2. Cut(w, 0) \in 0 .. N
      BY <1>7
    <3>3. Len(Chars(0, Cut(w, 0))) = Cut(w, 0)
      BY <1>1, <3>2
    <3>4. Cut(w, 0) = 1
      BY <1>5, <3>1, <3>3
    <3>5. CharAt(w, 0) = Chars(0, 1)
      BY <1>1, <1>14, CharIs
    <3>6. QED
      BY <1>18, <3>1, <3>4, <3>5
  <2> HIDE DEF Chars
  <2>6. QED
    BY <1>15, <1>16, <2>3, <2>4, <2>5
<1>19. QED
  BY <1>17, <1>18

-----------------------------------------------------------------------------
(* The tokens that leave a trace in the tree.                              *)

\* R[i] of them come before token i.
Ranked(R, N) ==
  /\ R \in [1 .. N + 1 -> Nat] /\ R[1] = 0
  /\ \A i \in 1 .. N : R[i + 1] = IF EmptySignature(i) THEN R[i] ELSE R[i] + 1
  /\ \A i \in 1 .. N + 1 : R[i] <= R[N + 1]
  /\ Kept \in Seq(1 .. N) /\ Len(Kept) = R[N + 1]
  /\ \A i \in 1 .. N : ~EmptySignature(i) => Kept[R[i] + 1] = i
  /\ \A p \in 1 .. Len(Kept) : ~EmptySignature(Kept[p]) /\ R[Kept[p]] + 1 = p

IsKept(f, N) ==
  f = [n \in 0 .. N |-> IF n = 0 THEN <<>>
                        ELSE IF EmptySignature(n) THEN f[n - 1] ELSE Append(f[n - 1], n)]

LEMMA KeptIs ==
  ASSUME NEW N \in Nat, N = Len(tokens)
  PROVE  \E R : Ranked(R, N)
<1> DEFINE V == Seq(1 .. N)
           step(n, s) == IF EmptySignature(n) THEN s ELSE Append(s, n)
           F == [n \in 1 .. N |-> [s \in V |-> step(n, s)]]
<1>0. \A n \in 1 .. N, s \in V : step(n, s) \in V
  BY AppendProperties
<1>1. \E f : IsKept(f, N)
  <2>2. Steps(F, N, V)
    <3> HIDE DEF step, V
    <3> QED BY <1>0 DEF Steps
  <2>3. <<>> \in V
    BY EmptySeq
  <2> HIDE DEF F, V
  <2>4. PICK f \in [0 .. N -> V] : Iterates(f, F, <<>>, N)
    BY <2>2, <2>3, IterationExists
  <2>5. ASSUME NEW n \in 1 .. N
        PROVE  f[n] = step(n, f[n - 1])
    <3>1. n - 1 \in 0 .. N
      OBVIOUS
    <3>2. f[n - 1] \in V /\ f[n] = F[n][f[n - 1]]
      BY <2>4, <3>1 DEF Iterates
    <3> HIDE DEF step
    <3>3. QED
      BY <3>2 DEF F
  <2>6. \A n \in 0 .. N : n = 0 \/ n \in 1 .. N
    OBVIOUS
  <2>7. f = [n \in 0 .. N |-> IF n = 0 THEN <<>> ELSE step(n, f[n - 1])]
    <3> HIDE DEF step
    <3> QED BY <2>4, <2>5, <2>6 DEF Iterates
  <2>8. QED
    BY <2>7, Zenon DEF IsKept
<1> DEFINE f == CHOOSE f : IsKept(f, N)
<1>2. IsKept(f, N)
  BY <1>1
<1>3. Kept = f[N]
  BY Zenon DEF Kept, IsKept
<1> HIDE DEF f
<1>4. f[0] = <<>> /\ \A n \in 1 .. N : f[n] = step(n, f[n - 1])
  <2>1. \A n \in 0 .. N : f[n] = IF n = 0 THEN <<>> ELSE step(n, f[n - 1])
    BY <1>2 DEF IsKept
  <2>2. 0 \in 0 .. N /\ \A n \in 1 .. N : n \in 0 .. N /\ n # 0
    OBVIOUS
  <2> HIDE DEF step
  <2>3. QED
    BY <2>1, <2>2
<1> DEFINE r(i) == Len(f[i - 1])
           Typed(n) == f[n] \in V
           Finds(n) == \A i \in 1 .. n : /\ r(i) <= Len(f[n])
                                         /\ ~EmptySignature(i) => /\ r(i) + 1 <= Len(f[n])
                                                                  /\ f[n][r(i) + 1] = i
           Founds(n) == \A p \in 1 .. Len(f[n]) : /\ f[n][p] \in 1 .. n
                                                  /\ ~EmptySignature(f[n][p])
                                                  /\ r(f[n][p]) + 1 = p
           T == {n \in Nat : n <= N => Typed(n) /\ Finds(n) /\ Founds(n)}
<1>5. 0 \in T
  <2>1. <<>> \in V /\ Len(<<>>) = 0
    BY EmptySeq
  <2> HIDE DEF V
  <2>2. QED
    BY <1>4, <2>1
<1>6. ASSUME NEW n \in Nat, n \in T
      PROVE  n + 1 \in T
  <2> SUFFICES ASSUME n + 1 <= N
               PROVE  Typed(n + 1) /\ Finds(n + 1) /\ Founds(n + 1)
    <3> HIDE DEF Typed, Finds, Founds
    <3> QED OBVIOUS
  <2>1. n <= N /\ n + 1 \in 1 .. N /\ (n + 1) - 1 = n
    OBVIOUS
  <2>2. Typed(n) /\ Finds(n) /\ Founds(n)
    <3> HIDE DEF Typed, Finds, Founds
    <3> QED BY <1>6, <2>1
  <2>3. f[n + 1] = step(n + 1, f[n])
    <3> HIDE DEF step
    <3> QED BY <1>4, <2>1
  <2>4. PICK s \in Seq(1 .. N) : s = f[n]
    BY <2>2
  <2>5. PICK t : t = f[n + 1]
    OBVIOUS
  <2>6. Len(s) \in Nat
    BY LenProperties
  <2>7. r(n + 1) = Len(s)
    BY <2>1, <2>4
  <2>8. /\ \A i \in 1 .. n : /\ r(i) <= Len(s)
                             /\ ~EmptySignature(i) => r(i) + 1 <= Len(s) /\ s[r(i) + 1] = i
        /\ \A p \in 1 .. Len(s) : /\ s[p] \in 1 .. n /\ ~EmptySignature(s[p])
                                  /\ r(s[p]) + 1 = p
    BY <2>2, <2>4
  <2>81. \A i \in 1 .. n : r(i) \in Nat
    <3>1. \A i \in 1 .. n : r(i) <= Len(s)
      BY <2>8
    <3> DEFINE T2 == {i \in Nat : i <= n => f[i] \in V}
    <3>2. 0 \in T2
      <4>1. <<>> \in V
        BY EmptySeq
      <4> HIDE DEF V
      <4>2. QED
        BY <1>4, <4>1
    <3>3. ASSUME NEW i \in Nat, i \in T2
          PROVE  i + 1 \in T2
      <4>1. SUFFICES ASSUME i + 1 <= n
                     PROVE  f[i + 1] \in V
        OBVIOUS
      <4>2. i + 1 \in 1 .. N /\ (i + 1) - 1 = i /\ i <= n
        BY <2>1, <4>1
      <4>3. f[i] \in V
        BY <3>3, <4>2
      <4>4. f[i + 1] = step(i + 1, f[i])
        <5> HIDE DEF step
        <5> QED BY <1>4, <4>2
      <4> HIDE DEF step, V
      <4>5. QED
        BY <1>0, <4>2, <4>3, <4>4
    <3>4. Nat \subseteq T2
      <4> HIDE DEF T2
      <4> QED BY <3>2, <3>3, SetInduction
    <3>5. ASSUME NEW i \in 1 .. n
          PROVE  r(i) \in Nat
      <4>1. i - 1 \in Nat /\ i - 1 <= n
        OBVIOUS
      <4>2. f[i - 1] \in V
        BY <3>4, <4>1
      <4>3. QED
        BY <4>2, LenProperties
    <3>6. QED
      BY <3>5
  <2> HIDE DEF r
  <2>9. CASE EmptySignature(n + 1)
    <3>1. t = s
      BY <2>3, <2>4, <2>5, <2>9
    <3>2. \A i \in 1 .. n + 1 : i \in 1 .. n \/ i = n + 1
      OBVIOUS
    <3>3. Typed(n + 1)
      BY <2>2, <2>4, <2>5, <3>1
    <3>4. Finds(n + 1)
      BY <2>5, <2>6, <2>7, <2>8, <2>9, <3>1, <3>2
    <3>5. Founds(n + 1)
      BY <2>5, <2>8, <3>1
    <3>6. QED
      BY <3>3, <3>4, <3>5
  <2>10. CASE ~EmptySignature(n + 1)
    <3>1. t = Append(s, n + 1)
      BY <2>3, <2>4, <2>5, <2>10
    <3>2. /\ t \in V /\ Len(t) = Len(s) + 1 /\ t[Len(s) + 1] = n + 1
          /\ \A p \in 1 .. Len(s) : t[p] = s[p]
      BY <2>1, <3>1, AppendProperties
    <3>3. \A i \in 1 .. n + 1 : i \in 1 .. n \/ i = n + 1
      OBVIOUS
    <3>4. Typed(n + 1)
      BY <2>5, <3>2
    <3>5. Finds(n + 1)
      <4>1. ASSUME NEW i \in 1 .. n + 1
            PROVE  /\ r(i) <= Len(t)
                   /\ ~EmptySignature(i) => r(i) + 1 <= Len(t) /\ t[r(i) + 1] = i
        <5>1. CASE i = n + 1
          BY <2>6, <2>7, <3>2, <5>1
        <5>2. CASE i \in 1 .. n
          <6>1. /\ r(i) <= Len(s) /\ r(i) \in Nat
                /\ ~EmptySignature(i) => r(i) + 1 <= Len(s) /\ s[r(i) + 1] = i
            BY <2>8, <2>81, <5>2
          <6>2. ~EmptySignature(i) => r(i) + 1 \in 1 .. Len(s)
            BY <2>6, <6>1
          <6>3. QED
            BY <2>6, <3>2, <6>1, <6>2
        <5>3. QED
          BY <3>3, <5>1, <5>2
      <4>2. QED
        BY <2>5, <4>1
    <3>6. Founds(n + 1)
      <4>1. ASSUME NEW p \in 1 .. Len(t)
            PROVE  t[p] \in 1 .. n + 1 /\ ~EmptySignature(t[p]) /\ r(t[p]) + 1 = p
        <5>1. CASE p \in 1 .. Len(s)
          <6>1. s[p] \in 1 .. n /\ ~EmptySignature(s[p]) /\ r(s[p]) + 1 = p
            BY <2>8, <5>1
          <6>2. t[p] = s[p]
            BY <3>2, <5>1
          <6>3. QED
            BY <6>1, <6>2
        <5>2. CASE p = Len(s) + 1
          BY <2>7, <2>10, <3>2, <5>2
        <5>3. QED
          BY <2>6, <3>2, <5>1, <5>2
      <4>2. QED
        BY <2>5, <4>1
    <3>7. QED
      BY <3>4, <3>5, <3>6
  <2>11. QED
    BY <2>9, <2>10
<1>7. Nat \subseteq T
  <2> HIDE DEF T
  <2> QED BY <1>5, <1>6, SetInduction
<1>8. \A n \in 0 .. N : Typed(n) /\ Finds(n) /\ Founds(n)
  <2>1. \A n \in 0 .. N : n \in Nat /\ n <= N
    OBVIOUS
  <2> HIDE DEF Typed, Finds, Founds
  <2>2. QED
    BY <1>7, <2>1
<1> DEFINE R == [i \in 1 .. N + 1 |-> r(i)]
<1>9. \A i \in 1 .. N + 1 : r(i) \in Nat
  <2>1. \A i \in 1 .. N + 1 : i - 1 \in 0 .. N
    OBVIOUS
  <2>2. \A i \in 1 .. N + 1 : f[i - 1] \in V
    BY <1>8, <2>1
  <2>3. QED
    BY <2>2, LenProperties
<1>10. R \in [1 .. N + 1 -> Nat] /\ R[1] = 0 /\ R[N + 1] = Len(f[N])
  <2>1. r(1) = 0 /\ r(N + 1) = Len(f[N])
    <3>1. 1 - 1 = 0 /\ (N + 1) - 1 = N /\ Len(<<>>) = 0
      OBVIOUS
    <3>2. QED
      BY <1>4, <3>1
  <2> HIDE DEF r
  <2>2. QED
    BY <1>9, <2>1
<1>11. \A i \in 1 .. N : R[i + 1] = IF EmptySignature(i) THEN R[i] ELSE R[i] + 1
  <2>1. ASSUME NEW i \in 1 .. N
        PROVE  r(i + 1) = IF EmptySignature(i) THEN r(i) ELSE r(i) + 1
    <3>1. (i + 1) - 1 = i /\ i - 1 \in 0 .. N
      OBVIOUS
    <3>2. f[i] = step(i, f[i - 1])
      BY <1>4
    <3>3. PICK s \in Seq(1 .. N) : s = f[i - 1]
      BY <1>8, <3>1
    <3>4. Len(Append(s, i)) = Len(s) + 1
      BY AppendProperties
    <3>5. QED
      BY <3>1, <3>2, <3>3, <3>4
  <2>2. \A i \in 1 .. N : i \in 1 .. N + 1 /\ i + 1 \in 1 .. N + 1
    OBVIOUS
  <2> HIDE DEF r
  <2>3. QED
    BY <2>1, <2>2
<1>12. Typed(N) /\ Finds(N) /\ Founds(N)
  <2>1. N \in 0 .. N
    OBVIOUS
  <2> HIDE DEF Typed, Finds, Founds
  <2>2. QED
    BY <1>8, <2>1
<1>13. \A i \in 1 .. N + 1 : i \in 1 .. N \/ i = N + 1
  OBVIOUS
<1>14. \A i \in 1 .. N : R[i] = r(i) /\ i \in 1 .. N + 1
  OBVIOUS
<1>15. Ranked(R, N)
  <2>1. \A i \in 1 .. N + 1 : R[i] <= R[N + 1]
    <3>1. \A i \in 1 .. N : R[i] <= R[N + 1]
      <4> HIDE DEF r
      <4> QED BY <1>10, <1>12, <1>14
    <3>2. R[N + 1] <= R[N + 1]
      <4>1. N + 1 \in 1 .. N + 1
        OBVIOUS
      <4> HIDE DEF R
      <4>2. QED
        BY <1>10, <4>1
    <3> HIDE DEF R
    <3>3. QED
      BY <1>13, <3>1, <3>2
  <2>2. \A i \in 1 .. N : ~EmptySignature(i) => Kept[R[i] + 1] = i
    <3> HIDE DEF r
    <3> QED BY <1>3, <1>12, <1>14
  <2>3. \A p \in 1 .. Len(Kept) : ~EmptySignature(Kept[p]) /\ R[Kept[p]] + 1 = p
    <3> HIDE DEF r
    <3> QED BY <1>3, <1>12, <1>14
  <2>4. Kept \in Seq(1 .. N) /\ Len(Kept) = R[N + 1]
    BY <1>3, <1>10, <1>12
  <2> HIDE DEF R
  <2>5. QED
    BY <1>10, <1>11, <2>1, <2>2, <2>3, <2>4 DEF Ranked
<1>16. QED
  BY <1>15

-----------------------------------------------------------------------------
(* The tree of a node, written back.                                       *)

Entries(N) == [node : 0 .. N,
               kind : {kinds[i] : i \in 1 .. N}
                        \cup {CloseBrace, ")", "CHAIN", "=>", "else", "do", "as"}]
OneEntry(v, kind) == <<[node |-> v, kind |-> kind]>>

ToChild(at, i, j) == IF j > i THEN at[j] ELSE <<>>
Signs(i)     == nodes[i].sub # 0 /\ nodes[nodes[i].sub].kind = "SIGBIND"
BoundNames(i) == {j \in DOMAIN nodes : j > i /\ nodes[j].kind = "SIGBIND"
                                       /\ \A k \in i + 1 .. j : nodes[k].kind = "SIGBIND"}
NameEntries(i) == [j \in 1 .. Max({0} \cup BoundNames(i)) - i |-> [node |-> i + j, kind |-> "CHAIN"]]
SignEntries(i) == IF Signs(i) THEN NameEntries(i) \o OneEntry(0, "=>") ELSE <<>>
Optionally(at, i, word) ==
  IF nodes[i].alt = 0 THEN <<>> ELSE OneEntry(0, word) \o ToChild(at, i, nodes[i].alt)

UnitEntries(at, i) ==
  LET node == nodes[i]
      It == OneEntry(i, kinds[i])
  IN  CASE node.kind \in Braces ->
             It \o SignEntries(i)
               \o ToChild(at, i, IF Signs(i) THEN nodes[i + 1].next ELSE node.sub)
               \o OneEntry(0, CloseBrace)
        [] node.kind \in {"(", "CHAIN("} -> It \o ToChild(at, i, node.sub) \o OneEntry(0, ")")
        [] node.kind = "then"  -> It \o ToChild(at, i, node.sub) \o Optionally(at, i, "else")
        [] node.kind = "until" -> It \o ToChild(at, i, node.sub) \o Optionally(at, i, "do")
        [] node.kind \in {"else", "do"} -> It \o ToChild(at, i, node.alt)
        [] node.kind = "import" ->
             It \o OneEntry(0, "CHAIN") \o
             (IF node.sub = 0 THEN <<>> ELSE OneEntry(0, "as") \o ToChild(at, i, node.sub))
        [] OTHER -> It \o ToChild(at, i, node.sub)

LEMMA WrittenAtIs ==
  ASSUME NEW at, NEW i
  PROVE  WrittenAt(at, i) = UnitEntries(at, i) \o ToChild(at, i, nodes[i].next)
BY Zenon DEF WrittenAt, UnitEntries, ToChild, OneEntry, SignEntries, NameEntries, BoundNames,
             Signs, Optionally, Braces, CloseBrace

LEMMA BracesApart ==
  \A k \in Braces : /\ k \notin {"(", "CHAIN(", "else", "do"}
                    /\ k # "then" /\ k # "until" /\ k # "import"
BY Zenon DEF Braces

LEMMA UnitEntriesAre ==
  ASSUME NEW at, NEW i
  PROVE  LET node == nodes[i]
             It == OneEntry(i, kinds[i])
         IN  /\ node.kind \in Braces =>
                  UnitEntries(at, i) =
                    It \o SignEntries(i)
                       \o ToChild(at, i, IF Signs(i) THEN nodes[i + 1].next ELSE node.sub)
                       \o OneEntry(0, CloseBrace)
             /\ node.kind \in {"(", "CHAIN("} =>
                  UnitEntries(at, i) = It \o ToChild(at, i, node.sub) \o OneEntry(0, ")")
             /\ node.kind = "then" =>
                  UnitEntries(at, i) = It \o ToChild(at, i, node.sub) \o Optionally(at, i, "else")
             /\ node.kind = "until" =>
                  UnitEntries(at, i) = It \o ToChild(at, i, node.sub) \o Optionally(at, i, "do")
             /\ node.kind \in {"else", "do"} =>
                  UnitEntries(at, i) = It \o ToChild(at, i, node.alt)
             /\ node.kind = "import" =>
                  UnitEntries(at, i) =
                    It \o OneEntry(0, "CHAIN") \o
                    (IF node.sub = 0 THEN <<>> ELSE OneEntry(0, "as") \o ToChild(at, i, node.sub))
             /\ node.kind \notin Braces \cup {"(", "CHAIN(", "then", "until", "else", "do", "import"} =>
                  UnitEntries(at, i) = It \o ToChild(at, i, node.sub)
<1>1. CASE nodes[i].kind \in Braces
  BY <1>1, BracesApart, Zenon DEF UnitEntries
<1>2. CASE nodes[i].kind \notin Braces
  BY <1>2 DEF UnitEntries
<1>3. QED
  BY <1>1, <1>2

\* What it takes for the tree to be written.
Linkable(N) ==
  /\ DOMAIN nodes = 1 .. N
  /\ \A i \in 1 .. N : /\ nodes[i].sub \in 0 .. N /\ nodes[i].alt \in 0 .. N
                       /\ nodes[i].next \in 0 .. N
                       /\ nodes[i].kind \in Braces /\ Signs(i) => i < N

LEMMA NameEntriesAre ==
  ASSUME NEW N \in Nat, DOMAIN nodes = 1 .. N, NEW i \in 1 .. N
  PROVE  LET last == Max({0} \cup BoundNames(i))
         IN  /\ last \in 0 .. N
             /\ NameEntries(i) \in Seq(Entries(N))
             /\ NameEntries(i) = [j \in 1 .. last - i |-> [node |-> i + j, kind |-> "CHAIN"]]
<1> DEFINE S == {0} \cup BoundNames(i)
<1>1. S \in SUBSET Nat /\ S # {} /\ \A x \in S : x <= N
  BY DEF BoundNames
<1> HIDE DEF S
<1>2. Max(S) \in S
  BY <1>1, MaxIs
<1>3. PICK m \in 0 .. N : m = Max(S)
  <2>1. Max(S) \in Nat /\ Max(S) <= N
    BY <1>1, <1>2
  <2>2. Max(S) \in 0 .. N
    BY <2>1
  <2>3. QED
    BY <2>2
<1>4. NameEntries(i) = [j \in 1 .. m - i |-> [node |-> i + j, kind |-> "CHAIN"]]
  BY <1>3 DEF NameEntries, S
<1>5. \A j \in 1 .. m - i : [node |-> i + j, kind |-> "CHAIN"] \in Entries(N)
  BY DEF Entries
<1>6. \E k \in Nat : 1 .. m - i = 1 .. k
  <2>1. CASE m - i >= 0
    <3>1. m - i \in Nat
      BY <2>1
    <3>2. QED
      BY <3>1
  <2>2. CASE m - i < 0
    <3>1. 1 .. m - i = 1 .. 0
      BY <2>2
    <3>2. QED
      BY <3>1
  <2>3. QED
    BY <2>1, <2>2
<1>7. PICK k \in Nat : 1 .. m - i = 1 .. k
  BY <1>6
<1>8. NameEntries(i) \in [1 .. k -> Entries(N)]
  BY <1>4, <1>5, <1>7
<1>9. NameEntries(i) \in Seq(Entries(N))
  BY <1>8, IsASeq
<1>10. QED
  BY <1>3, <1>4, <1>9 DEF S

LEMMA EntriesIn ==
  ASSUME NEW N \in Nat, Linkable(N), NEW V, V = Seq(Entries(N)),
         NEW at \in [0 .. N -> V], NEW i \in 1 .. N
  PROVE  WrittenAt(at, i) \in V
<1>1. \A j \in 0 .. N : ToChild(at, i, j) \in V
  <2>1. <<>> \in V
    BY EmptySeq
  <2>2. QED
    BY <2>1 DEF ToChild
<1>2. /\ \A kind \in {CloseBrace, ")", "CHAIN", "=>", "else", "do", "as"} :
           OneEntry(0, kind) \in V
      /\ OneEntry(i, kinds[i]) \in V
  <2>1. \A x \in Entries(N) : <<x>> \in Seq(Entries(N))
    OBVIOUS
  <2>2. /\ \A kind \in {CloseBrace, ")", "CHAIN", "=>", "else", "do", "as"} :
             [node |-> 0, kind |-> kind] \in Entries(N)
        /\ [node |-> i, kind |-> kinds[i]] \in Entries(N)
    BY DEF Entries
  <2>3. QED
    BY <2>1, <2>2 DEF OneEntry
<1>3. \A s \in V, t \in V : s \o t \in V
  BY ConcatProperties
<1>4. <<>> \in V
  BY EmptySeq
<1>5. NameEntries(i) \in V
  BY NameEntriesAre DEF Linkable
<1>6. /\ nodes[i].sub \in 0 .. N /\ nodes[i].alt \in 0 .. N /\ nodes[i].next \in 0 .. N
      /\ nodes[i].kind \in Braces /\ Signs(i) => nodes[i + 1].next \in 0 .. N
  BY DEF Linkable
<1>7. SignEntries(i) \in V
  BY <1>2, <1>3, <1>4, <1>5 DEF SignEntries
<1>8. \A word \in {"else", "do"} : Optionally(at, i, word) \in V
  BY <1>1, <1>2, <1>3, <1>4, <1>6 DEF Optionally
<1>9. UnitEntries(at, i) \in V
  <2> DEFINE It == OneEntry(i, kinds[i])
             child == IF Signs(i) THEN nodes[i + 1].next ELSE nodes[i].sub
  <2>1. /\ It \in V /\ ToChild(at, i, nodes[i].sub) \in V /\ ToChild(at, i, nodes[i].alt) \in V
        /\ nodes[i].kind \in Braces => ToChild(at, i, child) \in V
    BY <1>1, <1>2, <1>6
  <2> HIDE DEF It, child
  <2>2. CASE nodes[i].kind \in Braces
    <3>1. It \o SignEntries(i) \in V
      BY <1>3, <1>7, <2>1
    <3>2. (It \o SignEntries(i)) \o ToChild(at, i, child) \in V
      BY <1>3, <2>1, <2>2, <3>1
    <3>3. ((It \o SignEntries(i)) \o ToChild(at, i, child)) \o OneEntry(0, CloseBrace) \in V
      BY <1>2, <1>3, <3>2
    <3>4. UnitEntries(at, i) = ((It \o SignEntries(i)) \o ToChild(at, i, child)) \o OneEntry(0, CloseBrace)
      BY <2>2, UnitEntriesAre DEF It, child
    <3>5. QED
      BY <3>3, <3>4
  <2>3. CASE nodes[i].kind \notin Braces
    <3>2. It \o ToChild(at, i, nodes[i].sub) \in V /\ It \o ToChild(at, i, nodes[i].alt) \in V
          /\ It \o OneEntry(0, "CHAIN") \in V
      BY <1>2, <1>3, <2>1
    <3>3. (IF nodes[i].sub = 0 THEN <<>> ELSE OneEntry(0, "as") \o ToChild(at, i, nodes[i].sub)) \in V
      BY <1>2, <1>3, <1>4, <2>1
    <3>4. /\ (It \o ToChild(at, i, nodes[i].sub)) \o OneEntry(0, ")") \in V
          /\ (It \o ToChild(at, i, nodes[i].sub)) \o Optionally(at, i, "else") \in V
          /\ (It \o ToChild(at, i, nodes[i].sub)) \o Optionally(at, i, "do") \in V
      BY <1>2, <1>3, <1>8, <3>2
    <3>5. (It \o OneEntry(0, "CHAIN")) \o (IF nodes[i].sub = 0 THEN <<>> ELSE OneEntry(0, "as") \o ToChild(at, i, nodes[i].sub)) \in V
      BY <1>3, <3>2, <3>3
    <3>6. QED
      BY <2>3, <3>2, <3>4, <3>5, UnitEntriesAre DEF It
  <2>4. QED
    BY <2>2, <2>3
<1>10. ToChild(at, i, nodes[i].next) \in V
  BY <1>1, <1>6
<1>11. QED
  BY <1>3, <1>9, <1>10, WrittenAtIs

LEMMA SameChildren ==
  ASSUME NEW N \in Nat, Linkable(N), NEW i \in 1 .. N, NEW g, NEW h,
         \A j \in 0 .. N : j > i => g[j] = h[j]
  PROVE  WrittenAt(g, i) = WrittenAt(h, i)
<1>1. \A j \in 0 .. N : ToChild(g, i, j) = ToChild(h, i, j)
  BY DEF ToChild
<1>2. /\ nodes[i].sub \in 0 .. N /\ nodes[i].alt \in 0 .. N /\ nodes[i].next \in 0 .. N
      /\ nodes[i].kind \in Braces /\ Signs(i) => nodes[i + 1].next \in 0 .. N
  BY DEF Linkable
<1> DEFINE child == IF Signs(i) THEN nodes[i + 1].next ELSE nodes[i].sub
<1>3. /\ ToChild(g, i, nodes[i].sub) = ToChild(h, i, nodes[i].sub)
      /\ ToChild(g, i, nodes[i].alt) = ToChild(h, i, nodes[i].alt)
      /\ ToChild(g, i, nodes[i].next) = ToChild(h, i, nodes[i].next)
      /\ nodes[i].kind \in Braces => ToChild(g, i, child) = ToChild(h, i, child)
  BY <1>1, <1>2
<1>4. \A word : Optionally(g, i, word) = Optionally(h, i, word)
  BY <1>3, Zenon DEF Optionally
<1>5. UnitEntries(g, i) = UnitEntries(h, i)
  <2>1. CASE nodes[i].kind \in Braces
    <3>1. \A at : UnitEntries(at, i) =
                    OneEntry(i, kinds[i]) \o SignEntries(i) \o ToChild(at, i, child)
                      \o OneEntry(0, CloseBrace)
      BY <2>1, UnitEntriesAre
    <3> HIDE DEF child
    <3>2. QED
      BY <1>3, <2>1, <3>1
  <2>2. CASE nodes[i].kind \notin Braces
    BY <1>3, <1>4, <2>2 DEF UnitEntries
  <2>3. QED
    BY <2>1, <2>2
<1>6. QED
  BY <1>3, <1>5, WrittenAtIs

IsWritten(f, N) == f = [i \in 0 .. N |-> IF i = 0 THEN <<>> ELSE WrittenAt(f, i)]

LEMMA WrittenIs ==
  ASSUME NEW N \in Nat, N = Len(tokens), Linkable(N)
  PROVE  /\ Written[0] = <<>>
         /\ \A i \in 1 .. N :
              Written[i] = UnitEntries(Written, i) \o ToChild(Written, i, nodes[i].next)
<1> DEFINE D == 0 .. N
           V == Seq(Entries(N))
           v(g, i) == IF i = 0 THEN <<>> ELSE WrittenAt(g, i)
           G == [g \in [D -> V] |-> [i \in D |-> v(g, i)]]
           m == [i \in D |-> N - i]
<1>1. <<>> \in V
  BY EmptySeq
<1>2. m \in [D -> Nat]
  OBVIOUS
<1>3. ASSUME NEW g \in [D -> V], NEW i \in D
      PROVE  v(g, i) \in V
  <2>1. CASE i = 0
    <3> HIDE DEF V
    <3> QED BY <1>1, <2>1
  <2>2. CASE i # 0
    <3>1. i \in 1 .. N
      BY <2>2
    <3>2. WrittenAt(g, i) \in V
      BY <3>1, EntriesIn
    <3> HIDE DEF V
    <3>3. QED
      BY <2>2, <3>2
  <2>3. QED
    BY <2>1, <2>2
<1>4. G \in [[D -> V] -> [D -> V]]
  <2> HIDE DEF v, V, D
  <2> QED BY <1>3
<1>5. ASSUME NEW g \in [D -> V], NEW h \in [D -> V], NEW i \in D,
             \A c \in D : m[c] < m[i] => g[c] = h[c]
      PROVE  G[g][i] = G[h][i]
  <2>1. \A j \in 0 .. N : j > i => g[j] = h[j]
    <3>1. \A j \in 0 .. N : j > i => m[j] < m[i]
      OBVIOUS
    <3> HIDE DEF m, V
    <3>2. QED
      BY <1>5, <3>1
  <2>2. v(g, i) = v(h, i)
    <3>1. CASE i = 0
      BY <3>1
    <3>2. CASE i # 0
      <4>1. i \in 1 .. N
        BY <3>2
      <4>2. WrittenAt(g, i) = WrittenAt(h, i)
        <5> HIDE DEF V
        <5> QED BY <2>1, <4>1, SameChildren
      <4>3. QED
        BY <3>2, <4>2
    <3>3. QED
      BY <3>1, <3>2
  <2> HIDE DEF v, D, V
  <2>3. QED
    BY <2>2
<1>6. Recursive(G, D, V, m)
  <2> HIDE DEF G, m, D, V
  <2> QED BY <1>2, <1>4, <1>5 DEF Recursive
<1>7. PICK f \in [D -> V] : f = G[f]
  <2> HIDE DEF G, m, D, V
  <2> QED BY <1>1, <1>6, RecursionTheorem
<1>8. f = [i \in D |-> v(f, i)]
  <2> HIDE DEF v, D, V
  <2> QED BY <1>7
<1>9. IsWritten(f, N)
  <2> HIDE DEF V
  <2> QED BY <1>8, Zenon DEF IsWritten, v, D
<1> DEFINE h == CHOOSE h : IsWritten(h, N)
<1>10. IsWritten(h, N)
  BY <1>9
<1>11. Written = h
  <2> HIDE DEF V
  <2> QED BY Zenon DEF Written, IsWritten
<1> HIDE DEF h
<1>12. \A i \in 0 .. N : h[i] = IF i = 0 THEN <<>> ELSE WrittenAt(h, i)
  BY <1>10 DEF IsWritten
<1>13. 0 \in 0 .. N /\ \A i \in 1 .. N : i \in 0 .. N /\ i # 0
  OBVIOUS
<1>14. h[0] = <<>> /\ \A i \in 1 .. N : h[i] = WrittenAt(h, i)
  BY <1>12, <1>13
<1>15. QED
  BY <1>11, <1>14, WrittenAtIs

-----------------------------------------------------------------------------
(* The tree of a text that has been read: E[i] is the place where the      *)
(* units that begin with node i end.                                       *)

Applied == Prefixed \cup {"CHAIN:", "CHAIN!"}

TokenAt(p) == IF p \in 1 .. Len(tokens) THEN kinds[p] ELSE "end"
WordOf(kind) == IF kind = "then" THEN "else" ELSE "do"

\* The unit at p ends at q.  Alone: with no unit after it in its node's chain.
Grown(E, p, q) == p \in 1 .. Len(tokens) /\ E[p] = q
Alone(E, p, q) == Grown(E, p, q) /\ nodes[p].next = 0

\* A link to the units from p to q, if there are any.
Linked(E, link, p, q) == IF link = 0 THEN p = q ELSE link = p /\ Grown(E, p, q)

\* What the node of braces has between its first token and p.
Inner(E, x, p) ==
  \/ \E q \in {x + 1} \cup {r \in {x + 2} : TokenAt(x + 1) = "=>"} :
       Linked(E, nodes[x].sub, q, p)
  \/ \E z \in x + 1 .. Len(tokens) :
       /\ nodes[x].sub = z
       /\ \A i \in x + 1 .. z : nodes[i].kind = "SIGBIND"
       /\ TokenAt(z + 1) = "=>"
       /\ Linked(E, nodes[x + 1].next, z + 2, p)

Optioned(E, x, u) ==
  LET word == WordOf(kinds[x])
  IN  /\ nodes[x].sub = x + 1
      /\ \E q \in 1 .. Len(tokens) + 1 :
           /\ Alone(E, x + 1, q)
           /\ \/ nodes[x].alt = 0 /\ u = q /\ TokenAt(q) # word
              \/ nodes[x].alt = q + 1 /\ TokenAt(q) = word /\ Alone(E, q + 1, u)

Imported(E, x, u) ==
  /\ TokenAt(x + 1) = "CHAIN"
  /\ \/ nodes[x].sub = 0 /\ u = x + 2
     \/ /\ TokenAt(x + 2) = "as" /\ TokenAt(x + 3) = "CHAIN"
        /\ nodes[x].sub = x + 3 /\ u = x + 4 /\ Alone(E, x + 3, u)

\* The fields of the node of a unit from x to u.
Whole(E, x, u) ==
  LET kind == kinds[x]
      node == nodes[x]
  IN  \/ kind \in Literals \cup ChainKinds /\ node.sub = 0 /\ u = x + 1
      \/ kind \in Applied /\ node.sub = x + 1 /\ Alone(E, x + 1, u)
      \/ kind \in {"(", "CHAIN("} /\ TokenAt(u - 1) = ")" /\ Linked(E, node.sub, x + 1, u - 1)
      \/ kind \in Braces /\ TokenAt(u - 1) = CloseBrace /\ Inner(E, x, u - 1)
      \/ kind \in {"then", "until"} /\ Optioned(E, x, u)
      \/ kind \in {"else", "do"} /\ node.alt = x + 1 /\ Alone(E, x + 1, u)
      \/ kind = "import" /\ Imported(E, x, u)

Chained(x) ==
  LET text == ChainText(kinds[x], Lexeme(x))
  IN  nodes[x].chain = ChainElems(text) /\ ChainParses(text)

Rule(E, x, e) ==
  /\ nodes[x].kind = kinds[x]
  /\ kinds[x] \in DOMAIN ChainMargins => Chained(x)
  /\ \E u \in 1 .. Len(tokens) + 1 : Whole(E, x, u) /\ Linked(E, nodes[x].next, u, e)


Complete(E, N) ==
  /\ Linkable(N)
  /\ \A i \in 1 .. N :
       /\ E[i] # 0 => E[i] \in i + 1 .. N + 1 /\ Rule(E, i, E[i])
       /\ nodes[i].kind = "SIGBIND" => kinds[i] = "CHAIN"

\* out is what the tokens from a to e leave in the tree.
Covers(R, N, out, a, e) ==
  /\ out \in Seq(Entries(N))
  /\ Len(out) = R[e] - R[a]
  /\ \A p \in 1 .. Len(out) : /\ out[p].kind = kinds[Kept[R[a] + p]]
                              /\ out[p].node \in {0, Kept[R[a] + p]}

LEMMA CoversJoin ==
  ASSUME NEW N \in Nat, NEW R, Ranked(R, N), NEW a \in 1 .. N + 1, NEW b \in 1 .. N + 1,
         NEW e \in 1 .. N + 1, NEW s, NEW t, Covers(R, N, s, a, b), Covers(R, N, t, b, e)
  PROVE  Covers(R, N, s \o t, a, e)
<1>1. PICK r : r = s \o t
  OBVIOUS
<1>2. PICK S : S = Entries(N)
  OBVIOUS
<1>3. PICK x \in Nat, y \in Nat, z \in Nat : x = R[a] /\ y = R[b] /\ z = R[e]
  BY DEF Ranked
<1>4. /\ s \in Seq(S) /\ Len(s) = y - x /\ t \in Seq(S) /\ Len(t) = z - y
      /\ \A p \in 1 .. Len(s) : s[p].kind = kinds[Kept[x + p]] /\ s[p].node \in {0, Kept[x + p]}
      /\ \A p \in 1 .. Len(t) : t[p].kind = kinds[Kept[y + p]] /\ t[p].node \in {0, Kept[y + p]}
  BY <1>2, <1>3 DEF Covers
<1>5. /\ r \in Seq(S) /\ Len(r) = Len(s) + Len(t)
      /\ \A i \in 1 .. Len(s) : r[i] = s[i]
      /\ \A i \in 1 .. Len(t) : r[Len(s) + i] = t[i]
  <2>1. s \in Seq(S) /\ t \in Seq(S)
    BY <1>4
  <2>2. QED
    BY ONLY <1>1, <2>1, JoinIs
<1>6. Len(r) = z - x
  BY <1>4, <1>5
<1>7. ASSUME NEW p \in 1 .. Len(r)
      PROVE  r[p].kind = kinds[Kept[x + p]] /\ r[p].node \in {0, Kept[x + p]}
  <2>1. CASE p <= Len(s)
    <3>1. p \in 1 .. Len(s)
      BY <1>4, <2>1
    <3>2. QED
      BY <1>4, <1>5, <3>1
  <2>2. CASE ~(p <= Len(s))
    <3>1. PICK q \in 1 .. Len(t) : p = Len(s) + q
      <4>1. p - Len(s) \in 1 .. Len(t) /\ p = Len(s) + (p - Len(s))
        BY <1>4, <1>5, <1>6, <2>2
      <4>2. QED
        BY <4>1
    <3>2. y + q = x + p
      BY <1>4, <3>1
    <3>3. t[q].kind = kinds[Kept[y + q]] /\ t[q].node \in {0, Kept[y + q]} /\ r[p] = t[q]
      BY <1>4, <1>5, <3>1
    <3>4. QED
      BY <3>2, <3>3
  <2>3. QED
    BY <2>1, <2>2
<1>8. QED
  BY <1>1, <1>2, <1>3, <1>5, <1>6, <1>7 DEF Covers

LEMMA CoversOne ==
  ASSUME NEW N \in Nat, NEW R, Ranked(R, N), NEW i \in 1 .. N, ~EmptySignature(i),
         NEW v \in {0, i}, NEW kind, kind = kinds[i]
  PROVE  Covers(R, N, OneEntry(v, kind), i, i + 1)
<1>2. R[i + 1] = R[i] + 1 /\ Kept[R[i] + 1] = i /\ R[i] \in Nat
  BY DEF Ranked
<1>3. [node |-> v, kind |-> kind] \in Entries(N)
  BY DEF Entries
<1>4. PICK x : x = [node |-> v, kind |-> kind]
  OBVIOUS
<1>5. x.node = v /\ x.kind = kind
  BY <1>4
<1>6. PICK r : r = <<x>>
  OBVIOUS
<1>7. PICK S : S = Entries(N)
  OBVIOUS
<1>8. r \in Seq(S) /\ Len(r) = 1 /\ r[1] = x
  BY <1>3, <1>4, <1>6, <1>7
<1>9. \A p \in 1 .. Len(r) : p = 1
  BY <1>8
<1>10. Covers(R, N, r, i, i + 1)
  BY <1>2, <1>5, <1>7, <1>8, <1>9 DEF Covers
<1>11. QED
  BY <1>4, <1>6, <1>10 DEF OneEntry

LEMMA CoversNone ==
  ASSUME NEW N \in Nat, NEW R, Ranked(R, N), NEW i \in 1 .. N + 1, NEW e \in 1 .. N + 1,
         e = i \/ (e = i + 1 /\ EmptySignature(i))
  PROVE  Covers(R, N, <<>>, i, e)
<1>1. R[e] = R[i] /\ R[i] \in Nat
  BY DEF Ranked
<1>2. PICK S : S = Entries(N)
  OBVIOUS
<1>3. <<>> \in Seq(S) /\ Len(<<>>) = 0
  BY EmptySeq
<1>4. QED
  BY <1>1, <1>2, <1>3 DEF Covers

LEMMA EmptyIs ==
  /\ \A i : EmptySignature(i) <=> kinds[i] = "=>" /\ kinds[i - 1] \in Braces
  /\ "CHAIN" \notin Braces /\ "=>" \notin Braces /\ "as" \notin Braces /\ ")" \notin Braces
  /\ CloseBrace \notin Braces
BY Zenon DEF EmptySignature, Braces, CloseBrace

\* The names of a signature and its => cover the tokens between them.
LEMMA NamesCover ==
  ASSUME NEW N \in Nat, DOMAIN nodes = 1 .. N, NEW R, Ranked(R, N),
         NEW x \in 1 .. N, NEW z \in x + 1 .. N, z + 1 \in 1 .. N,
         \A i \in x + 1 .. z : nodes[i].kind = "SIGBIND" /\ kinds[i] = "CHAIN",
         nodes[z + 1].kind # "SIGBIND", kinds[z + 1] = "=>"
  PROVE  Covers(R, N, NameEntries(x) \o OneEntry(0, "=>"), x + 1, z + 2)
<1>1. BoundNames(x) = x + 1 .. z
  <2>1. ASSUME NEW j \in 1 .. N, j > x, \A k \in x + 1 .. j : nodes[k].kind = "SIGBIND"
        PROVE  j <= z
    <3>1. CASE z + 1 <= j
      BY <2>1, <3>1
    <3>2. QED
      BY <3>1
  <2>2. \A j \in x + 1 .. z : j \in 1 .. N /\ j > x
    OBVIOUS
  <2>3. QED
    BY <2>1, <2>2 DEF BoundNames
<1>2. Max({0} \cup BoundNames(x)) = z
  <2>1. PICK S : S = {0} \cup BoundNames(x)
    OBVIOUS
  <2>2. S \in SUBSET Nat /\ S # {} /\ z \in S /\ \A y \in S : y <= z
    BY <1>1, <2>1
  <2>3. Max(S) \in S /\ Max(S) >= z
    BY <2>2, MaxIs
  <2>4. Max(S) = z
    <3>1. PICK m : m = Max(S)
      OBVIOUS
    <3>2. m \in Nat /\ m <= z /\ m >= z
      BY <2>2, <2>3, <3>1
    <3>3. QED
      BY <3>1, <3>2
  <2>5. QED
    BY <2>1, <2>4
<1>3. PICK t : t = NameEntries(x)
  OBVIOUS
<1>4. /\ t = [j \in 1 .. z - x |-> [node |-> x + j, kind |-> "CHAIN"]]
      /\ t \in Seq(Entries(N))
  BY <1>2, <1>3, NameEntriesAre
<1>5. z - x \in Nat /\ Len(t) = z - x
  BY <1>4
<1>6. ~EmptySignature(z + 1) /\ \A i \in x + 1 .. z : ~EmptySignature(i)
  <2>1. kinds[z] = "CHAIN" /\ (z + 1) - 1 = z
    OBVIOUS
  <2>2. \A i \in x + 1 .. z : kinds[i] # "=>"
    OBVIOUS
  <2>3. QED
    BY <2>1, <2>2, EmptyIs
<1> DEFINE T == {j \in Nat : j <= z - x => R[x + 1 + j] = R[x + 1] + j}
<1>7. 0 \in T
  BY DEF Ranked
<1>8. ASSUME NEW j \in Nat, j \in T
      PROVE  j + 1 \in T
  <2> SUFFICES ASSUME j + 1 <= z - x
               PROVE  R[x + 1 + (j + 1)] = R[x + 1] + (j + 1)
    OBVIOUS
  <2>1. x + 1 + j \in x + 1 .. z /\ x + 1 + j \in 1 .. N
        /\ x + 1 + (j + 1) = (x + 1 + j) + 1
    OBVIOUS
  <2>2. R[x + 1 + j] = R[x + 1] + j
    BY <1>8
  <2>3. R[(x + 1 + j) + 1] = R[x + 1 + j] + 1
    BY <1>6, <2>1 DEF Ranked
  <2>4. x + 1 \in 1 .. N + 1 /\ R[x + 1] \in Nat
    BY DEF Ranked
  <2>5. QED
    BY <2>1, <2>2, <2>3, <2>4
<1>9. Nat \subseteq T
  <2> HIDE DEF T
  <2> QED BY <1>7, <1>8, SetInduction
<1>10. \A j \in 0 .. z - x : R[x + 1 + j] = R[x + 1] + j
  BY <1>9
<1> HIDE DEF T
<1>11. /\ R[x + 1] \in Nat /\ R[z + 1] = R[x + 1] + (z - x)
       /\ R[z + 1] \in Nat /\ x + 1 \in 1 .. N + 1
  <2>1. z - x \in 0 .. z - x /\ x + 1 + (z - x) = z + 1 /\ x + 1 \in 1 .. N + 1
    BY <1>5
  <2>2. R[x + 1] \in Nat /\ R[z + 1] \in Nat
    BY <2>1 DEF Ranked
  <2>3. QED
    BY <1>10, <2>1, <2>2
<1>12. ASSUME NEW p \in 1 .. Len(t)
       PROVE  /\ t[p].kind = kinds[Kept[R[x + 1] + p]]
              /\ t[p].node \in {0, Kept[R[x + 1] + p]}
  <2>1. p \in 1 .. z - x /\ x + p \in x + 1 .. z /\ p - 1 \in 0 .. z - x
        /\ x + p \in 1 .. N /\ x + p = x + 1 + (p - 1)
    BY <1>5
  <2>2. R[x + p] = R[x + 1] + (p - 1)
    BY <1>10, <2>1
  <2>3. Kept[R[x + p] + 1] = x + p
    BY <1>6, <2>1 DEF Ranked
  <2>4. R[x + p] + 1 = R[x + 1] + p
    BY <1>11, <2>1, <2>2, SMTT(30)
  <2>5. t[p] = [node |-> x + p, kind |-> "CHAIN"]
    BY <1>4, <2>1
  <2>6. t[p].node = x + p /\ t[p].kind = "CHAIN"
    BY <2>5
  <2>7. QED
    BY <2>1, <2>3, <2>4, <2>6
<1>13. Covers(R, N, t, x + 1, z + 1)
  <2>1. Len(t) = R[z + 1] - R[x + 1]
    BY <1>5, <1>11
  <2>2. t \in Seq(Entries(N))
    BY <1>4
  <2>3. QED
    BY <1>12, <2>1, <2>2 DEF Covers
<1>14. Covers(R, N, OneEntry(0, "=>"), z + 1, (z + 1) + 1)
  BY <1>6, CoversOne
<1>15. z + 1 \in 1 .. N + 1 /\ z + 2 \in 1 .. N + 1 /\ (z + 1) + 1 = z + 2
  OBVIOUS
<1>16. PICK o : o = OneEntry(0, "=>")
  OBVIOUS
<1>17. Covers(R, N, t \o o, x + 1, z + 2)
  BY <1>11, <1>13, <1>14, <1>15, <1>16, CoversJoin
<1>18. QED
  BY <1>3, <1>16, <1>17

-----------------------------------------------------------------------------
(* A tree is written as the tokens it was read from.                       *)

Known == Literals \cup ChainKinds \cup Prefixed \cup OtherKinds

LEMMA KnownKinds ==
  /\ "=>" \notin Known /\ "SIGBIND" \notin Known /\ "none" \notin Known /\ "CHAIN" \in Known
  /\ \A k \in Known : k \notin Braces => k \in Literals \/ k \in ChainKinds \/ k \in Applied
                        \/ k \in {"CHAIN(", "(", "then", "until", "else", "do", "import"}
BY Zenon DEF Known, Literals, ChainKinds, Prefixed, Operators, Specials, OtherKinds, Braces, Applied

LEMMA WholeKnown ==
  ASSUME NEW E, NEW x, NEW u, Whole(E, x, u)
  PROVE  kinds[x] \in Known
BY DEF Whole, Known, OtherKinds, Applied

LEMMA PlainKinds ==
  \A k \in Literals \cup ChainKinds \cup Applied :
    k \notin Braces \cup {"(", "CHAIN(", "then", "until", "else", "do", "import"}
BY Zenon DEF Literals, ChainKinds, Prefixed, Operators, Specials, Braces, Applied

LEMMA WordsApart ==
  \A k \in {"(", "CHAIN(", "then", "until", "else", "do", "import", ")", "as", "CHAIN", "=>",
            "SIGBIND", CloseBrace} : k \notin Braces
BY Zenon DEF Braces, CloseBrace

LEMMA TokenIs ==
  ASSUME NEW p, NEW kind, kind # "end", TokenAt(p) = kind
  PROVE  p \in 1 .. Len(tokens) /\ kinds[p] = kind
BY DEF TokenAt

\* out covers the tokens from a to e, the last of which opens no signature.
Spells(R, N, out, a, e) ==
  /\ a <= e
  /\ Covers(R, N, out, a, e)
  /\ a < e => kinds[e - 1] \notin Braces

Spelt(E, R, N, j) == E[j] # 0 => Spells(R, N, Written[j], j, E[j])

LEMMA SpellsJoin ==
  ASSUME NEW N \in Nat, NEW R, Ranked(R, N), NEW a \in 1 .. N + 1, NEW b \in 1 .. N + 1,
         NEW e \in 1 .. N + 1, NEW s, NEW t, Covers(R, N, s, a, b), a <= b, Spells(R, N, t, b, e),
         b < e \/ Spells(R, N, s, a, b)
  PROVE  Spells(R, N, s \o t, a, e)
<1>1. Covers(R, N, s \o t, a, e)
  BY CoversJoin DEF Spells
<1>2. a <= e /\ (b < e \/ b = e)
  BY DEF Spells
<1>3. PICK r : r = s \o t
  OBVIOUS
<1>4. QED
  BY <1>1, <1>2, <1>3 DEF Spells

LEMMA SpellsOne ==
  ASSUME NEW N \in Nat, NEW R, Ranked(R, N), NEW i \in 1 .. N, NEW v \in {0, i},
         NEW kind, kind = kinds[i], kind \notin Braces, kind # "=>"
  PROVE  Spells(R, N, OneEntry(v, kind), i, i + 1)
<1>1. ~EmptySignature(i)
  BY EmptyIs
<1>2. Covers(R, N, OneEntry(v, kind), i, i + 1)
  BY <1>1, CoversOne
<1>3. i <= i + 1 /\ (i + 1) - 1 = i
  OBVIOUS
<1>4. QED
  BY <1>2, <1>3 DEF Spells

LEMMA SpellsNone ==
  ASSUME NEW N \in Nat, NEW R, Ranked(R, N), NEW i \in 1 .. N + 1
  PROVE  Spells(R, N, <<>>, i, i)
<1>1. Covers(R, N, <<>>, i, i)
  BY CoversNone
<1>2. QED
  BY <1>1 DEF Spells

\* What a link leads to.
LEMMA LinkSpells ==
  ASSUME NEW E, NEW N \in Nat, N = Len(tokens), Complete(E, N), NEW R, Ranked(R, N),
         NEW i \in 1 .. N, \A j \in i + 1 .. N : Spelt(E, R, N, j),
         NEW link, NEW p \in i + 1 .. N + 1, NEW q \in 1 .. N + 1, Linked(E, link, p, q)
  PROVE  Spells(R, N, ToChild(Written, i, link), p, q)
<1>1. CASE link = 0
  <2>1. p = q /\ p \in 1 .. N + 1 /\ ToChild(Written, i, link) = <<>>
    BY <1>1 DEF Linked, ToChild
  <2>2. QED
    BY <2>1, SpellsNone
<1>2. CASE link # 0
  <2>1. link = p /\ p \in i + 1 .. N /\ E[p] = q /\ q # 0 /\ p > i
    BY <1>2 DEF Linked, Grown
  <2>2. ToChild(Written, i, link) = Written[p]
    BY <2>1 DEF ToChild
  <2>3. QED
    BY <2>1, <2>2 DEF Spelt
<1>3. QED
  BY <1>1, <1>2

LEMMA AloneSpells ==
  ASSUME NEW E, NEW N \in Nat, N = Len(tokens), Complete(E, N), NEW R, Ranked(R, N),
         NEW i \in 1 .. N, \A j \in i + 1 .. N : Spelt(E, R, N, j),
         NEW p \in Int, p > i, NEW q \in 1 .. N + 1, Alone(E, p, q)
  PROVE  p < q /\ p \in 1 .. N /\ Spells(R, N, ToChild(Written, i, p), p, q)
<1>1. p \in i + 1 .. N + 1 /\ p \in 1 .. N /\ Linked(E, p, p, q) /\ E[p] = q /\ q # 0
  BY DEF Alone, Grown, Linked
<1>2. E[p] \in p + 1 .. N + 1
  BY <1>1 DEF Complete
<1>3. QED
  BY <1>1, <1>2, LinkSpells

\* The unit of braces.
LEMMA BracesSpell ==
  ASSUME NEW E, NEW N \in Nat, N = Len(tokens), Complete(E, N), NEW R, Ranked(R, N),
         NEW i \in 1 .. N, \A j \in i + 1 .. N : Spelt(E, R, N, j), NEW u \in 1 .. N + 1,
         nodes[i].kind = kinds[i], kinds[i] \in Braces,
         TokenAt(u - 1) = CloseBrace, Inner(E, i, u - 1)
  PROVE  Spells(R, N, UnitEntries(Written, i), i, u) /\ i < u
<1> DEFINE It == OneEntry(i, kinds[i])
           End == OneEntry(0, CloseBrace)
           link == IF Signs(i) THEN nodes[i + 1].next ELSE nodes[i].sub
<1>1. UnitEntries(Written, i) = ((It \o SignEntries(i)) \o ToChild(Written, i, link)) \o End
  BY UnitEntriesAre
<1>2. Covers(R, N, It, i, i + 1)
  <2>1. ~EmptySignature(i)
    BY EmptyIs
  <2>2. QED
    BY <2>1, CoversOne
<1>3. u - 1 \in 1 .. N /\ kinds[u - 1] = CloseBrace
  <2>1. CloseBrace # "end"
    BY Zenon DEF CloseBrace
  <2>2. QED
    BY <2>1, TokenIs
<1>4. Spells(R, N, End, u - 1, u)
  <2>1. CloseBrace \notin Braces /\ CloseBrace # "=>"
    BY EmptyIs, Zenon DEF CloseBrace
  <2>2. (u - 1) + 1 = u
    OBVIOUS
  <2>3. QED
    BY <1>3, <2>1, <2>2, SpellsOne
<1>5. \E q \in i + 1 .. N + 1 : /\ Covers(R, N, SignEntries(i), i + 1, q)
                                /\ Linked(E, link, q, u - 1)
  <2>1. CASE \E q \in {i + 1} \cup {r \in {i + 2} : TokenAt(i + 1) = "=>"} :
               Linked(E, nodes[i].sub, q, u - 1)
    <3>1. PICK q \in {i + 1} \cup {r \in {i + 2} : TokenAt(i + 1) = "=>"} :
            Linked(E, nodes[i].sub, q, u - 1)
      BY <2>1
    <3>2. ~Signs(i)
      <4>1. CASE nodes[i].sub = 0
        BY <4>1 DEF Signs
      <4>2. CASE nodes[i].sub # 0
        <5>1. nodes[i].sub = q /\ q \in 1 .. N /\ E[q] = u - 1 /\ E[q] # 0
          BY <1>3, <3>1, <4>2 DEF Linked, Grown
        <5>2. Rule(E, q, E[q])
          BY <5>1 DEF Complete
        <5>3. nodes[q].kind = kinds[q] /\ kinds[q] \in Known
          BY <5>2, WholeKnown DEF Rule
        <5>4. QED
          BY <5>1, <5>3, KnownKinds DEF Signs
      <4>3. QED
        BY <4>1, <4>2
    <3>3. SignEntries(i) = <<>> /\ link = nodes[i].sub
      BY <3>2 DEF SignEntries
    <3>4. q \in i + 1 .. N + 1 /\ (q = i + 1 \/ (q = i + 2 /\ EmptySignature(i + 1)))
      <4>1. CASE q = i + 1
        BY <4>1
      <4>2. CASE q = i + 2 /\ TokenAt(i + 1) = "=>"
        <5>1. i + 1 \in 1 .. N /\ kinds[i + 1] = "=>"
          BY <4>2, TokenIs
        <5>2. (i + 1) - 1 = i
          OBVIOUS
        <5>3. QED
          BY <4>2, <5>1, <5>2, EmptyIs
      <4>3. QED
        BY <3>1, <4>1, <4>2
    <3>5. Covers(R, N, <<>>, i + 1, q)
      <4>1. i + 1 \in 1 .. N + 1 /\ q \in 1 .. N + 1 /\ (q = i + 1 \/ q = (i + 1) + 1)
        BY <3>4
      <4>2. QED
        BY <3>4, <4>1, CoversNone
    <3>6. QED
      BY <3>1, <3>3, <3>4, <3>5
  <2>2. CASE \E z \in i + 1 .. Len(tokens) :
               /\ nodes[i].sub = z
               /\ \A j \in i + 1 .. z : nodes[j].kind = "SIGBIND"
               /\ TokenAt(z + 1) = "=>"
               /\ Linked(E, nodes[i + 1].next, z + 2, u - 1)
    <3>1. PICK z \in i + 1 .. N :
            /\ nodes[i].sub = z
            /\ \A j \in i + 1 .. z : nodes[j].kind = "SIGBIND"
            /\ TokenAt(z + 1) = "=>"
            /\ Linked(E, nodes[i + 1].next, z + 2, u - 1)
      BY <2>2
    <3>2. z + 1 \in 1 .. N /\ kinds[z + 1] = "=>"
      BY <3>1, TokenIs
    <3>3. Signs(i)
      BY <3>1 DEF Signs
    <3>4. \A j \in i + 1 .. z : j \in 1 .. N /\ kinds[j] = "CHAIN"
      BY <3>1 DEF Complete
    <3>5. nodes[z + 1].kind # "SIGBIND"
      BY <3>2 DEF Complete
    <3>6. DOMAIN nodes = 1 .. N
      BY DEF Complete, Linkable
    <3>7. Covers(R, N, NameEntries(i) \o OneEntry(0, "=>"), i + 1, z + 2)
      BY <3>1, <3>2, <3>4, <3>5, <3>6, NamesCover
    <3>8. SignEntries(i) = NameEntries(i) \o OneEntry(0, "=>") /\ link = nodes[i + 1].next
      BY <3>3 DEF SignEntries
    <3>9. z + 2 \in i + 1 .. N + 1
      BY <3>2
    <3>10. QED
      BY <3>1, <3>7, <3>8, <3>9
  <2>3. QED
    BY <2>1, <2>2 DEF Inner
<1>6. PICK q \in i + 1 .. N + 1 : /\ Covers(R, N, SignEntries(i), i + 1, q)
                                  /\ Linked(E, link, q, u - 1)
  BY <1>5
<1>7. i + 1 \in 1 .. N + 1 /\ q \in 1 .. N + 1 /\ u - 1 \in 1 .. N + 1
      /\ i \in 1 .. N + 1 /\ i < q
  BY <1>3
<1> HIDE DEF It, End, link
<1>8. PICK child : child = ToChild(Written, i, link)
  OBVIOUS
<1>9. Spells(R, N, child, q, u - 1)
  BY <1>6, <1>7, <1>8, LinkSpells
<1>10. q <= u - 1 /\ Covers(R, N, child, q, u - 1)
  BY <1>9 DEF Spells
<1>11. PICK head : head = It \o SignEntries(i)
  OBVIOUS
<1>12. Covers(R, N, head, i, q)
  BY <1>2, <1>6, <1>7, <1>11, CoversJoin
<1>13. Covers(R, N, head \o child, i, u - 1)
  BY <1>7, <1>10, <1>12, CoversJoin
<1>14. PICK rest : rest = head \o child
  OBVIOUS
<1>15. i <= u - 1 /\ u - 1 < u
  BY <1>7, <1>10
<1>16. Spells(R, N, rest \o End, i, u)
  BY <1>4, <1>7, <1>13, <1>14, <1>15, SpellsJoin
<1>17. QED
  BY <1>1, <1>8, <1>11, <1>14, <1>15, <1>16

\* The unit of then or until.
LEMMA OptionSpells ==
  ASSUME NEW E, NEW N \in Nat, N = Len(tokens), Complete(E, N), NEW R, Ranked(R, N),
         NEW i \in 1 .. N, \A j \in i + 1 .. N : Spelt(E, R, N, j), NEW u \in 1 .. N + 1,
         nodes[i].kind = kinds[i], kinds[i] \in {"then", "until"}, Optioned(E, i, u)
  PROVE  Spells(R, N, UnitEntries(Written, i), i, u) /\ i < u
<1> DEFINE It == OneEntry(i, kinds[i])
           word == WordOf(kinds[i])
<1>1. /\ UnitEntries(Written, i) = (It \o ToChild(Written, i, nodes[i].sub)) \o Optionally(Written, i, word)
      /\ word \in {"else", "do"} /\ word # "end" /\ word # "=>" /\ word \notin Braces
      /\ kinds[i] \notin Braces /\ kinds[i] # "=>"
  BY UnitEntriesAre, WordsApart DEF WordOf
<1>2. Spells(R, N, It, i, i + 1)
  BY <1>1, SpellsOne
<1> HIDE DEF It, word
<1>3. PICK q \in 1 .. N + 1 :
        /\ nodes[i].sub = i + 1
        /\ Alone(E, i + 1, q)
        /\ \/ nodes[i].alt = 0 /\ u = q /\ TokenAt(q) # word
           \/ nodes[i].alt = q + 1 /\ TokenAt(q) = word /\ Alone(E, q + 1, u)
  BY DEF Optioned, word
<1>4. PICK child : child = ToChild(Written, i, nodes[i].sub)
  OBVIOUS
<1>5. i + 1 < q /\ i + 1 \in 1 .. N /\ Spells(R, N, child, i + 1, q)
  <2>1. i + 1 > i /\ i + 1 \in Int
    OBVIOUS
  <2>2. QED
    BY <1>3, <1>4, <2>1, AloneSpells
<1>6. PICK first : first = It \o child
  OBVIOUS
<1>7. Spells(R, N, first, i, q)
  <2>1. i \in 1 .. N + 1 /\ i + 1 \in 1 .. N + 1 /\ i <= i + 1
    BY <1>5
  <2>2. Covers(R, N, It, i, i + 1)
    BY <1>2 DEF Spells
  <2>3. QED
    BY <1>2, <1>5, <1>6, <2>1, <2>2, SpellsJoin
<1>8. Covers(R, N, first, i, q) /\ i <= q /\ i \in 1 .. N + 1
  BY <1>7 DEF Spells
<1>9. CASE nodes[i].alt = 0 /\ u = q
  <2>1. Optionally(Written, i, word) = <<>>
    BY <1>9 DEF Optionally
  <2>2. Spells(R, N, <<>>, q, q)
    BY SpellsNone
  <2>3. Spells(R, N, first \o <<>>, i, q)
    BY <1>7, <1>8, <2>2, SpellsJoin
  <2>4. i < u
    BY <1>5, <1>9
  <2>5. QED
    BY <1>1, <1>4, <1>6, <1>9, <2>1, <2>3, <2>4
<1>10. CASE nodes[i].alt = q + 1 /\ TokenAt(q) = word /\ Alone(E, q + 1, u)
  <2>1. q \in 1 .. N /\ kinds[q] = word
    BY <1>1, <1>10, TokenIs
  <2>2. PICK mark : mark = OneEntry(0, word)
    OBVIOUS
  <2>3. Spells(R, N, mark, q, q + 1)
    BY <1>1, <2>1, <2>2, SpellsOne
  <2>4. PICK alt : alt = ToChild(Written, i, q + 1)
    OBVIOUS
  <2>5. q + 1 < u /\ Spells(R, N, alt, q + 1, u)
    <3>1. q + 1 \in Int /\ q + 1 > i
      BY <1>5
    <3>2. QED
      BY <1>10, <2>4, <3>1, AloneSpells
  <2>6. PICK rest : rest = mark \o alt
    OBVIOUS
  <2>7. Spells(R, N, rest, q, u)
    <3>1. q + 1 \in 1 .. N + 1 /\ q <= q + 1
      BY <2>1
    <3>2. Covers(R, N, mark, q, q + 1)
      BY <2>3 DEF Spells
    <3>3. QED
      BY <2>3, <2>5, <2>6, <3>1, <3>2, SpellsJoin
  <2>8. Optionally(Written, i, word) = rest
    <3>1. nodes[i].alt # 0
      BY <1>10
    <3>2. QED
      BY <1>10, <2>2, <2>4, <2>6, <3>1 DEF Optionally
  <2>9. Spells(R, N, first \o rest, i, u)
    BY <1>7, <1>8, <2>7, SpellsJoin
  <2>10. i < u
    BY <1>5, <2>5
  <2>11. QED
    BY <1>1, <1>4, <1>6, <2>8, <2>9, <2>10
<1>11. QED
  BY <1>3, <1>9, <1>10

\* The unit of a word with one unit after it, or with none.
LEMMA PlainSpells ==
  ASSUME NEW E, NEW N \in Nat, N = Len(tokens), Complete(E, N), NEW R, Ranked(R, N),
         NEW i \in 1 .. N, \A j \in i + 1 .. N : Spelt(E, R, N, j), NEW u \in 1 .. N + 1,
         kinds[i] \notin Braces, kinds[i] # "=>", NEW link, Linked(E, link, i + 1, u)
  PROVE  Spells(R, N, OneEntry(i, kinds[i]) \o ToChild(Written, i, link), i, u) /\ i < u
<1>1. PICK It : It = OneEntry(i, kinds[i])
  OBVIOUS
<1>2. Spells(R, N, It, i, i + 1)
  BY <1>1, SpellsOne
<1>3. i + 1 \in i + 1 .. N + 1 /\ i + 1 \in 1 .. N + 1 /\ i \in 1 .. N + 1
  OBVIOUS
<1>4. PICK child : child = ToChild(Written, i, link)
  OBVIOUS
<1>5. Spells(R, N, child, i + 1, u)
  BY <1>3, <1>4, LinkSpells
<1>6. Covers(R, N, It, i, i + 1) /\ i <= i + 1 /\ i + 1 <= u
  BY <1>2, <1>5 DEF Spells
<1>7. Spells(R, N, It \o child, i, u)
  BY <1>2, <1>3, <1>5, <1>6, SpellsJoin
<1>8. QED
  BY <1>1, <1>4, <1>6, <1>7

\* The units between parentheses.
LEMMA ParenthesesSpell ==
  ASSUME NEW E, NEW N \in Nat, N = Len(tokens), Complete(E, N), NEW R, Ranked(R, N),
         NEW i \in 1 .. N, \A j \in i + 1 .. N : Spelt(E, R, N, j), NEW u \in 1 .. N + 1,
         nodes[i].kind = kinds[i], kinds[i] \in {"(", "CHAIN("}, TokenAt(u - 1) = ")",
         Linked(E, nodes[i].sub, i + 1, u - 1)
  PROVE  Spells(R, N, UnitEntries(Written, i), i, u) /\ i < u
<1>1. u - 1 \in 1 .. N /\ kinds[u - 1] = ")" /\ u - 1 \in 1 .. N + 1 /\ (u - 1) + 1 = u
      /\ i \in 1 .. N + 1
  BY TokenIs
<1>2. PICK s : s = OneEntry(i, kinds[i]) \o ToChild(Written, i, nodes[i].sub)
  OBVIOUS
<1>3. Spells(R, N, s, i, u - 1) /\ i < u - 1
  BY <1>1, <1>2, WordsApart, PlainSpells
<1>4. PICK mark : mark = OneEntry(0, ")")
  OBVIOUS
<1>5. Spells(R, N, mark, u - 1, u)
  BY <1>1, <1>4, EmptyIs, SpellsOne
<1>6. Covers(R, N, s, i, u - 1) /\ i <= u - 1
  BY <1>3 DEF Spells
<1>7. Spells(R, N, s \o mark, i, u)
  BY <1>1, <1>3, <1>5, <1>6, SpellsJoin
<1>8. UnitEntries(Written, i) = s \o mark
  BY <1>2, <1>4, UnitEntriesAre
<1>9. QED
  BY <1>3, <1>7, <1>8

\* The unit of import.
LEMMA ImportSpells ==
  ASSUME NEW E, NEW N \in Nat, N = Len(tokens), Complete(E, N), NEW R, Ranked(R, N),
         NEW i \in 1 .. N, \A j \in i + 1 .. N : Spelt(E, R, N, j), NEW u \in 1 .. N + 1,
         nodes[i].kind = kinds[i], kinds[i] = "import", Imported(E, i, u)
  PROVE  Spells(R, N, UnitEntries(Written, i), i, u) /\ i < u
<1>1. i + 1 \in 1 .. N /\ kinds[i + 1] = "CHAIN"
  BY TokenIs DEF Imported
<1>2. PICK It : It = OneEntry(i, kinds[i])
  OBVIOUS
<1>3. PICK path : path = OneEntry(0, "CHAIN")
  OBVIOUS
<1>4. i \in 1 .. N + 1 /\ i + 1 \in 1 .. N + 1 /\ i + 2 \in 1 .. N + 1 /\ (i + 1) + 1 = i + 2
      /\ i <= i + 1 /\ i <= i + 2 /\ i + 1 < i + 2
  BY <1>1
<1>5. Spells(R, N, It, i, i + 1)
  BY <1>2, WordsApart, SpellsOne
<1>6. Spells(R, N, path, i + 1, i + 2)
  BY <1>1, <1>3, <1>4, EmptyIs, SpellsOne
<1>7. PICK s : s = It \o path
  OBVIOUS
<1>8. Spells(R, N, s, i, i + 2) /\ Covers(R, N, s, i, i + 2)
  <2>1. Covers(R, N, It, i, i + 1)
    BY <1>5 DEF Spells
  <2>2. Spells(R, N, s, i, i + 2)
    BY <1>4, <1>5, <1>6, <1>7, <2>1, SpellsJoin
  <2>3. QED
    BY <2>2 DEF Spells
<1>9. PICK rest : rest = IF nodes[i].sub = 0 THEN <<>>
                         ELSE OneEntry(0, "as") \o ToChild(Written, i, nodes[i].sub)
  OBVIOUS
<1>10. UnitEntries(Written, i) = s \o rest
  BY <1>2, <1>3, <1>7, <1>9, UnitEntriesAre
<1>11. Spells(R, N, rest, i + 2, u) /\ i + 2 <= u
  <2>1. CASE nodes[i].sub = 0 /\ u = i + 2
    BY <1>4, <1>9, <2>1, SpellsNone
  <2>2. CASE /\ TokenAt(i + 2) = "as" /\ TokenAt(i + 3) = "CHAIN"
             /\ nodes[i].sub = i + 3 /\ u = i + 4 /\ Alone(E, i + 3, u)
    <3>1. i + 2 \in 1 .. N /\ kinds[i + 2] = "as"
      BY <2>2, TokenIs
    <3>2. PICK mark : mark = OneEntry(0, "as")
      OBVIOUS
    <3>3. (i + 2) + 1 = i + 3 /\ i + 3 \in Int /\ i + 3 > i /\ i + 3 \in 1 .. N + 1
          /\ i + 2 <= i + 3 /\ i + 3 # 0
      BY <3>1
    <3>4. Spells(R, N, mark, i + 2, i + 3)
      BY <3>1, <3>2, <3>3, EmptyIs, SpellsOne
    <3>5. PICK name : name = ToChild(Written, i, i + 3)
      OBVIOUS
    <3>6. i + 3 < u /\ Spells(R, N, name, i + 3, u)
      BY <2>2, <3>3, <3>5, AloneSpells
    <3>7. Covers(R, N, mark, i + 2, i + 3)
      BY <3>4 DEF Spells
    <3>8. Spells(R, N, mark \o name, i + 2, u)
      BY <1>4, <3>3, <3>4, <3>6, <3>7, SpellsJoin
    <3>9. rest = mark \o name
      <4>1. nodes[i].sub # 0
        BY <2>2, <3>3
      <4>2. QED
        BY <1>9, <2>2, <3>2, <3>5, <4>1
    <3>10. QED
      BY <3>3, <3>6, <3>8, <3>9
  <2>3. QED
    BY <2>1, <2>2 DEF Imported
<1>12. Spells(R, N, s \o rest, i, u)
  BY <1>4, <1>8, <1>11, SpellsJoin
<1>13. i < u
  BY <1>11
<1>14. QED
  BY <1>10, <1>12, <1>13

\* Any unit.
LEMMA UnitSpells ==
  ASSUME NEW E, NEW N \in Nat, N = Len(tokens), Complete(E, N), NEW R, Ranked(R, N),
         NEW i \in 1 .. N, \A j \in i + 1 .. N : Spelt(E, R, N, j), NEW u \in 1 .. N + 1,
         nodes[i].kind = kinds[i], Whole(E, i, u)
  PROVE  Spells(R, N, UnitEntries(Written, i), i, u) /\ i < u
<1>1. kinds[i] # "=>"
  BY WholeKnown, KnownKinds
<1>2. i + 1 \in 1 .. N + 1
  OBVIOUS
<1>3. CASE kinds[i] \in Literals \cup ChainKinds /\ nodes[i].sub = 0 /\ u = i + 1
  <2>1. Linked(E, nodes[i].sub, i + 1, u)
    BY <1>3 DEF Linked
  <2>2. UnitEntries(Written, i) = OneEntry(i, kinds[i]) \o ToChild(Written, i, nodes[i].sub)
    BY <1>3, UnitEntriesAre, PlainKinds
  <2>3. QED
    BY <1>1, <1>3, <2>1, <2>2, PlainKinds, PlainSpells
<1>4. CASE kinds[i] \in Applied /\ nodes[i].sub = i + 1 /\ Alone(E, i + 1, u)
  <2>1. Linked(E, nodes[i].sub, i + 1, u)
    BY <1>4 DEF Linked, Alone
  <2>2. UnitEntries(Written, i) = OneEntry(i, kinds[i]) \o ToChild(Written, i, nodes[i].sub)
    BY <1>4, UnitEntriesAre, PlainKinds
  <2>3. QED
    BY <1>1, <1>4, <2>1, <2>2, PlainKinds, PlainSpells
<1>5. CASE kinds[i] \in {"else", "do"} /\ nodes[i].alt = i + 1 /\ Alone(E, i + 1, u)
  <2>1. Linked(E, nodes[i].alt, i + 1, u)
    BY <1>5 DEF Linked, Alone
  <2>2. UnitEntries(Written, i) = OneEntry(i, kinds[i]) \o ToChild(Written, i, nodes[i].alt)
    BY <1>5, UnitEntriesAre
  <2>3. QED
    BY <1>1, <1>5, <2>1, <2>2, WordsApart, PlainSpells
<1>6. CASE /\ kinds[i] \in {"(", "CHAIN("} /\ TokenAt(u - 1) = ")"
           /\ Linked(E, nodes[i].sub, i + 1, u - 1)
  BY <1>6, ParenthesesSpell
<1>7. CASE kinds[i] \in Braces /\ TokenAt(u - 1) = CloseBrace /\ Inner(E, i, u - 1)
  BY <1>7, BracesSpell
<1>8. CASE kinds[i] \in {"then", "until"} /\ Optioned(E, i, u)
  BY <1>8, OptionSpells
<1>9. CASE kinds[i] = "import" /\ Imported(E, i, u)
  BY <1>9, ImportSpells
<1>10. QED
  BY <1>3, <1>4, <1>5, <1>6, <1>7, <1>8, <1>9 DEF Whole

\* The tree of the units that begin with a node.
LEMMA TreeSpells ==
  ASSUME NEW E, NEW N \in Nat, N = Len(tokens), Complete(E, N), NEW R, Ranked(R, N)
  PROVE  \A i \in 1 .. N : Spelt(E, R, N, i)
<1> DEFINE T == {n \in Nat : \A i \in 1 .. N : i > N - n => Spelt(E, R, N, i)}
<1>1. 0 \in T
  OBVIOUS
<1>2. ASSUME NEW n \in Nat, n \in T
      PROVE  n + 1 \in T
  <2> SUFFICES ASSUME NEW i \in 1 .. N, i > N - (n + 1)
               PROVE  Spelt(E, R, N, i)
    OBVIOUS
  <2>1. \A j \in i + 1 .. N : Spelt(E, R, N, j)
    <3>1. \A j \in i + 1 .. N : j \in 1 .. N /\ j > N - n
      OBVIOUS
    <3>2. \A j \in 1 .. N : j > N - n => Spelt(E, R, N, j)
      BY <1>2
    <3>3. QED
      BY <3>1, <3>2
  <2>2. SUFFICES ASSUME E[i] # 0
                 PROVE  Spells(R, N, Written[i], i, E[i])
    BY DEF Spelt
  <2>3. PICK e \in i + 1 .. N + 1 : e = E[i]
    BY <2>2 DEF Complete
  <2>4. Rule(E, i, e)
    BY <2>2, <2>3 DEF Complete
  <2>5. PICK u \in 1 .. N + 1 : Whole(E, i, u) /\ Linked(E, nodes[i].next, u, e)
    BY <2>4 DEF Rule
  <2>6. PICK s : s = UnitEntries(Written, i)
    OBVIOUS
  <2>7. Spells(R, N, s, i, u) /\ i < u
    <3>1. nodes[i].kind = kinds[i]
      BY <2>4 DEF Rule
    <3>2. QED
      BY <2>1, <2>5, <2>6, <3>1, UnitSpells
  <2>8. PICK t : t = ToChild(Written, i, nodes[i].next)
    OBVIOUS
  <2>9. Spells(R, N, t, u, e)
    <3>1. u \in i + 1 .. N + 1 /\ e \in 1 .. N + 1
      BY <2>7
    <3>2. QED
      BY <2>1, <2>5, <2>8, <3>1, LinkSpells
  <2>10. Written[i] = s \o t
    <3>1. Linkable(N)
      BY DEF Complete
    <3>2. QED
      BY <2>6, <2>8, <3>1, WrittenIs
  <2>11. Covers(R, N, s, i, u) /\ i <= u /\ i \in 1 .. N + 1 /\ e \in 1 .. N + 1
    BY <2>7 DEF Spells
  <2>12. Spells(R, N, s \o t, i, e)
    BY <2>7, <2>9, <2>11, SpellsJoin
  <2>13. QED
    BY <2>3, <2>10, <2>12
<1>3. Nat \subseteq T
  <2> HIDE DEF T
  <2> QED BY <1>1, <1>2, SetInduction
<1>4. N \in T
  BY <1>3
<1>5. \A i \in 1 .. N : i > N - N
  OBVIOUS
<1>6. QED
  BY <1>4, <1>5

-----------------------------------------------------------------------------
(* A finished tree.                                                        *)

Finished(E) ==
  /\ Complete(E, Len(tokens))
  /\ \A i \in 1 .. Len(tokens) :
       /\ nodes[i].kind \in {"none", "SIGBIND"} \/ E[i] # 0
       /\ i > 1 /\ nodes[i].kind = "SIGBIND" /\ nodes[i - 1].kind = "SIGBIND" =>
            nodes[i].next = i - 1
  /\ IF tokens = <<>> THEN root = 0 ELSE root = 1 /\ E[1] = Len(tokens) + 1

LEMMA ChainsReadBack ==
  ASSUME Progress, Worded, NEW i \in 1 .. Len(tokens), kinds[i] \in DOMAIN ChainMargins,
         Chained(i)
  PROVE  ChainWritten(nodes[i].chain) = ChainText(kinds[i], Lexeme(i))
<1>1. tokens[i] \in Token /\ tokens[i].begin < tokens[i].end
  BY ElementOfSeq, ProgressOrders DEF Progress, TokensInOrder
<1>2. PICK a \in Nat, b \in Nat : a = tokens[i].begin /\ b = tokens[i].end /\ a < b
  BY <1>1 DEF Token
<1>3. PICK w : w = SubSeq(source, a + 1, b)
  OBVIOUS
<1>4. Lexeme(i) = w
  BY <1>2, <1>3 DEF Lexeme
<1>5. PICK S : S = {source[j] : j \in a + 1 .. b} \cup {Dot[1]}
  OBVIOUS
<1>6. w \in Seq(S)
  <2>1. PICK T : T = {source[j] : j \in a + 1 .. b}
    OBVIOUS
  <2>2. w \in Seq(T)
    BY <1>2, <1>3, <2>1
  <2>3. T \subseteq S
    BY <1>5, <2>1
  <2>4. QED
    BY <2>2, <2>3, SeqMonotonic
<1>7. Dot \in Seq(S)
  <2>1. Len(Dot) = 1 /\ SubSeq(Dot, 1, 1) = Dot
    BY MarksAre
  <2>2. Dot[1] \in S
    BY <1>5
  <2>3. SubSeq(Dot, 1, 1) \in Seq({Dot[j] : j \in 1 .. 1})
    OBVIOUS
  <2>4. {Dot[j] : j \in 1 .. 1} \subseteq S
    BY <2>2
  <2>5. QED
    BY <2>1, <2>3, <2>4, SeqMonotonic
<1>8. PICK k : k = kinds[i]
  OBVIOUS
<1>9. k = KindOf(w) /\ Len(w) \in Nat /\ Len(w) > 0
  BY <1>4, <1>8 DEF Worded
<1>10. PICK text : text = ChainText(k, w)
  OBVIOUS
<1>11. IsChain(text) /\ nodes[i].chain = ChainElems(text)
  BY <1>4, <1>8, <1>9, <1>10, ChainTextIs DEF Chained
<1>12. PICK x \in Nat, y \in Nat : ChainMargins[k] = <<x, y>>
  <2>1. \A z \in DOMAIN ChainMargins : ChainMargins[z] \in {<<0, 0>>, <<2, 0>>, <<0, 1>>, <<1, 0>>}
    BY DEF ChainMargins
  <2>2. QED
    BY <1>8, <2>1
<1>13. text \in Seq(S)
  <2>1. text = SubSeq(w, x + 1, Len(w) - y)
    BY <1>10, <1>12 DEF ChainText
  <2>2. \A j \in x + 1 .. Len(w) - y : w[j] \in S
    BY <1>6, <1>9
  <2>3. QED
    BY <1>6, <1>9, <2>1, <2>2
<1>14. ChainWritten(ChainElems(text)) = text
  BY <1>7, <1>11, <1>13, ChainReadsBack
<1>15. QED
  BY <1>4, <1>8, <1>10, <1>11, <1>14

\* The else or do that follows the unit of a then or until is its own.
LEMMA OptionTaken ==
  ASSUME NEW E, NEW N \in Nat, N = Len(tokens), Complete(E, N), NEW R, Ranked(R, N),
         NEW out, Covers(R, N, out, 1, N + 1), NEW p \in 1 .. Len(out),
         NEW i \in 1 .. N, out[p].node = i, E[i] # 0, kinds[i] \in {"then", "until"},
         nodes[i].alt = 0, NEW after, after = p + 1 + Len(Written[nodes[i].sub]),
         after <= Len(out)
  PROVE  out[after].kind # WordOf(kinds[i])
<1>1. R[1] = 0 /\ R[N + 1] \in Nat /\ Len(Kept) = R[N + 1] /\ Len(out) = R[N + 1]
      /\ \A x \in 1 .. N + 1 : R[x] \in Nat /\ R[x] <= R[N + 1]
  <2>1. /\ R[1] = 0 /\ Len(Kept) = R[N + 1] /\ N + 1 \in 1 .. N + 1
        /\ \A x \in 1 .. N + 1 : R[x] \in Nat /\ R[x] <= R[N + 1]
    <3>1. /\ R \in [1 .. N + 1 -> Nat] /\ R[1] = 0 /\ Len(Kept) = R[N + 1]
          /\ \A x \in 1 .. N + 1 : R[x] <= R[N + 1]
      BY Zenon DEF Ranked
    <3>2. N + 1 \in 1 .. N + 1
      OBVIOUS
    <3>3. QED
      BY ONLY <3>1, <3>2
  <2>2. Len(out) = R[N + 1] - R[1]
    BY DEF Covers
  <2>3. QED
    BY <2>1, <2>2
<1>2. \A x \in 1 .. Len(out) : /\ out[x].kind = kinds[Kept[x]]
                               /\ out[x].node \in {0, Kept[x]}
  <2>1. \A x \in 1 .. Len(out) : /\ out[x].kind = kinds[Kept[0 + x]]
                                 /\ out[x].node \in {0, Kept[0 + x]}
    BY <1>1 DEF Covers
  <2>2. \A x \in 1 .. Len(out) : 0 + x = x
    BY <1>1
  <2>3. QED
    BY <2>1, <2>2
<1>3. R[i] + 1 = p
  <2>1. Kept[p] = i /\ p \in 1 .. Len(Kept)
    BY <1>1, <1>2
  <2>2. QED
    BY <2>1 DEF Ranked
<1>4. Rule(E, i, E[i])
  BY DEF Complete
<1>5. PICK u \in 1 .. N + 1 : Whole(E, i, u)
  BY <1>4 DEF Rule
<1>6. Optioned(E, i, u)
  BY <1>5, PlainKinds, WordsApart DEF Whole
<1>7. PICK q \in 1 .. N + 1 :
        /\ nodes[i].sub = i + 1
        /\ Alone(E, i + 1, q)
        /\ \/ nodes[i].alt = 0 /\ u = q /\ TokenAt(q) # WordOf(kinds[i])
           \/ nodes[i].alt = q + 1 /\ TokenAt(q) = WordOf(kinds[i]) /\ Alone(E, q + 1, u)
  BY <1>6 DEF Optioned
<1>8. TokenAt(q) # WordOf(kinds[i])
  BY <1>7
<1>9. i + 1 \in 1 .. N /\ E[i + 1] = q /\ q # 0
  BY <1>7 DEF Alone, Grown
<1>10. Spells(R, N, Written[i + 1], i + 1, q) /\ i + 1 < q
  <2>1. q \in (i + 1) + 1 .. N + 1
    BY <1>9 DEF Complete
  <2>2. Spelt(E, R, N, i + 1)
    BY <1>9, TreeSpells
  <2>3. QED
    BY <1>9, <2>1, <2>2 DEF Spelt
<1>11. Len(Written[i + 1]) = R[q] - R[i + 1] /\ kinds[q - 1] \notin Braces
  BY <1>10 DEF Spells, Covers
<1>12. R[i + 1] = R[i] + 1
  <2>1. ~EmptySignature(i)
    BY EmptyIs
  <2>2. QED
    BY <2>1 DEF Ranked
<1>13. after = R[q] + 1 /\ q # N + 1 /\ q \in 1 .. N /\ after \in 1 .. Len(out)
  <2>1. R[i] \in Nat /\ R[q] \in Nat /\ R[i + 1] \in Nat
    BY <1>1, <1>9
  <2>2. after = R[q] + 1
    BY <1>3, <1>7, <1>11, <1>12, <2>1
  <2>3. PICK r \in Nat, m \in Nat : r = R[q] /\ m = R[N + 1] /\ Len(out) = m /\ after <= m
    BY <1>1, <2>1
  <2>4. after = r + 1
    BY <2>2, <2>3, Zenon
  <2>5. r + 1 <= m /\ r # m
    BY ONLY r \in Nat, m \in Nat, <2>3, <2>4
  <2>51. q # N + 1 /\ q \in 1 .. N
    BY <2>3, <2>5
  <2>6. after \in 1 .. Len(out)
    BY ONLY r \in Nat, m \in Nat, <2>3, <2>4
  <2>7. QED
    BY <2>2, <2>51, <2>6
<1>14. ~EmptySignature(q)
  BY <1>11, EmptyIs
<1>15. Kept[after] = q
  BY <1>13, <1>14 DEF Ranked
<1>16. out[after].kind = kinds[q] /\ TokenAt(q) = kinds[q]
  BY <1>2, <1>13, <1>15 DEF TokenAt
<1>17. QED
  BY <1>8, <1>16

LEMMA FinishedIsProgram ==
  ASSUME NEW E, Finished(E), Progress, Worded
  PROVE  TreeIsProgram
<1>1. PICK N \in Nat : N = Len(tokens) /\ (tokens = <<>> <=> N = 0)
  BY LenProperties, EmptySeq DEF Progress
<1>2. PICK R : Ranked(R, N)
  BY <1>1, KeptIs
<1>3. Complete(E, N) /\ Linkable(N) /\ DOMAIN nodes = 1 .. N
  BY <1>1 DEF Finished, Complete, Linkable
<1>4. PICK out : out = Written[root]
  OBVIOUS
<1>5. Covers(R, N, out, 1, N + 1)
  <2>1. CASE tokens = <<>>
    <3>1. out = <<>> /\ N = 0 /\ 1 \in 1 .. N + 1 /\ N + 1 \in 1 .. N + 1 /\ N + 1 = 1
      BY <1>1, <1>3, <1>4, <2>1, WrittenIs DEF Finished
    <3>2. QED
      BY <1>2, <3>1, CoversNone
  <2>2. CASE tokens # <<>>
    <3>1. out = Written[1] /\ E[1] = N + 1 /\ N + 1 # 0 /\ 1 \in 1 .. N
      BY <1>1, <1>4, <2>2 DEF Finished
    <3>2. Spelt(E, R, N, 1)
      BY <1>1, <1>2, <1>3, <3>1, TreeSpells
    <3>3. QED
      BY <3>1, <3>2 DEF Spelt, Spells
  <2>3. QED
    BY <2>1, <2>2
<1>6. /\ R[1] = 0 /\ R[N + 1] \in Nat /\ Len(Kept) = R[N + 1] /\ Len(out) = R[N + 1]
      /\ out \in Seq(Entries(N)) /\ Kept \in Seq(1 .. N)
  BY <1>2, <1>5 DEF Ranked, Covers
<1>7. \A p \in 1 .. Len(out) : /\ out[p].kind = kinds[Kept[p]]
                               /\ out[p].node \in {0, Kept[p]}
  <2>1. \A p \in 1 .. Len(out) : /\ out[p].kind = kinds[Kept[0 + p]]
                                 /\ out[p].node \in {0, Kept[0 + p]}
    BY <1>5, <1>6 DEF Covers
  <2>2. \A p \in 1 .. Len(out) : 0 + p = p
    BY <1>6
  <2>3. QED
    BY <2>1, <2>2
<1>8. DOMAIN out = 1 .. Len(out)
  BY <1>6, LenProperties
<1>9. ASSUME NEW i \in 1 .. N
      PROVE  /\ nodes[i].kind \in DOMAIN ChainMargins =>
                  ChainWritten(nodes[i].chain) = ChainText(kinds[i], Lexeme(i))
             /\ i > 1 /\ nodes[i].kind = "SIGBIND" /\ nodes[i - 1].kind = "SIGBIND" =>
                  nodes[i].next = i - 1
  <2>1. i > 1 /\ nodes[i].kind = "SIGBIND" /\ nodes[i - 1].kind = "SIGBIND" =>
          nodes[i].next = i - 1
    BY <1>1 DEF Finished
  <2>2. ASSUME nodes[i].kind \in DOMAIN ChainMargins
        PROVE  ChainWritten(nodes[i].chain) = ChainText(kinds[i], Lexeme(i))
    <3>1. nodes[i].kind \notin {"none", "SIGBIND"}
      BY <2>2 DEF ChainMargins
    <3>2. E[i] # 0
      BY <1>1, <3>1 DEF Finished
    <3>3. Rule(E, i, E[i])
      BY <1>3, <3>2 DEF Complete
    <3>4. kinds[i] \in DOMAIN ChainMargins /\ Chained(i)
      BY <2>2, <3>3 DEF Rule
    <3>5. QED
      BY <1>1, <3>4, ChainsReadBack
  <2>3. QED
    BY <2>1, <2>2
<1>10. ASSUME NEW p \in 1 .. Len(out), NEW after,
              out[p].node # 0, nodes[out[p].node].kind \in {"then", "until"},
              nodes[out[p].node].alt = 0,
              after = p + 1 + Len(Written[nodes[out[p].node].sub]), after <= Len(out)
       PROVE  out[after].kind # (IF nodes[out[p].node].kind = "then" THEN "else" ELSE "do")
  <2>1. PICK i : i = out[p].node
    OBVIOUS
  <2>2. i = Kept[p] /\ i \in 1 .. N
    <3>1. p \in 1 .. Len(Kept)
      BY <1>6
    <3>2. Kept[p] \in 1 .. N
      BY <1>6, <3>1, ElementOfSeq
    <3>3. QED
      BY <1>7, <1>10, <2>1, <3>2
  <2>3. E[i] # 0
    <3>1. nodes[i].kind \notin {"none", "SIGBIND"}
      BY <1>10, <2>1
    <3>2. QED
      BY <1>1, <2>2, <3>1 DEF Finished
  <2>4. nodes[i].kind = kinds[i]
    BY <1>3, <2>2, <2>3 DEF Complete, Rule
  <2>5. kinds[i] \in {"then", "until"} /\ nodes[i].alt = 0
        /\ after = p + 1 + Len(Written[nodes[i].sub])
    BY <1>10, <2>1, <2>4
  <2>6. out[after].kind # WordOf(kinds[i])
    <3>1. N = Len(tokens) /\ Complete(E, N) /\ Ranked(R, N) /\ Covers(R, N, out, 1, N + 1)
      BY <1>1, <1>2, <1>3, <1>5
    <3>2. /\ out[p].node = i /\ i \in 1 .. N /\ after <= Len(out)
          /\ p \in 1 .. Len(out) /\ N \in Nat
      BY <1>1, <1>10, <2>1, <2>2
    <3>3. QED
      BY ONLY <2>3, <2>5, <3>1, <3>2, OptionTaken, ZenonT(60)
  <2>7. QED
    BY <2>1, <2>4, <2>6 DEF WordOf
<1>11. \A p \in DOMAIN out :
         LET node == nodes[out[p].node]
             after == p + 1 + Len(Written[node.sub])
         IN  out[p].node # 0 /\ node.kind \in {"then", "until"} /\ node.alt = 0
               /\ after <= Len(out)
               => out[after].kind # (IF node.kind = "then" THEN "else" ELSE "do")
  BY <1>8, <1>10
<1>12. Len(out) = Len(Kept)
  BY <1>6
<1>13. QED
  BY <1>3, <1>4, <1>7, <1>8, <1>9, <1>11, <1>12, Zenon DEF TreeIsProgram

-----------------------------------------------------------------------------
(* The tree while it is read.  E[i] is 0 until the call that reads from    *)
(* node i returns.                                                         *)

\* The step of a call after another, in the order of its kind.
StepAfter(kind, step) ==
  CASE step = "chain" -> IF kind \in ChainKinds THEN "end"
                         ELSE IF kind = "CHAIN(" THEN "body" ELSE "sub"
    [] step = "sig"   -> "body"
    [] step = "body"  -> IF kind \in Braces THEN "binds" ELSE ")"
    [] step = "binds" -> CloseBrace
    [] step = "sub"   -> IF kind \in {"then", "until"} THEN WordOf(kind) ELSE "end"
    [] step = "path"  -> "checkPath"
    [] step = "checkPath" -> "as"
    [] step = "name"  -> "checkName"
    [] OTHER          -> "end"

\* The kinds whose calls have a step.
Takers(step) ==
  CASE step = "chain" -> DOMAIN ChainMargins
    [] step \in {"sig", "binds", CloseBrace} -> Braces
    [] step = "body"  -> Braces \cup {"(", "CHAIN("}
    [] step = ")"     -> {"(", "CHAIN("}
    [] step = "sub"   -> Applied \cup {"then", "until"}
    [] step = "else"  -> {"then"}
    [] step = "do"    -> {"until"}
    [] step = "alt"   -> {"then", "until", "else", "do"}
    [] step \in {"path", "checkPath", "as", "name", "checkName"} -> {"import"}
    [] OTHER          -> {}

Scheduled(kind, todo) ==
  \A j \in 1 .. Len(todo) :
    IF todo[j] = "next" THEN j = Len(todo)
    ELSE todo[j] # "unexpected" =>
         /\ kind \in Takers(todo[j])
         /\ IF j = Len(todo) THEN StepAfter(kind, todo[j]) = "end"
            ELSE todo[j + 1] = (IF StepAfter(kind, todo[j]) = "end" THEN "next"
                                ELSE StepAfter(kind, todo[j]))

\* The signature a call has read up to q.
Names(f, q) ==
  LET x == f.node
  IN  IF f.sigEnd <= f.sigBegin THEN q = x + 1 \/ (q = x + 2 /\ TokenAt(x + 1) = "=>")
      ELSE /\ f.sigBegin = x + 1 /\ q = f.sigEnd + 1 /\ TokenAt(f.sigEnd) = "=>"
           /\ \A i \in x + 1 .. f.sigEnd - 1 : TokenAt(i) = "CHAIN" /\ nodes[i] = NoNode

\* What the node of a call is when step comes next, at p.
Stage(E, f, step, p) ==
  LET x == f.node
      kind == kinds[x]
      node == nodes[x]
  IN  /\ node.kind = kind
      /\ kind \in DOMAIN ChainMargins /\ step # "chain" => Chained(x)
      /\ step # "none" => node.next = 0
      /\ step \notin {"none", "next", "alt", "unexpected"} => node.alt = 0
      /\ step \in {"chain", "sig", "sub", "path"} => node.sub = 0 /\ p = x + 1
      /\ step = "sig" => f.sigEnd <= f.sigBegin
      /\ step = "body" => node.sub = 0 /\ (IF kind \in Braces THEN Names(f, p) ELSE p = x + 1)
      /\ step = "binds" => \E q \in 1 .. Len(tokens) + 1 : Names(f, q) /\ Linked(E, node.sub, q, p)
      /\ step = CloseBrace => Inner(E, x, p)
      /\ step = ")" => Linked(E, node.sub, x + 1, p)
      /\ step \in {"else", "do"} => node.sub = x + 1 /\ Alone(E, x + 1, p)
      /\ step = "alt" => IF kind \in {"else", "do"} THEN p = x + 1
                         ELSE /\ node.alt = 0 /\ node.sub = x + 1
                              /\ TokenAt(p - 1) = WordOf(kind) /\ Alone(E, x + 1, p - 1)
      /\ step = "checkPath" => node.sub = x + 1
      /\ step \in {"as", "name", "checkName"} => TokenAt(x + 1) = "CHAIN"
      /\ step = "as" => node.sub = 0 /\ p = x + 2
      /\ step \in {"name", "checkName"} => TokenAt(x + 2) = "as"
      /\ step = "name" => p = x + 3
      /\ step = "checkName" => node.sub = x + 3 /\ Alone(E, x + 3, p)
      /\ step = "next" => Whole(E, x, p)
      /\ step = "none" => Rule(E, x, p)

\* The steps that call, and the field that takes the result.
Called == {"sub", "alt", "body", "next", "path", "name"}
Field(step) == IF step \in {"body", "path", "name"} THEN "sub" ELSE step

\* A call waits in a step for the next call.
Waits(E, k) ==
  LET f == frames[k]
      d == frames[k + 1]
  IN  \E step \in Called :
        /\ Scheduled(kinds[f.node], <<step>> \o f.todo)
        /\ Stage(E, f, step, d.node)
        /\ d.into = Field(step)
        /\ step \notin {"body", "next"} =>
             /\ nodes[d.node].next = 0 /\ ~Has(d.todo, "next")
             /\ k + 2 \in 1 .. Len(frames) => frames[k + 2].into # "next"

Grows(E, i) ==
  /\ E[i] # 0 => E[i] \in i + 1 .. nextToken /\ Rule(E, i, E[i])
  /\ nodes[i].kind = "SIGBIND" => kinds[i] = "CHAIN"
  /\ i > 1 /\ nodes[i].kind = "SIGBIND" /\ nodes[i - 1].kind = "SIGBIND" =>
       nodes[i].next = i - 1
  /\ i >= nextToken => nodes[i] = NoNode
  /\ \/ nodes[i].kind \in {"none", "SIGBIND"} \/ E[i] # 0
     \/ \E k \in 1 .. Len(frames) : frames[k].node = i
  /\ {nodes[i].sub, nodes[i].alt, nodes[i].next} \subseteq 0 .. Len(tokens)

Growing(E) ==
  /\ E \in [1 .. Len(tokens) -> 0 .. Len(tokens) + 1]
  /\ nextToken \in 1 .. Len(tokens) + 1
  /\ \A i \in 1 .. Len(tokens) : Grows(E, i)
  /\ \A k \in 1 .. Len(frames) : /\ E[frames[k].node] = 0
                                 /\ Scheduled(kinds[frames[k].node], frames[k].todo)
  /\ \A k \in 1 .. Len(frames) - 1 : Waits(E, k)
  /\ IF frames # <<>>
     THEN frames[1].node = 1 /\ Stage(E, Last(frames), StepOf(Last(frames).todo), nextToken)
     ELSE IF nextToken > 1 THEN root = 1 /\ E[1] = nextToken ELSE root = 0

-----------------------------------------------------------------------------
(* What a step leaves as it was.                                           *)

\* The units that have been read and the names of signatures stay.
Steady(E, F) ==
  /\ UNCHANGED <<source, tokens, kinds>>
  /\ \A i \in 1 .. Len(tokens) : /\ E[i] # 0 => F[i] = E[i] /\ nodes'[i] = nodes[i]
                                 /\ nodes[i].kind = "SIGBIND" => nodes'[i] = nodes[i]

LEMMA TokenStays ==
  ASSUME NEW E, NEW F, Steady(E, F)
  PROVE  /\ \A p : TokenAt(p)' = TokenAt(p)
         /\ \A i : Lexeme(i)' = Lexeme(i)
         /\ Len(tokens)' = Len(tokens)
BY SameText DEF Steady, TokenAt

LEMMA LinkStays ==
  ASSUME NEW E, NEW F, Steady(E, F), NEW p, NEW q, q # 0
  PROVE  /\ \A link : Linked(E, link, p, q) => Linked(F, link, p, q)'
         /\ Alone(E, p, q) => Alone(F, p, q)'
<1>1. Grown(E, p, q) => Grown(F, p, q)' /\ nodes'[p] = nodes[p]
  BY DEF Steady, Grown
<1>2. QED
  BY <1>1 DEF Linked, Alone

LEMMA WholeStays ==
  ASSUME NEW E, NEW F, Steady(E, F), Len(tokens) \in Nat, NEW x \in 1 .. Len(tokens),
         nodes'[x].sub = nodes[x].sub, nodes'[x].alt = nodes[x].alt, NEW u \in 1 .. Len(tokens) + 1, Whole(E, x, u)
  PROVE  Whole(F, x, u)'
<1>1. /\ \A p : TokenAt(p)' = TokenAt(p)
      /\ kinds' = kinds /\ u # 0 /\ \A q \in 1 .. Len(tokens) + 1 : q # 0
      /\ Len(tokens)' = Len(tokens)
  <2>1. kinds' = kinds /\ u # 0 /\ \A q \in 1 .. Len(tokens) + 1 : q # 0
    BY DEF Steady
  <2>2. QED
    BY <2>1, TokenStays
<1>2. \A p, q : q # 0 => /\ \A link : Linked(E, link, p, q) => Linked(F, link, p, q)'
                         /\ Alone(E, p, q) => Alone(F, p, q)'
  BY LinkStays
<1>3. CASE kinds[x] \in Literals \cup ChainKinds /\ nodes[x].sub = 0 /\ u = x + 1
  BY <1>1, <1>3 DEF Whole
<1>4. CASE kinds[x] \in Applied /\ nodes[x].sub = x + 1 /\ Alone(E, x + 1, u)
  <2>1. Alone(F, x + 1, u)'
    BY <1>1, <1>2, <1>4
  <2>2. QED
    BY <1>1, <1>4, <2>1 DEF Whole
<1>5. CASE kinds[x] \in {"else", "do"} /\ nodes[x].alt = x + 1 /\ Alone(E, x + 1, u)
  <2>1. Alone(F, x + 1, u)'
    BY <1>1, <1>2, <1>5
  <2>2. QED
    BY <1>1, <1>5, <2>1 DEF Whole
<1>6. CASE /\ kinds[x] \in {"(", "CHAIN("} /\ TokenAt(u - 1) = ")"
           /\ Linked(E, nodes[x].sub, x + 1, u - 1)
  <2>1. u - 1 # 0
    BY <1>6, TokenIs
  <2>2. Linked(F, nodes[x].sub, x + 1, u - 1)'
    BY <1>2, <1>6, <2>1
  <2>3. QED
    BY <1>1, <1>6, <2>2 DEF Whole
<1>7. CASE kinds[x] \in Braces /\ TokenAt(u - 1) = CloseBrace /\ Inner(E, x, u - 1)
  <2>1. u - 1 # 0
    <3>1. CloseBrace # "end"
      BY Zenon DEF CloseBrace
    <3>2. QED
      BY <1>7, <3>1, TokenIs
  <2>2. \A p, link : Linked(E, link, p, u - 1) => Linked(F, link, p, u - 1)'
    BY <1>2, <2>1
  <2>3. Inner(F, x, u - 1)'
    BY <1>1, <1>7, <2>2 DEF Inner, Steady
  <2>4. QED
    BY <1>1, <1>7, <2>3 DEF Whole
<1>8. CASE kinds[x] \in {"then", "until"} /\ Optioned(E, x, u)
  <2>1. Optioned(F, x, u)'
    BY <1>1, <1>2, <1>8 DEF Optioned
  <2>2. QED
    BY <1>1, <1>8, <2>1 DEF Whole
<1>9. CASE kinds[x] = "import" /\ Imported(E, x, u)
  <2>1. Imported(F, x, u)'
    BY <1>1, <1>2, <1>9 DEF Imported
  <2>2. QED
    BY <1>1, <1>9, <2>1 DEF Whole
<1>10. QED
  BY <1>3, <1>4, <1>5, <1>6, <1>7, <1>8, <1>9 DEF Whole

LEMMA RuleStays ==
  ASSUME NEW E, NEW F, Steady(E, F), Len(tokens) \in Nat, NEW x \in 1 .. Len(tokens),
         nodes'[x] = nodes[x], NEW e \in 1 .. Len(tokens) + 1, Rule(E, x, e)
  PROVE  Rule(F, x, e)'
<1>1. /\ \A i : Lexeme(i)' = Lexeme(i)
      /\ kinds' = kinds /\ e # 0 /\ Len(tokens)' = Len(tokens)
  BY TokenStays DEF Steady
<1>2. PICK u \in 1 .. Len(tokens) + 1 : Whole(E, x, u) /\ Linked(E, nodes[x].next, u, e)
  BY DEF Rule
<1>3. Whole(F, x, u)'
  BY <1>2, WholeStays
<1>4. Linked(F, nodes[x].next, u, e)'
  BY <1>1, <1>2, LinkStays
<1>5. Chained(x)' <=> Chained(x)
  BY <1>1 DEF Chained
<1>6. QED
  BY <1>1, <1>3, <1>4, <1>5 DEF Rule

LEMMA StageStays ==
  ASSUME NEW E, NEW F, Steady(E, F), Len(tokens) \in Nat, NEW f, f.node \in 1 .. Len(tokens),
         nodes'[f.node] = nodes[f.node], NEW step \in Called, NEW p \in 1 .. Len(tokens) + 1,
         \A i \in 1 .. Len(tokens) : i < p /\ nodes[i] = NoNode => nodes'[i] = NoNode,
         f.sigEnd \in Nat, Stage(E, f, step, p)
  PROVE  Stage(F, f, step, p)'
<1>1. /\ \A q : TokenAt(q)' = TokenAt(q)
      /\ \A i : Lexeme(i)' = Lexeme(i)
      /\ kinds' = kinds /\ Len(tokens)' = Len(tokens)
  <2>1. kinds' = kinds
    BY DEF Steady
  <2>2. QED
    BY <2>1, TokenStays
<1>2. step \notin {"chain", "sig", "binds", CloseBrace, ")", "else", "do", "checkPath", "as",
                  "checkName", "none", "unexpected"}
  BY Zenon DEF CloseBrace, Called
<1>3. Chained(f.node)' <=> Chained(f.node)
  BY <1>1 DEF Chained
<1>4. PICK x \in 1 .. Len(tokens) : x = f.node
  OBVIOUS
<1>5. ASSUME Names(f, p)
      PROVE  Names(f, p)'
  <2>1. CASE f.sigEnd <= f.sigBegin
    BY <1>1, <1>5, <2>1 DEF Names
  <2>2. CASE ~(f.sigEnd <= f.sigBegin)
    <3>1. /\ f.sigBegin = x + 1 /\ p = f.sigEnd + 1 /\ TokenAt(f.sigEnd) = "=>"
          /\ \A i \in x + 1 .. f.sigEnd - 1 : TokenAt(i) = "CHAIN" /\ nodes[i] = NoNode
      BY <1>4, <1>5, <2>2 DEF Names
    <3>2. \A i \in x + 1 .. f.sigEnd - 1 : i \in 1 .. Len(tokens) /\ i < p
      BY <3>1
    <3>3. \A i \in x + 1 .. f.sigEnd - 1 : TokenAt(i)' = "CHAIN" /\ nodes'[i] = NoNode
      BY <1>1, <3>1, <3>2
    <3>4. QED
      BY <1>1, <1>4, <2>2, <3>1, <3>3 DEF Names, NoNode
  <2>3. QED
    BY <2>1, <2>2
<1>7. \A q, e : TokenAt(e) = WordOf(kinds[x]) /\ Alone(E, q, e) => Alone(F, q, e)'
  <2>1. WordOf(kinds[x]) # "end"
    BY DEF WordOf
  <2>2. \A e : TokenAt(e) = WordOf(kinds[x]) => e # 0
    BY <2>1, TokenIs
  <2>3. QED
    BY <2>2, LinkStays
<1>8. Whole(E, x, p) => Whole(F, x, p)'
  BY <1>4, WholeStays
<1>9. nodes'[x] = nodes[x]
  BY <1>4
<1>10. QED
  BY <1>1, <1>2, <1>3, <1>4, <1>5, <1>7, <1>8, <1>9 DEF Stage, Called

-----------------------------------------------------------------------------
(* The steps of a call.                                                    *)

\* What comes first in the rest of a call after a step.
Next1(kind, step) == IF StepAfter(kind, step) = "end" THEN "next" ELSE StepAfter(kind, step)

LEMMA StepsAfter ==
  ASSUME NEW k
  PROVE  /\ k \in ChainKinds => StepAfter(k, "chain") = "end"
         /\ k \in {"CHAIN:", "CHAIN!"} => StepAfter(k, "chain") = "sub"
         /\ k = "CHAIN(" => StepAfter(k, "chain") = "body"
         /\ StepAfter(k, "sig") = "body"
         /\ k \in Braces => StepAfter(k, "body") = "binds"
         /\ k \in {"(", "CHAIN("} => StepAfter(k, "body") = ")"
         /\ StepAfter(k, "binds") = CloseBrace
         /\ k \in Applied => StepAfter(k, "sub") = "end"
         /\ k = "then" => StepAfter(k, "sub") = "else"
         /\ k = "until" => StepAfter(k, "sub") = "do"
         /\ StepAfter(k, "path") = "checkPath"
         /\ StepAfter(k, "checkPath") = "as"
         /\ StepAfter(k, "name") = "checkName"
         /\ \A step \in {CloseBrace, ")", "else", "do", "alt", "as", "checkName"} :
              StepAfter(k, step) = "end"
<1>1. k \in Applied => k \notin {"then", "until"}
  BY PlainKinds
<1>2. k \in {"CHAIN:", "CHAIN!", "CHAIN("} => k \notin ChainKinds
  BY KindsApart DEF OtherKinds
<1>3. k \in {"(", "CHAIN("} => k \notin Braces
  BY WordsApart
<1>4. CloseBrace \notin {"chain", "sig", "body", "binds", "sub", "path", "checkPath", "name"}
  BY StepsApart
<1>5. QED
  BY <1>1, <1>2, <1>3, <1>4 DEF StepAfter, WordOf

LEMMA TakersAre ==
  /\ DOMAIN ChainMargins = ChainKinds \cup {"CHAIN:", "CHAIN(", "CHAIN!"}
  /\ Takers("chain") = DOMAIN ChainMargins
  /\ Takers("sig") = Braces /\ Takers("binds") = Braces /\ Takers(CloseBrace) = Braces
  /\ Takers("body") = Braces \cup {"(", "CHAIN("}
  /\ Takers(")") = {"(", "CHAIN("}
  /\ Takers("sub") = Applied \cup {"then", "until"}
  /\ Takers("else") = {"then"} /\ Takers("do") = {"until"}
  /\ Takers("alt") = {"then", "until", "else", "do"}
  /\ \A step \in {"path", "checkPath", "as", "name", "checkName"} : Takers(step) = {"import"}
<1>1. DOMAIN ChainMargins = ChainKinds \cup {"CHAIN:", "CHAIN(", "CHAIN!"}
  BY DEF ChainMargins, ChainKinds
<1>2. CloseBrace \notin {"chain", "body", ")", "sub", "else", "do", "alt", "path", "checkPath",
                         "as", "name", "checkName"}
  BY StepsApart
<1>3. QED
  BY <1>1, <1>2 DEF Takers

\* The steps of s come in their order, and then no more or the next unit.
InOrder(kind, s) ==
  /\ s # <<>>
  /\ \A j \in 1 .. Len(s) :
       /\ s[j] \notin {"next", "unexpected"}
       /\ kind \in Takers(s[j])
       /\ IF j = Len(s) THEN StepAfter(kind, s[j]) = "end"
          ELSE s[j + 1] = StepAfter(kind, s[j]) /\ StepAfter(kind, s[j]) # "end"

LEMMA ScheduledJoin ==
  ASSUME NEW S, NEW kind, NEW s \in Seq(S), InOrder(kind, s),
         NEW rest \in Seq(S), rest = <<>> \/ (Len(rest) = 1 /\ rest[1] = "next")
  PROVE  LET t == s \o rest
         IN  /\ t \in Seq(S) /\ Scheduled(kind, t) /\ t # <<>> /\ StepOf(t) = s[1]
             /\ Has(t, "next") => Has(rest, "next")
<1>1. PICK n \in Nat : n = Len(s) /\ n # 0
  BY LenProperties, EmptySeq DEF InOrder
<1>2. PICK N \in Nat : N = Len(rest) /\ (N = 0 \/ (N = 1 /\ rest[1] = "next"))
  BY LenProperties, EmptySeq
<1>3. PICK t : t = s \o rest
  OBVIOUS
<1>4. /\ t \in Seq(S) /\ Len(t) = n + N
      /\ \A i \in 1 .. n : t[i] = s[i]
      /\ \A i \in 1 .. N : t[n + i] = rest[i]
  <2>1. s \in Seq(S) /\ rest \in Seq(S)
    OBVIOUS
  <2>2. /\ t \in Seq(S) /\ Len(t) = Len(s) + Len(rest)
        /\ \A i \in 1 .. Len(s) : t[i] = s[i]
        /\ \A i \in 1 .. Len(rest) : t[Len(s) + i] = rest[i]
    BY ONLY <1>3, <2>1, JoinIs
  <2>3. QED
    BY <1>1, <1>2, <2>2
<1>5. N = 1 => t[n + 1] = "next"
  BY <1>2, <1>4
<1>6. \A j \in 1 .. n : /\ s[j] \notin {"next", "unexpected"}
                        /\ kind \in Takers(s[j])
                        /\ IF j = n THEN StepAfter(kind, s[j]) = "end"
                           ELSE s[j + 1] = StepAfter(kind, s[j]) /\ StepAfter(kind, s[j]) # "end"
  BY <1>1 DEF InOrder
<1>7. ASSUME NEW j \in 1 .. n + N
      PROVE  IF t[j] = "next" THEN j = n + N
             ELSE t[j] # "unexpected" =>
                  /\ kind \in Takers(t[j])
                  /\ IF j = n + N THEN StepAfter(kind, t[j]) = "end"
                     ELSE t[j + 1] = Next1(kind, t[j])
  <2>1. CASE j < n
    <3>1. j \in 1 .. n /\ j + 1 \in 1 .. n /\ t[j] = s[j] /\ t[j + 1] = s[j + 1] /\ j # n + N
      BY <1>2, <1>4, <2>1
    <3>2. QED
      BY <1>6, <2>1, <3>1 DEF Next1
  <2>2. CASE j = n
    <3>1. t[j] = s[n] /\ n \in 1 .. n /\ (j # n + N => t[j + 1] = "next")
      BY <1>1, <1>2, <1>4, <1>5, <2>2
    <3>2. QED
      BY <1>6, <3>1 DEF Next1
  <2>3. CASE j > n
    <3>1. j = n + N /\ N = 1
      BY <1>2, <2>3
    <3>2. QED
      BY <1>5, <3>1
  <2>4. QED
    BY <2>1, <2>2, <2>3
<1>8. Scheduled(kind, t)
  BY <1>4, <1>7 DEF Scheduled, Next1
<1>9. t # <<>> /\ StepOf(t) = s[1]
  <2>1. Len(t) # 0 /\ 1 \in 1 .. n
    BY <1>1, <1>2, <1>4
  <2>2. QED
    BY <1>4, <2>1, EmptySeq DEF StepOf
<1>10. Has(t, "next") => Has(rest, "next")
  <2>1. ASSUME NEW j \in 1 .. n + N, t[j] = "next"
        PROVE  N = 1
    <3>1. CASE j <= n
      <4>1. j \in 1 .. n
        BY <3>1
      <4>2. QED
        BY <1>4, <1>6, <2>1, <4>1
    <3>2. CASE j > n
      BY <1>2, <3>2
    <3>3. QED
      BY <3>1, <3>2
  <2>2. N = 1 => Has(rest, "next")
    BY <1>2 DEF Has
  <2>3. QED
    BY <1>4, <2>1, <2>2 DEF Has
<1>11. QED
  BY <1>3, <1>4, <1>8, <1>9, <1>10

LEMMA ScheduledNext ==
  ASSUME NEW S, NEW kind, NEW todo \in Seq(S), todo # <<>>, Scheduled(kind, todo)
  PROVE  LET step == todo[1]
             rest == Tail(todo)
         IN  /\ Scheduled(kind, rest) /\ rest \in Seq(S)
             /\ todo = <<step>> \o rest
             /\ step = "next" => rest = <<>>
             /\ step \notin {"next", "unexpected"} =>
                  /\ kind \in Takers(step)
                  /\ rest = <<>> => StepAfter(kind, step) = "end"
                  /\ rest # <<>> => rest[1] = Next1(kind, step)
<1>1. PICK rest : rest = Tail(todo)
  OBVIOUS
<1>2. PICK N \in Nat : N = Len(todo) /\ N # 0
  BY LenProperties, EmptySeq
<1>3. /\ rest \in Seq(S) /\ Len(rest) = N - 1 /\ (rest = <<>> <=> N = 1)
      /\ \A j \in 1 .. N - 1 : rest[j] = todo[j + 1]
      /\ Head(todo) = todo[1]
  <2>1. rest \in Seq(S) /\ Len(rest) = N - 1 /\ \A j \in 1 .. N - 1 : rest[j] = todo[j + 1]
        /\ Head(todo) = todo[1]
    BY <1>1, <1>2, HeadTailProperties
  <2>2. rest = <<>> <=> Len(rest) = 0
    BY <2>1, EmptySeq
  <2>3. QED
    BY <2>1, <2>2
<1>4. \A j \in 1 .. N :
        IF todo[j] = "next" THEN j = N
        ELSE todo[j] # "unexpected" =>
             /\ kind \in Takers(todo[j])
             /\ IF j = N THEN StepAfter(kind, todo[j]) = "end"
                ELSE todo[j + 1] = Next1(kind, todo[j])
  BY <1>2 DEF Scheduled, Next1
<1>5. Scheduled(kind, rest)
  <2>1. ASSUME NEW j \in 1 .. N - 1
        PROVE  IF rest[j] = "next" THEN j = N - 1
               ELSE rest[j] # "unexpected" =>
                    /\ kind \in Takers(rest[j])
                    /\ IF j = N - 1 THEN StepAfter(kind, rest[j]) = "end"
                       ELSE rest[j + 1] = Next1(kind, rest[j])
    <3>1. j + 1 \in 1 .. N /\ rest[j] = todo[j + 1] /\ (j + 1 = N <=> j = N - 1)
          /\ (j # N - 1 => rest[j + 1] = todo[(j + 1) + 1])
      BY <1>3
    <3>2. QED
      BY <1>4, <3>1
  <2>2. QED
    BY <1>3, <2>1 DEF Scheduled, Next1
<1>6. todo = <<todo[1]>> \o rest
  BY <1>1, <1>2, <1>3
<1>7. 1 \in 1 .. N /\ (N # 1 => rest[1] = todo[2])
  BY <1>3
<1>8. /\ todo[1] = "next" => rest = <<>>
      /\ todo[1] \notin {"next", "unexpected"} =>
           /\ kind \in Takers(todo[1])
           /\ rest = <<>> => StepAfter(kind, todo[1]) = "end"
           /\ rest # <<>> => rest[1] = Next1(kind, todo[1])
  <2>1. IF todo[1] = "next" THEN 1 = N
        ELSE todo[1] # "unexpected" =>
             /\ kind \in Takers(todo[1])
             /\ IF 1 = N THEN StepAfter(kind, todo[1]) = "end"
                ELSE todo[1 + 1] = Next1(kind, todo[1])
    BY <1>4, <1>7
  <2>2. QED
    BY <1>3, <1>7, <2>1
<1>9. QED
  BY <1>1, <1>3, <1>5, <1>6, <1>8

LEMMA InOrderOne ==
  ASSUME NEW k, NEW a \in StepNames, a # "next", a # "unexpected", k \in Takers(a),
         StepAfter(k, a) = "end", NEW s, s = <<a>>
  PROVE  s \in Seq(StepNames) /\ InOrder(k, s) /\ s[1] = a
<1>1. s \in Seq(StepNames) /\ Len(s) = 1 /\ s[1] = a /\ s # <<>>
  OBVIOUS
<1>2. \A j \in 1 .. Len(s) : j = 1
  BY <1>1
<1>3. QED
  BY <1>1, <1>2 DEF InOrder

LEMMA InOrderTwo ==
  ASSUME NEW k, NEW a \in StepNames, a # "next", a # "unexpected", k \in Takers(a),
         NEW b \in StepNames, b # "next", b # "unexpected", k \in Takers(b),
         StepAfter(k, a) = b, b # "end", StepAfter(k, b) = "end", NEW s, s = <<a, b>>
  PROVE  s \in Seq(StepNames) /\ InOrder(k, s) /\ s[1] = a
<1>1. s \in Seq(StepNames) /\ Len(s) = 2 /\ s[1] = a /\ s[2] = b /\ s # <<>>
  OBVIOUS
<1>2. \A j \in 1 .. Len(s) : j = 1 \/ j = 2
  BY <1>1
<1>3. InOrder(k, s)
  <2>1. ASSUME NEW j \in 1 .. Len(s)
        PROVE  /\ s[j] \notin {"next", "unexpected"}
               /\ k \in Takers(s[j])
               /\ IF j = Len(s) THEN StepAfter(k, s[j]) = "end"
                  ELSE s[j + 1] = StepAfter(k, s[j]) /\ StepAfter(k, s[j]) # "end"
    <3>1. CASE j = 1
      <4>1. j + 1 = 2 /\ j # Len(s) /\ s[j] = a
        BY <1>1, <3>1
      <4>2. QED
        BY <1>1, <4>1
    <3>2. CASE j = 2
      BY <1>1, <3>2
    <3>3. QED
      BY <1>2, <3>1, <3>2
  <2>2. QED
    BY <1>1, <2>1 DEF InOrder
<1>4. QED
  BY <1>1, <1>3

LEMMA InOrderThree ==
  ASSUME NEW k, NEW a \in StepNames, a # "next", a # "unexpected", k \in Takers(a),
         NEW b \in StepNames, b # "next", b # "unexpected", k \in Takers(b),
         NEW c \in StepNames, c # "next", c # "unexpected", k \in Takers(c),
         StepAfter(k, a) = b, b # "end", StepAfter(k, b) = c, c # "end",
         StepAfter(k, c) = "end", NEW s, s = <<a, b, c>>
  PROVE  s \in Seq(StepNames) /\ InOrder(k, s) /\ s[1] = a
<1>1. s \in Seq(StepNames) /\ Len(s) = 3 /\ s[1] = a /\ s[2] = b /\ s[3] = c /\ s # <<>>
  OBVIOUS
<1>2. \A j \in 1 .. Len(s) : j = 1 \/ j = 2 \/ j = 3
  BY <1>1
<1>3. InOrder(k, s)
  <2>1. ASSUME NEW j \in 1 .. Len(s)
        PROVE  /\ s[j] \notin {"next", "unexpected"}
               /\ k \in Takers(s[j])
               /\ IF j = Len(s) THEN StepAfter(k, s[j]) = "end"
                  ELSE s[j + 1] = StepAfter(k, s[j]) /\ StepAfter(k, s[j]) # "end"
    <3>1. CASE j = 1
      <4>1. j + 1 = 2 /\ j # Len(s) /\ s[j] = a
        BY <1>1, <3>1
      <4>2. QED
        BY <1>1, <4>1
    <3>2. CASE j = 2
      <4>1. j + 1 = 3 /\ j # Len(s) /\ s[j] = b
        BY <1>1, <3>2
      <4>2. QED
        BY <1>1, <4>1
    <3>3. CASE j = 3
      BY <1>1, <3>3
    <3>4. QED
      BY <1>2, <3>1, <3>2, <3>3
  <2>2. QED
    BY <1>1, <2>1 DEF InOrder
<1>4. QED
  BY <1>1, <1>3

\* A call begins in the order of its kind.
FirstStep(k) ==
  IF k \in DOMAIN ChainMargins THEN "chain"
  ELSE IF k \in Braces THEN "sig"
  ELSE IF k = "(" THEN "body"
  ELSE IF k \in {"else", "do"} THEN "alt"
  ELSE IF k = "import" THEN "path"
  ELSE "sub"

LEMMA ScriptInOrder ==
  ASSUME NEW k, k \in Known, k \notin Literals
  PROVE  Script(k) \in Seq(StepNames) /\ InOrder(k, Script(k)) /\ Script(k)[1] = FirstStep(k)
<1>1. /\ "chain" \in StepNames /\ "sig" \in StepNames /\ "body" \in StepNames
      /\ "binds" \in StepNames /\ "sub" \in StepNames /\ "alt" \in StepNames
      /\ "else" \in StepNames /\ "do" \in StepNames /\ "path" \in StepNames
      /\ "checkPath" \in StepNames /\ "as" \in StepNames
      /\ ")" \in StepNames /\ CloseBrace \in StepNames
      /\ CloseBrace # "end" /\ CloseBrace # "next" /\ CloseBrace # "unexpected"
  BY StepsApart, Zenon DEF StepNames, Closing, Brackets
<1>2. DOMAIN ChainMargins = ChainKinds \cup {"CHAIN:", "CHAIN(", "CHAIN!"}
  BY TakersAre
<1>3. PICK s : s = Script(k)
  OBVIOUS
<1>4. CASE k \in ChainKinds
  <2>1. s = <<"chain">> /\ FirstStep(k) = "chain"
    BY <1>2, <1>3, <1>4, ScriptCases DEF FirstStep
  <2>2. k \in Takers("chain") /\ StepAfter(k, "chain") = "end"
    BY <1>2, <1>4, TakersAre, StepsAfter
  <2>3. QED
    BY <1>1, <1>3, <2>1, <2>2, InOrderOne
<1>5. CASE k \in Prefixed
  <2>1. k \notin ChainKinds \cup OtherKinds
    BY <1>5, KindsApart
  <2>2. s = <<"sub">> /\ FirstStep(k) = "sub"
    BY <1>2, <1>3, <1>5, <2>1, ScriptCases DEF FirstStep, OtherKinds
  <2>3. k \in Takers("sub") /\ StepAfter(k, "sub") = "end"
    BY <1>5, TakersAre, StepsAfter DEF Applied
  <2>4. QED
    BY <1>1, <1>3, <2>2, <2>3, InOrderOne
<1>6. CASE k \in {"CHAIN:", "CHAIN!"}
  <2>1. s = <<"chain", "sub">> /\ FirstStep(k) = "chain"
    BY <1>2, <1>3, <1>6, ScriptCases DEF FirstStep
  <2>2. /\ k \in Takers("chain") /\ StepAfter(k, "chain") = "sub"
        /\ k \in Takers("sub") /\ StepAfter(k, "sub") = "end"
    <3>1. k \in Applied
      BY <1>6 DEF Applied
    <3>2. k \in Takers("chain") /\ k \in Takers("sub")
      BY <1>2, <1>6, <3>1, TakersAre
    <3>3. StepAfter(k, "chain") = "sub" /\ StepAfter(k, "sub") = "end"
      BY <1>6, <3>1, StepsAfter
    <3>4. QED
      BY <3>2, <3>3
  <2>3. QED
    BY <1>1, <1>3, <2>1, <2>2, InOrderTwo
<1>7. CASE k = "CHAIN("
  <2>1. s = <<"chain", "body", ")">> /\ FirstStep(k) = "chain"
    BY <1>2, <1>3, <1>7, ScriptCases DEF FirstStep
  <2>2. k \in Takers("chain") /\ k \in Takers("body") /\ k \in Takers(")")
    BY <1>2, <1>7, TakersAre
  <2>3. /\ StepAfter(k, "chain") = "body" /\ StepAfter(k, "body") = ")"
        /\ StepAfter(k, ")") = "end"
    BY <1>7, StepsAfter
  <2>4. QED
    BY <1>1, <1>3, <2>1, <2>2, <2>3, InOrderThree
<1>8. CASE k = "("
  <2>1. k \notin DOMAIN ChainMargins /\ k \notin Braces
    BY <1>2, <1>8, WordsApart DEF ChainKinds
  <2>2. s = <<"body", ")">> /\ FirstStep(k) = "body"
    BY <1>3, <1>8, <2>1, ScriptCases DEF FirstStep
  <2>3. k \in Takers("body") /\ k \in Takers(")")
    BY <1>8, TakersAre
  <2>4. StepAfter(k, "body") = ")" /\ StepAfter(k, ")") = "end"
    BY <1>8, StepsAfter
  <2>5. QED
    BY <1>1, <1>3, <2>2, <2>3, <2>4, InOrderTwo
<1>9. CASE k \in {"then", "until"}
  <2>1. k \notin DOMAIN ChainMargins /\ k \notin Braces
    BY <1>2, <1>9, WordsApart DEF ChainKinds
  <2>2. PICK word \in {"else", "do"} : word = WordOf(k)
    BY DEF WordOf
  <2>3. s = <<"sub", word>> /\ FirstStep(k) = "sub"
    BY <1>3, <1>9, <2>1, <2>2, ScriptCases DEF FirstStep, WordOf
  <2>4. k \in Takers("sub") /\ k \in Takers(word)
    BY <1>9, <2>2, TakersAre DEF WordOf
  <2>5. StepAfter(k, "sub") = word /\ StepAfter(k, word) = "end"
    BY <1>9, <2>2, StepsAfter DEF WordOf
  <2>6. QED
    BY <1>1, <1>3, <2>2, <2>3, <2>4, <2>5, InOrderTwo
<1>10. CASE k \in {"else", "do"}
  <2>1. k \notin DOMAIN ChainMargins /\ k \notin Braces
    BY <1>2, <1>10, WordsApart DEF ChainKinds
  <2>2. s = <<"alt">> /\ FirstStep(k) = "alt"
    BY <1>3, <1>10, <2>1, ScriptCases DEF FirstStep
  <2>3. k \in Takers("alt") /\ StepAfter(k, "alt") = "end"
    BY <1>10, TakersAre, StepsAfter
  <2>4. QED
    BY <1>1, <1>3, <2>2, <2>3, InOrderOne
<1>11. CASE k = "import"
  <2>1. k \notin DOMAIN ChainMargins /\ k \notin Braces
    BY <1>2, <1>11, WordsApart DEF ChainKinds
  <2>2. s = <<"path", "checkPath", "as">> /\ FirstStep(k) = "path"
    BY <1>3, <1>11, <2>1, ScriptCases DEF FirstStep
  <2>3. k \in Takers("path") /\ k \in Takers("checkPath") /\ k \in Takers("as")
    BY <1>11, TakersAre
  <2>4. /\ StepAfter(k, "path") = "checkPath" /\ StepAfter(k, "checkPath") = "as"
        /\ StepAfter(k, "as") = "end"
    BY StepsAfter
  <2>5. QED
    BY <1>1, <1>3, <2>2, <2>3, <2>4, InOrderThree
<1>12. CASE k \in Braces
  <2>1. k \notin DOMAIN ChainMargins
    BY <1>2, <1>12, PlainKinds, WordsApart DEF Applied
  <2>2. s = <<"sig", "body", "binds", CloseBrace>> /\ FirstStep(k) = "sig"
    BY <1>3, <1>12, <2>1, ScriptCases DEF FirstStep
  <2>3. /\ s \in Seq(StepNames) /\ Len(s) = 4 /\ s # <<>>
        /\ s[1] = "sig" /\ s[2] = "body" /\ s[3] = "binds" /\ s[4] = CloseBrace
    BY <1>1, <2>2
  <2>4. /\ k \in Takers("sig") /\ k \in Takers("body") /\ k \in Takers("binds")
        /\ k \in Takers(CloseBrace)
    BY <1>12, TakersAre
  <2>5. /\ StepAfter(k, "sig") = "body" /\ StepAfter(k, "body") = "binds"
        /\ StepAfter(k, "binds") = CloseBrace /\ StepAfter(k, CloseBrace) = "end"
    BY <1>12, StepsAfter
  <2>6. ASSUME NEW j \in 1 .. Len(s)
        PROVE  /\ s[j] \notin {"next", "unexpected"}
               /\ k \in Takers(s[j])
               /\ IF j = Len(s) THEN StepAfter(k, s[j]) = "end"
                  ELSE s[j + 1] = StepAfter(k, s[j]) /\ StepAfter(k, s[j]) # "end"
    <3>1. CASE j = 1
      <4>1. j + 1 = 2 /\ j # Len(s) /\ s[j] = "sig"
        BY <2>3, <3>1
      <4>2. QED
        BY <2>3, <2>4, <2>5, <4>1
    <3>2. CASE j = 2
      <4>1. j + 1 = 3 /\ j # Len(s) /\ s[j] = "body"
        BY <2>3, <3>2
      <4>2. QED
        BY <2>3, <2>4, <2>5, <4>1
    <3>3. CASE j = 3
      <4>1. j + 1 = 4 /\ j # Len(s) /\ s[j] = "binds"
        BY <2>3, <3>3
      <4>2. QED
        BY <1>1, <2>3, <2>4, <2>5, <4>1
    <3>4. CASE j = 4
      <4>1. j = Len(s) /\ s[j] = CloseBrace
        BY <2>3, <3>4
      <4>2. QED
        BY <1>1, <2>4, <2>5, <4>1
    <3>5. j = 1 \/ j = 2 \/ j = 3 \/ j = 4
      BY <2>3
    <3>6. QED
      BY <3>1, <3>2, <3>3, <3>4, <3>5
  <2>7. InOrder(k, s)
    BY <2>3, <2>6 DEF InOrder
  <2>8. QED
    BY <1>3, <2>2, <2>3, <2>7
<1>13. QED
  BY <1>4, <1>5, <1>6, <1>7, <1>8, <1>9, <1>10, <1>11, <1>12 DEF Known, OtherKinds

LEMMA FrameScheduled ==
  ASSUME NEW i \in Nat, NEW single, NEW into \in Intos
  PROVE  LET t == Frame(i, single, into).todo
         IN  /\ Scheduled(kinds[i], t)
             /\ kinds[i] \in Literals => StepOf(t) \in {"none", "next"}
             /\ kinds[i] \in Known /\ kinds[i] \notin Literals =>
                  StepOf(t) = FirstStep(kinds[i])
             /\ kinds[i] \notin Known => StepOf(t) = "unexpected"
<1>1. PICK k, s, rest : /\ k = kinds[i] /\ s = Script(k)
                        /\ rest = IF single THEN <<>> ELSE <<"next">>
  OBVIOUS
<1>2. PICK t : t = s \o rest
  OBVIOUS
<1>3. Frame(i, single, into).todo = t
  BY <1>1, <1>2 DEF Frame
<1>4. /\ rest \in Seq(StepNames)
      /\ rest = <<>> \/ (Len(rest) = 1 /\ rest[1] = "next")
      /\ \A j \in 1 .. Len(rest) : j = Len(rest) /\ rest[j] = "next"
  <2>1. CASE rest = <<>>
    BY <2>1, EmptySeq
  <2>2. CASE rest = <<"next">>
    <3>1. rest \in Seq(StepNames) /\ Len(rest) = 1 /\ rest[1] = "next"
      BY <2>2 DEF StepNames
    <3>2. \A j \in 1 .. Len(rest) : j = 1
      BY <3>1
    <3>3. QED
      BY <3>1, <3>2
  <2>3. QED
    BY <1>1, <2>1, <2>2
<1>5. CASE k \in Literals
  <2>1. s = <<>>
    BY <1>1, <1>5, ScriptCases
  <2>2. t = rest
    BY <1>2, <1>4, <2>1, ConcatEmptySeq
  <2>3. Scheduled(k, t) /\ StepOf(t) \in {"none", "next"}
    BY <1>4, <2>2 DEF Scheduled, StepOf
  <2>4. k \in Known
    BY <1>5 DEF Known
  <2>5. QED
    BY <1>1, <1>3, <1>5, <2>3, <2>4
<1>6. CASE k \in Known /\ k \notin Literals
  <2>1. s \in Seq(StepNames) /\ InOrder(k, s) /\ s[1] = FirstStep(k)
    BY <1>1, <1>6, ScriptInOrder
  <2>2. Scheduled(k, t) /\ StepOf(t) = s[1]
    BY <1>2, <1>4, <2>1, ScheduledJoin
  <2>3. QED
    BY <1>1, <1>3, <1>6, <2>1, <2>2
<1>7. CASE k \notin Known
  <2>1. s = <<"unexpected">>
    BY <1>1, <1>7, ScriptCases DEF Known
  <2>2. s \in Seq(StepNames) /\ Len(s) = 1 /\ s[1] = "unexpected"
    BY <2>1 DEF StepNames
  <2>3. /\ t \in Seq(StepNames) /\ Len(t) = Len(s) + Len(rest)
        /\ \A j \in 1 .. Len(s) : t[j] = s[j]
        /\ \A j \in 1 .. Len(rest) : t[Len(s) + j] = rest[j]
    <3>1. s \in Seq(StepNames) /\ rest \in Seq(StepNames)
      BY <1>4, <2>2
    <3>2. QED
      BY ONLY <1>2, <3>1, JoinIs
  <2>4. PICK N \in Nat : N = Len(rest) /\ (N = 0 \/ N = 1)
    BY <1>4, LenProperties
  <2>5. Len(t) = 1 + N /\ t[1] = "unexpected" /\ (N = 1 => t[2] = "next")
    BY <1>4, <2>2, <2>3, <2>4
  <2>6. Scheduled(k, t)
    <3>1. \A j \in 1 .. Len(t) : j = 1 \/ (j = 2 /\ j = Len(t) /\ N = 1)
      <4>1. CASE N = 0
        BY <2>5, <4>1
      <4>2. CASE N = 1
        BY <2>5, <4>2
      <4>3. QED
        BY <2>4, <4>1, <4>2
    <3>2. QED
      BY <2>5, <3>1 DEF Scheduled
  <2>7. t # <<>>
    BY <2>3, <2>4, <2>5, EmptySeq
  <2>8. QED
    BY <1>1, <1>3, <1>7, <2>5, <2>6, <2>7, KnownKinds DEF StepOf, Known
<1>8. QED
  BY <1>5, <1>6, <1>7

LEMMA KindPlain ==
  ASSUME Worded, NEW i \in 1 .. Len(tokens)
  PROVE  kinds[i] \notin {"none", "SIGBIND", "end"}
<1>1. \A k \in Keywords \cup Punctuation : k \notin {"none", "SIGBIND", "end"}
  BY Zenon DEF Keywords, Punctuation
<1>2. \A c \in DOMAIN IdentKinds : IdentKinds[c] \notin {"none", "SIGBIND", "end"}
  BY Zenon DEF IdentKinds
<1>3. \A c \in DOMAIN PrefixChain : PrefixChain[c] \notin {"none", "SIGBIND", "end"}
  BY DEF PrefixChain
<1>4. \A c \in DOMAIN ChainSuffix : ChainSuffix[c] \notin {"none", "SIGBIND", "end"}
  BY DEF ChainSuffix
<1>5. \A w : KindOf(w) \notin {"none", "SIGBIND", "end"}
  BY <1>1, <1>2, <1>3, <1>4 DEF KindOf
<1>6. QED
  BY <1>5 DEF Worded

\* A unit that is read.
LEMMA Ending ==
  ASSUME NEW E, NEW f, NEW p \in 1 .. Len(tokens) + 1, UNCHANGED <<tokens, kinds>>,
         nodes'[f.node].kind = kinds[f.node], nodes'[f.node].next = 0,
         kinds[f.node] \in DOMAIN ChainMargins => Chained(f.node)', Whole(E, f.node, p)',
         NEW step \in {"next", "none"}
  PROVE  Stage(E, f, step, p)'
<1>1. Linked(E, 0, p, p)'
  BY DEF Linked
<1>2. Rule(E, f.node, p)'
  BY <1>1 DEF Rule
<1>3. CloseBrace # step
  BY StepsApart
<1>4. QED
  BY <1>2, <1>3 DEF Stage

\* A call of fpParseBody begins.
LEMMA StageStarts ==
  ASSUME NEW E, NEW f, NEW x \in 1 .. Len(tokens), f.node = x, f.sigEnd <= f.sigBegin,
         UNCHANGED <<tokens, kinds>>, nodes'[x] = NewNode(kinds[x]), Len(tokens) \in Nat,
         NEW step, NEW k, k = kinds[x],
         k \in Literals => step \in {"none", "next"},
         k \in Known /\ k \notin Literals => step = FirstStep(k),
         k \notin Known => step = "unexpected"
  PROVE  Stage(E, f, step, x + 1)'
<1>1. /\ nodes'[x].kind = k /\ nodes'[x].sub = 0 /\ nodes'[x].alt = 0
      /\ nodes'[x].next = 0 /\ kinds'[x] = k
  BY DEF NewNode, NoNode
<1>2. DOMAIN ChainMargins \subseteq Known /\ DOMAIN ChainMargins \cap Literals = {}
  BY TakersAre, KindsApart DEF Known, OtherKinds
<1>3. CASE k \in Literals
  <2>1. Whole(E, x, x + 1)'
    BY <1>1, <1>3 DEF Whole
  <2>2. x + 1 \in 1 .. Len(tokens) + 1 /\ k \notin DOMAIN ChainMargins
    BY <1>2, <1>3
  <2>3. QED
    BY <1>1, <1>3, <2>1, <2>2, Ending
<1>4. CASE k \notin Known
  <2>1. step = "unexpected" /\ CloseBrace # "unexpected" /\ k \notin DOMAIN ChainMargins
    BY <1>2, <1>4, StepsApart
  <2>2. QED
    BY <1>1, <2>1 DEF Stage
<1>5. CASE k \in Known /\ k \notin Literals
  <2>1. /\ step = FirstStep(k) /\ step \in {"chain", "sig", "body", "alt", "path", "sub"}
        /\ k \in DOMAIN ChainMargins => step = "chain"
        /\ step = "body" => k = "("
        /\ step = "alt" => k \in {"else", "do"}
    BY <1>5 DEF FirstStep
  <2>2. step # CloseBrace /\ (step = "body" => k \notin Braces)
    BY <2>1, StepsApart, WordsApart
  <2>3. QED
    BY <1>1, <2>1, <2>2 DEF Stage
<1>6. QED
  BY <1>3, <1>4, <1>5

-----------------------------------------------------------------------------
(* Each step of fpParseBody, and the tree it leaves.                       *)

LEMMA GrowingIs ==
  ASSUME NEW g, NEW P, NEW G, Held(g, P, G), frames # <<>>, NEW E, Growing(E)
  PROVE  LET L == Len(frames)
             N == Len(tokens)
         IN  /\ L \in Nat \ {0} /\ N \in Nat /\ Top = frames[L] /\ Top \in Call
             /\ Top.node \in 1 .. N /\ Top.node < nextToken /\ nextToken \in 1 .. N + 1
             /\ \A k \in 1 .. L : /\ frames[k] \in Call /\ frames[k].node \in 1 .. N
                                  /\ frames[k].node <= Top.node
                                  /\ nodes[frames[k].node].kind = kinds[frames[k].node]
                                  /\ E[frames[k].node] = 0
                                  /\ Scheduled(kinds[frames[k].node], frames[k].todo)
             /\ \A k \in 1 .. L - 1 : /\ frames[k].node < frames[k + 1].node
                                      /\ frames[k].node < Top.node
                                      /\ frames[k + 1].node <= Top.node
             /\ \A i \in 1 .. N : /\ kinds[i] \notin {"none", "SIGBIND", "end"}
                                  /\ E[i] # 0 => nodes[i].kind = kinds[i]
                                  /\ nodes[i].kind = "SIGBIND" => E[i] = 0 /\ kinds[i] = "CHAIN"
             /\ E[Top.node] = 0 /\ Scheduled(kinds[Top.node], Top.todo)
             /\ Stage(E, Top, StepOf(Top.todo), nextToken)
             /\ Top.todo \in Seq(StepNames)
             /\ frames \in Seq(Call)
<1>1. PICK L \in Nat \ {0}, N \in Nat : L = Len(frames) /\ N = Len(tokens)
  BY HeldIs
<1>2. /\ Top = frames[L] /\ Top \in Call /\ Top.node \in 1 .. N
      /\ \A k \in 1 .. L : frames[k] \in Call /\ frames[k].node <= Top.node
      /\ Top.todo \in Seq(StepNames) /\ Framed(L) /\ frames \in Seq(Call)
  BY <1>1, HeldIs DEF Held
<1>3. \A k \in 1 .. L : /\ frames[k].node \in 1 .. N
                        /\ nodes[frames[k].node].kind = kinds[frames[k].node]
  BY <1>1 DEF Held, Framing, Framed
<1>4. \A k \in 1 .. L : /\ E[frames[k].node] = 0
                        /\ Scheduled(kinds[frames[k].node], frames[k].todo)
  BY <1>1 DEF Growing
<1>5. ASSUME NEW k \in 1 .. L - 1
      PROVE  /\ frames[k].node < frames[k + 1].node
             /\ frames[k].node < Top.node
             /\ frames[k + 1].node <= Top.node
  <2>1. frames[k].node < frames[k + 1].node
    BY <1>1 DEF Held, Framing, CallerOf
  <2>2. k \in 1 .. L /\ k + 1 \in 1 .. L
    BY <1>1
  <2>3. frames[k].node \in 1 .. N /\ frames[k + 1].node \in 1 .. N /\ frames[k + 1].node <= Top.node
    BY <1>2, <1>3, <2>2
  <2>4. QED
    BY <1>2, <2>1, <2>3
<1>6. \A i \in 1 .. N : kinds[i] \notin {"none", "SIGBIND", "end"}
  BY <1>1, KindPlain DEF Held
<1>7. \A i \in 1 .. N : /\ E[i] # 0 => nodes[i].kind = kinds[i]
                        /\ nodes[i].kind = "SIGBIND" => E[i] = 0 /\ kinds[i] = "CHAIN"
  <2>1. \A i \in 1 .. N : /\ E[i] # 0 => nodes[i].kind = kinds[i]
                          /\ nodes[i].kind = "SIGBIND" => kinds[i] = "CHAIN"
    BY <1>1 DEF Growing, Grows, Rule
  <2>2. QED
    BY <1>6, <2>1
<1>8. nextToken \in 1 .. N + 1 /\ Top.node < nextToken
  BY <1>1, <1>2 DEF Growing, Framed
<1>9. Stage(E, Top, StepOf(Top.todo), nextToken)
  BY DEF Growing, Top
<1>10. E[Top.node] = 0 /\ Scheduled(kinds[Top.node], Top.todo)
  BY <1>1, <1>2, <1>4
<1>11. QED
  BY <1>1, <1>2, <1>3, <1>4, <1>5, <1>6, <1>7, <1>8, <1>9, <1>10

\* What a step of the innermost call changes: its own node, which keeps its
\* kind and the unit after it, and the tokens of its signature, which get the
\* nodes of names.
Touches ==
  LET N == Len(tokens)
  IN  \A i \in 1 .. N :
        /\ \/ nodes'[i] = nodes[i]
           \/ /\ i = Top.node
              /\ nodes'[i].kind = nodes[i].kind /\ nodes'[i].next = nodes[i].next
           \/ /\ i > Top.node /\ i < nextToken /\ nodes[i] = NoNode /\ kinds[i] = "CHAIN"
              /\ nodes'[i].kind = "SIGBIND"
        /\ {nodes'[i].sub, nodes'[i].alt, nodes'[i].next} \subseteq 0 .. N
        /\ i > 1 /\ nodes'[i].kind = "SIGBIND" /\ nodes'[i - 1].kind = "SIGBIND" =>
             nodes'[i].next = i - 1

LEMMA TreeStays ==
  ASSUME NEW g, NEW P, NEW G, Held(g, P, G), frames # <<>>, NEW E, Growing(E),
         UNCHANGED <<source, tokens, kinds>>,
         NEW f \in Call, f.node = Top.node, f.into = Top.into,
         Scheduled(kinds[f.node], f.todo), Has(f.todo, "next") => Has(Top.todo, "next"),
         frames' = ReplaceAt(frames, Len(frames), f),
         nextToken' \in 1 .. Len(tokens) + 1, nextToken' >= nextToken, Touches,
         Stage(E, f, StepOf(f.todo), nextToken)'
  PROVE  Growing(E)'
<1>1. PICK L \in Nat \ {0}, N \in Nat : L = Len(frames) /\ N = Len(tokens)
  BY GrowingIs
<1>2. /\ Top = frames[L] /\ Top \in Call /\ Top.node \in 1 .. N /\ Top.node < nextToken
      /\ nextToken \in 1 .. N + 1 /\ E[Top.node] = 0 /\ frames \in Seq(Call)
      /\ \A k \in 1 .. L : /\ frames[k] \in Call /\ frames[k].node \in 1 .. N
                           /\ frames[k].node <= Top.node
                           /\ nodes[frames[k].node].kind = kinds[frames[k].node]
                           /\ E[frames[k].node] = 0
                           /\ Scheduled(kinds[frames[k].node], frames[k].todo)
      /\ \A k \in 1 .. L - 1 : /\ frames[k].node < frames[k + 1].node
                               /\ frames[k].node < Top.node
                               /\ frames[k + 1].node <= Top.node
      /\ \A i \in 1 .. N : /\ kinds[i] \notin {"none", "SIGBIND", "end"}
                           /\ E[i] # 0 => nodes[i].kind = kinds[i]
                           /\ nodes[i].kind = "SIGBIND" => E[i] = 0 /\ kinds[i] = "CHAIN"
  BY <1>1, GrowingIs
<1>3. /\ nodes[Top.node].kind = kinds[Top.node] /\ L \in 1 .. L /\ Top = frames[L]
      /\ \A i \in 1 .. N : /\ i < Top.node => nodes'[i] = nodes[i]
                           /\ i <= Top.node => nodes'[i].next = nodes[i].next
  BY <1>1, <1>2 DEF Touches
<1>4. Steady(E, E)
  <2>1. ASSUME NEW i \in 1 .. N, E[i] # 0 \/ nodes[i].kind = "SIGBIND"
        PROVE  nodes'[i] = nodes[i]
    <3>1. nodes[i].kind # "none"
      BY <1>2, <2>1
    <3>2. nodes[i] # NoNode
      BY <3>1 DEF NoNode
    <3>3. i # Top.node
      BY <1>2, <1>3, <2>1
    <3>4. QED
      BY <1>1, <3>2, <3>3 DEF Touches
  <2>2. QED
    BY <1>1, <2>1 DEF Steady
<1>5. /\ frames' \in Seq(Call) /\ Len(frames') = L /\ frames'[L] = f
      /\ \A k \in 1 .. L - 1 : frames'[k] = frames[k]
  BY <1>1, <1>2, <1>3, ExceptSeq, LenProperties DEF ReplaceAt
<1>6. \A k \in 1 .. L : frames'[k].node = frames[k].node /\ frames'[k].into = frames[k].into
  <2>1. \A k \in 1 .. L : k = L \/ k \in 1 .. L - 1
    BY <1>1
  <2>2. frames'[L].node = frames[L].node /\ frames'[L].into = frames[L].into
    BY <1>3, <1>5
  <2>3. QED
    BY <1>5, <2>1, <2>2
<1>7. tokens' = tokens /\ kinds' = kinds /\ nextToken' \in 1 .. N + 1
  BY <1>1
<1>8. ASSUME NEW i \in 1 .. N
      PROVE  Grows(E, i)'
  <2>1. Grows(E, i)
    BY <1>1 DEF Growing
  <2>2. E[i] # 0 => E[i] \in i + 1 .. nextToken' /\ Rule(E, i, E[i])'
    <3>1. SUFFICES ASSUME E[i] # 0
                   PROVE  E[i] \in i + 1 .. nextToken' /\ Rule(E, i, E[i])'
      OBVIOUS
    <3>2. PICK e : e = E[i]
      OBVIOUS
    <3>3. e \in i + 1 .. nextToken /\ Rule(E, i, e)
      BY <2>1, <3>1, <3>2 DEF Grows
    <3>4. e \in i + 1 .. nextToken' /\ e \in 1 .. N + 1
      BY <1>2, <1>7, <3>3
    <3>5. nodes'[i] = nodes[i]
      BY <1>1, <1>4, <3>1 DEF Steady
    <3>6. Rule(E, i, e)'
      BY <1>1, <1>4, <3>3, <3>4, <3>5, RuleStays
    <3>7. QED
      BY <3>2, <3>4, <3>6
  <2>3. nodes'[i].kind = "SIGBIND" => kinds[i] = "CHAIN"
    BY <1>1, <1>2 DEF Touches
  <2>4. i >= nextToken' => nodes'[i] = NoNode
    <3>1. SUFFICES ASSUME i >= nextToken'
                   PROVE  nodes'[i] = NoNode
      OBVIOUS
    <3>2. i >= nextToken
      BY <1>2, <1>7, <3>1
    <3>3. nodes[i] = NoNode
      BY <2>1, <3>2 DEF Grows
    <3>4. QED
      BY <1>1, <1>2, <3>2, <3>3 DEF Touches
  <2>5. \/ nodes'[i].kind \in {"none", "SIGBIND"} \/ E[i] # 0
        \/ \E k \in 1 .. L : frames'[k].node = i
    <3>1. \/ nodes[i].kind \in {"none", "SIGBIND"} \/ E[i] # 0
          \/ \E k \in 1 .. L : frames[k].node = i
      BY <1>1, <2>1 DEF Grows
    <3>2. nodes'[i].kind = nodes[i].kind \/ nodes'[i].kind = "SIGBIND"
      BY <1>1 DEF Touches
    <3>3. QED
      BY <1>6, <3>1, <3>2
  <2>6. QED
    BY <1>1, <1>5, <1>7, <2>2, <2>3, <2>4, <2>5 DEF Grows, Touches
<1>9. ASSUME NEW k \in 1 .. L
      PROVE  E[frames'[k].node] = 0 /\ Scheduled(kinds[frames'[k].node], frames'[k].todo)
  <2>1. CASE k = L
    BY <1>2, <1>5, <2>1
  <2>2. CASE k # L
    <3>1. frames'[k] = frames[k]
      BY <1>1, <1>5, <2>2
    <3>2. E[frames[k].node] = 0 /\ Scheduled(kinds[frames[k].node], frames[k].todo)
      BY <1>2
    <3>3. QED
      BY <3>1, <3>2
  <2>3. QED
    BY <2>1, <2>2
<1>10. ASSUME NEW k \in 1 .. L - 1
       PROVE  Waits(E, k)'
  <2>1. PICK c, d : c = frames[k] /\ d = frames[k + 1]
    OBVIOUS
  <2>2. PICK step \in Called :
          /\ Scheduled(kinds[c.node], <<step>> \o c.todo)
          /\ Stage(E, c, step, d.node)
          /\ d.into = Field(step)
          /\ step \notin {"body", "next"} =>
               /\ nodes[d.node].next = 0 /\ ~Has(d.todo, "next")
               /\ k + 2 \in 1 .. L => frames[k + 2].into # "next"
    BY <1>1, <2>1 DEF Growing, Waits
  <2>3. k \in 1 .. L /\ k + 1 \in 1 .. L /\ frames'[k] = c
    BY <1>1, <1>5, <2>1
  <2>4. PICK e : e = frames'[k + 1]
    OBVIOUS
  <2>5. /\ e.node = d.node /\ e.into = d.into
        /\ Has(e.todo, "next") => Has(d.todo, "next")
    <3>1. e.node = d.node /\ e.into = d.into
      BY <1>6, <2>1, <2>3, <2>4
    <3>2. k + 1 = L \/ k + 1 \in 1 .. L - 1
      BY <1>1
    <3>3. QED
      BY <1>2, <1>5, <2>1, <2>4, <3>1, <3>2, SMTT(30)
  <2>6. /\ c.node \in 1 .. N /\ d.node \in 1 .. N /\ c.node < Top.node /\ d.node <= Top.node
        /\ c \in Call
    BY <1>2, <2>1, <2>3
  <2>7. nodes'[c.node] = nodes[c.node] /\ nodes'[d.node].next = nodes[d.node].next
    BY <1>3, <2>6
  <2>8. \A i \in 1 .. N : i < d.node /\ nodes[i] = NoNode => nodes'[i] = NoNode
    <3>1. PICK t \in 1 .. N : t = Top.node
      BY <1>2
    <3>2. \A i \in 1 .. N : nodes'[i] = nodes[i] \/ i = t \/ i > t
      BY <1>1, <3>1 DEF Touches
    <3>3. \A i \in 1 .. N : i < d.node => ~(i = t \/ i > t)
      <4>1. PICK n \in 1 .. N : n = d.node /\ n <= t
        BY <2>6, <3>1
      <4>2. QED
        BY <4>1
    <3>4. QED
      BY <3>2, <3>3
  <2>9. c.sigEnd \in Nat /\ d.node \in 1 .. N + 1
    BY <2>6 DEF Call
  <2>10. PICK p : p = d.node
    OBVIOUS
  <2>11. Stage(E, c, step, p)'
    BY <1>1, <1>4, <2>2, <2>6, <2>7, <2>8, <2>9, <2>10, StageStays
  <2>12. Stage(E, frames[k], step, frames[k + 1].node)'
    BY <2>3, <2>4, <2>5, <2>10, <2>11
  <2>13. step \notin {"body", "next"} =>
           /\ nodes'[e.node].next = 0 /\ ~Has(e.todo, "next")
           /\ k + 2 \in 1 .. L => frames'[k + 2].into # "next"
    BY <1>6, <2>2, <2>5, <2>7
  <2>14. Scheduled(kinds'[frames'[k].node], <<step>> \o frames'[k].todo)
    BY <1>7, <2>2, <2>3
  <2>15. e.into = Field(step)
    BY <2>2, <2>5
  <2>16. QED
    BY <1>5, <2>4, <2>12, <2>13, <2>14, <2>15 DEF Waits
<1>11. /\ frames' # <<>> /\ Last(frames') = f /\ frames'[1].node = 1
  <2>1. frames' # <<>> /\ Last(frames') = f
    BY <1>1, <1>5, EmptySeq DEF Last
  <2>2. frames[1].node = 1 /\ 1 \in 1 .. L
    BY <1>1 DEF Growing
  <2>3. QED
    BY <1>6, <2>1, <2>2
<1>12. Stage(E, Last(frames), StepOf(Last(frames).todo), nextToken)'
  BY <1>11
<1>13. E \in [1 .. N -> 0 .. N + 1]
  BY <1>1 DEF Growing
<1>14. QED
  BY <1>1, <1>5, <1>7, <1>8, <1>9, <1>10, <1>11, <1>12, <1>13 DEF Growing

LEMMA SameStage ==
  ASSUME NEW E, NEW f, NEW d, NEW step, NEW p, f.node = d.node, f.sigBegin = d.sigBegin,
         f.sigEnd = d.sigEnd, Stage(E, f, step, p)
  PROVE  Stage(E, d, step, p)
BY DEF Stage, Names

\* The node of a call that begins.
LEMMA NodeBegins ==
  ASSUME NEW E, NEW N \in Nat, N = Len(tokens), NEW p \in 1 .. N, p = nextToken,
         UNCHANGED <<source, tokens, kinds>>, Noded, Worded,
         nodes' = [nodes EXCEPT ![p] = NewNode(kinds[p])], nextToken' = p + 1,
         E \in [1 .. N -> 0 .. N + 1], \A i \in 1 .. N : Grows(E, i),
         \E k \in 1 .. Len(frames') : frames'[k].node = p,
         \A k \in 1 .. Len(frames) : \E j \in 1 .. Len(frames') : frames'[j].node = frames[k].node
  PROVE  /\ E[p] = 0 /\ nodes'[p] = NewNode(kinds[p])
         /\ \A i \in 1 .. N : i # p => nodes'[i] = nodes[i]
         /\ Steady(E, E)
         /\ \A i \in 1 .. N : Grows(E, i)'
<1>1. nodes[p] = NoNode /\ NoNode.kind = "none" /\ NoNode.next = 0
  BY DEF Grows, NoNode
<1>2. \A i \in 1 .. N : kinds[i] \notin {"none", "SIGBIND", "end"}
  BY KindPlain
<1>3. E[p] = 0
  BY <1>1, <1>2 DEF Grows, Rule
<1>4. PICK node : node = NewNode(kinds[p])
  OBVIOUS
<1>5. node.kind = kinds[p] /\ node.sub = 0 /\ node.alt = 0 /\ node.next = 0
  BY <1>4 DEF NewNode, NoNode
<1>6. nodes'[p] = node /\ \A i \in 1 .. N : i # p => nodes'[i] = nodes[i]
  BY <1>4 DEF Noded
<1>7. Steady(E, E)
  BY <1>1, <1>3, <1>6 DEF Steady
<1>8. ASSUME NEW i \in 1 .. N
      PROVE  Grows(E, i)'
  <2>1. Grows(E, i) /\ tokens' = tokens /\ kinds' = kinds
    OBVIOUS
  <2>2. E[i] # 0 => E[i] \in i + 1 .. nextToken' /\ Rule(E, i, E[i])'
    <3>1. SUFFICES ASSUME E[i] # 0
                   PROVE  E[i] \in i + 1 .. nextToken' /\ Rule(E, i, E[i])'
      OBVIOUS
    <3>2. PICK e : e = E[i]
      OBVIOUS
    <3>3. e \in i + 1 .. p /\ Rule(E, i, e) /\ i # p
      BY <1>3, <2>1, <3>1, <3>2 DEF Grows
    <3>4. e \in i + 1 .. nextToken' /\ e \in 1 .. N + 1
      BY <3>3
    <3>5. Rule(E, i, e)'
      BY <1>6, <1>7, <3>3, <3>4, RuleStays
    <3>6. QED
      BY <3>2, <3>4, <3>5
  <2>3. CASE i = p
    <3>1. nodes'[i] = node /\ ~(i >= nextToken')
      BY <1>6, <2>3
    <3>2. nodes'[i].kind # "SIGBIND" /\ {node.sub, node.alt, node.next} \subseteq 0 .. N
      BY <1>2, <1>5, <3>1
    <3>3. \E k \in 1 .. Len(frames') : frames'[k].node = i
      BY <2>3
    <3>4. QED
      BY <2>1, <2>2, <3>1, <3>2, <3>3 DEF Grows
  <2>4. CASE i # p
    <3>1. nodes'[i] = nodes[i]
      BY <1>6, <2>4
    <3>2. i > 1 /\ nodes'[i].kind = "SIGBIND" /\ nodes'[i - 1].kind = "SIGBIND" =>
            nodes'[i].next = i - 1
      <4>1. SUFFICES ASSUME i > 1, nodes'[i].kind = "SIGBIND", nodes'[i - 1].kind = "SIGBIND"
                     PROVE  nodes'[i].next = i - 1
        OBVIOUS
      <4>2. i - 1 \in 1 .. N /\ i - 1 # p
        BY <1>2, <1>5, <1>6, <4>1
      <4>3. nodes'[i - 1] = nodes[i - 1]
        BY <1>6, <4>2
      <4>4. QED
        BY <2>1, <3>1, <4>1, <4>3 DEF Grows
    <3>3. \/ nodes[i].kind \in {"none", "SIGBIND"} \/ E[i] # 0
          \/ \E k \in 1 .. Len(frames') : frames'[k].node = i
      BY <2>1 DEF Grows
    <3>4. i >= nextToken' => nodes'[i] = NoNode
      BY <2>1, <3>1 DEF Grows
    <3>5. QED
      BY <2>1, <2>2, <3>1, <3>2, <3>3, <3>4, SMTT(30) DEF Grows
  <2>5. QED
    BY <2>3, <2>4
<1>9. QED
  BY <1>3, <1>4, <1>6, <1>7, <1>8

LEMMA CallStarts ==
  ASSUME NEW i \in Nat, NEW single, NEW into \in Intos, NEW f, f = Frame(i, single, into)
  PROVE  /\ f \in Call /\ f.node = i /\ f.into = into /\ f.sigEnd <= f.sigBegin
         /\ single => ~Has(f.todo, "next")
<1>1. /\ Frame(i, single, into) \in Call /\ Frame(i, single, into).node = i
      /\ Frame(i, single, into).into = into
      /\ Frame(i, single, into).sigEnd <= Frame(i, single, into).sigBegin
      /\ single => ~Has(Frame(i, single, into).todo, "next")
  BY FrameIs, SMTT(30)
<1>2. QED
  BY <1>1, Zenon

LEMMA TreeCalls ==
  ASSUME NEW g, NEW P, NEW G, Held(g, P, G), frames # <<>>, NEW E, Growing(E),
         UNCHANGED <<source, tokens, kinds>>, Top.todo # <<>>, ~AtEnd,
         NEW step \in Called, Head(Top.todo) = step,
         NEW single, step \notin {"body", "next"} => single,
         CallBody(Skip, single, Field(step))
  PROVE  Growing(E)'
<1>1. PICK L \in Nat \ {0}, N \in Nat : L = Len(frames) /\ N = Len(tokens)
  BY GrowingIs
<1>2. /\ Top = frames[L] /\ Top \in Call /\ Top.node \in 1 .. N /\ Top.node < nextToken
      /\ nextToken \in 1 .. N + 1 /\ E[Top.node] = 0 /\ frames \in Seq(Call)
      /\ \A k \in 1 .. L : /\ frames[k] \in Call /\ frames[k].node \in 1 .. N
                           /\ frames[k].node <= Top.node
                           /\ E[frames[k].node] = 0
                           /\ Scheduled(kinds[frames[k].node], frames[k].todo)
      /\ \A k \in 1 .. L - 1 : frames[k + 1].node <= Top.node
      /\ Scheduled(kinds[Top.node], Top.todo) /\ Top.todo \in Seq(StepNames)
      /\ Stage(E, Top, StepOf(Top.todo), nextToken)
  BY <1>1, GrowingIs
<1>3. PICK p \in 1 .. N : p = nextToken
  BY <1>1, <1>2 DEF AtEnd
<1>4. PICK into \in Intos : into = Field(step)
  BY DEF Field, Called, Intos
<1>5. PICK f : f = Frame(p, single, into)
  OBVIOUS
<1>6. /\ frames' = Append(Skip, f) /\ nodes' = [nodes EXCEPT ![p] = NewNode(kinds[p])]
      /\ nextToken' = p + 1 /\ root' = root
  BY <1>3, <1>4, <1>5 DEF CallBody
<1>7. /\ f \in Call /\ f.node = p /\ f.into = into /\ f.sigEnd <= f.sigBegin
      /\ single => ~Has(f.todo, "next")
  <2>1. p \in Nat /\ into \in Intos
    BY <1>3
  <2>2. QED
    BY <1>5, <2>1, CallStarts
<1>8. /\ Scheduled(kinds[p], f.todo)
      /\ kinds[p] \in Literals => StepOf(f.todo) \in {"none", "next"}
      /\ kinds[p] \in Known /\ kinds[p] \notin Literals => StepOf(f.todo) = FirstStep(kinds[p])
      /\ kinds[p] \notin Known => StepOf(f.todo) = "unexpected"
  BY <1>3, <1>4, <1>5, FrameScheduled
<1>9. /\ Done \in Call /\ Done.node = Top.node /\ Done.into = Top.into
      /\ Done.sigBegin = Top.sigBegin /\ Done.sigEnd = Top.sigEnd
      /\ Done.todo = Tail(Top.todo) /\ StepOf(Top.todo) = step
      /\ Has(Done.todo, "next") => Has(Top.todo, "next")
  BY DoneIs
<1>10. /\ Scheduled(kinds[Top.node], Done.todo) /\ Top.todo = <<step>> \o Done.todo
       /\ step = "next" => Has(Top.todo, "next")
  <2>1. Top.todo[1] = step /\ 1 \in 1 .. Len(Top.todo)
    BY <1>2, HeadTailProperties, LenProperties, EmptySeq
  <2>2. Scheduled(kinds[Top.node], Done.todo) /\ Top.todo = <<Top.todo[1]>> \o Done.todo
    BY <1>2, <1>9, ScheduledNext
  <2>3. step = "next" => Has(Top.todo, "next")
    BY <2>1 DEF Has
  <2>4. QED
    BY <2>1, <2>2, <2>3
<1>11. /\ frames' \in Seq(Call) /\ Len(frames') = L + 1 /\ frames'[L + 1] = f
       /\ frames'[L] = Done /\ \A k \in 1 .. L - 1 : frames'[k] = frames[k]
  <2>1. PICK gs : gs = Skip
    OBVIOUS
  <2>2. gs = [frames EXCEPT ![L] = Done] /\ L \in 1 .. L
    BY <1>1, <2>1 DEF Skip, ReplaceAt
  <2>3. /\ gs \in Seq(Call) /\ Len(gs) = L
        /\ \A k \in 1 .. L : gs[k] = IF k = L THEN Done ELSE frames[k]
    BY <1>1, <1>2, <1>9, <2>2, ExceptSeq, LenProperties
  <2>4. /\ frames' \in Seq(Call) /\ Len(frames') = L + 1 /\ frames'[L + 1] = f
        /\ \A k \in 1 .. L : frames'[k] = gs[k]
    BY <1>6, <1>7, <2>1, <2>3, AppendProperties
  <2>5. QED
    BY <1>1, <2>3, <2>4
<1>12. \A k \in 1 .. L : frames'[k].node = frames[k].node /\ frames'[k].into = frames[k].into
  <2>1. \A k \in 1 .. L : k = L \/ k \in 1 .. L - 1
    BY <1>1
  <2>2. frames'[L].node = frames[L].node /\ frames'[L].into = frames[L].into /\ Top = frames[L]
    BY <1>2, <1>9, <1>11
  <2>3. QED
    BY <1>11, <2>1, <2>2
<1>13. /\ E[p] = 0 /\ nodes'[p] = NewNode(kinds[p])
       /\ \A i \in 1 .. N : i # p => nodes'[i] = nodes[i]
       /\ Steady(E, E)
       /\ \A i \in 1 .. N : Grows(E, i)'
  <2>1. E \in [1 .. N -> 0 .. N + 1] /\ \A i \in 1 .. N : Grows(E, i)
    BY <1>1 DEF Growing
  <2>2. Noded /\ Worded
    BY DEF Held
  <2>3. L + 1 \in 1 .. Len(frames') /\ frames'[L + 1].node = p
    BY <1>7, <1>11
  <2>4. \A k \in 1 .. Len(frames) : \E j \in 1 .. Len(frames') : frames'[j].node = frames[k].node
    <3>1. \A k \in 1 .. L : k \in 1 .. Len(frames')
      BY <1>11
    <3>2. QED
      BY <1>1, <1>12, <3>1
  <2>5. QED
    BY <1>1, <1>3, <1>6, <2>1, <2>2, <2>3, <2>4, NodeBegins, ZenonT(30)
<1>14. ASSUME NEW k \in 1 .. L + 1
       PROVE  E[frames'[k].node] = 0 /\ Scheduled(kinds[frames'[k].node], frames'[k].todo)
  <2>1. CASE k = L + 1
    BY <1>7, <1>8, <1>11, <1>13, <2>1
  <2>2. CASE k = L
    BY <1>2, <1>9, <1>10, <1>11, <2>2
  <2>3. CASE k \in 1 .. L - 1
    <3>1. frames'[k] = frames[k] /\ k \in 1 .. L
      BY <1>11, <2>3
    <3>2. E[frames[k].node] = 0 /\ Scheduled(kinds[frames[k].node], frames[k].todo)
      BY <1>2, <3>1
    <3>3. QED
      BY <3>1, <3>2
  <2>4. QED
    BY <2>1, <2>2, <2>3
<1>15. ASSUME NEW c \in Call, NEW s \in Called, NEW q \in 1 .. N + 1, q <= p,
              c.node \in 1 .. N, c.node < p, Stage(E, c, s, q)
       PROVE  Stage(E, c, s, q)'
  <2>1. nodes'[c.node] = nodes[c.node] /\ c.sigEnd \in Nat
    BY <1>13, <1>15 DEF Call
  <2>2. \A i \in 1 .. N : i < q /\ nodes[i] = NoNode => nodes'[i] = NoNode
    BY <1>13, <1>15
  <2>3. QED
    BY <1>1, <1>13, <1>15, <2>1, <2>2, StageStays
<1>16. ASSUME NEW k \in 1 .. L - 1
       PROVE  Waits(E, k)'
  <2>1. PICK c, d : c = frames[k] /\ d = frames[k + 1]
    OBVIOUS
  <2>2. PICK s \in Called :
          /\ Scheduled(kinds[c.node], <<s>> \o c.todo)
          /\ Stage(E, c, s, d.node)
          /\ d.into = Field(s)
          /\ s \notin {"body", "next"} =>
               /\ nodes[d.node].next = 0 /\ ~Has(d.todo, "next")
               /\ k + 2 \in 1 .. L => frames[k + 2].into # "next"
    BY <1>1, <2>1 DEF Growing, Waits
  <2>3. k \in 1 .. L /\ k + 1 \in 1 .. L /\ frames'[k] = c
    BY <1>1, <1>11, <2>1
  <2>4. PICK e : e = frames'[k + 1]
    OBVIOUS
  <2>5. e.node = d.node /\ e.into = d.into
    BY <1>12, <2>1, <2>3, <2>4
  <2>6. k + 1 = L \/ k + 1 \in 1 .. L - 1
    BY <1>1
  <2>7. Has(e.todo, "next") => Has(d.todo, "next")
    BY <1>2, <1>9, <1>11, <2>1, <2>4, <2>6
  <2>8. /\ c.node \in 1 .. N /\ c \in Call /\ c.node < p /\ d.node \in 1 .. N /\ d.node < p
    <3>1. /\ c.node \in 1 .. N /\ c.node <= Top.node /\ c \in Call
          /\ d.node \in 1 .. N /\ d.node <= Top.node
      BY <1>2, <2>1, <2>3
    <3>2. QED
      BY <1>2, <1>3, <3>1
  <2>9. nodes'[d.node] = nodes[d.node]
    BY <1>13, <2>8
  <2>10. PICK q : q = d.node
    OBVIOUS
  <2>11. q \in 1 .. N + 1 /\ q <= p
    BY <2>8, <2>10
  <2>12. Stage(E, c, s, q)'
    BY <1>15, <2>2, <2>8, <2>10, <2>11
  <2>13. Stage(E, frames[k], s, frames[k + 1].node)'
    BY <2>3, <2>4, <2>5, <2>10, <2>12
  <2>14. s \notin {"body", "next"} =>
           /\ nodes'[e.node].next = 0 /\ ~Has(e.todo, "next")
           /\ k + 2 \in 1 .. L + 1 => frames'[k + 2].into # "next"
    <3>1. SUFFICES ASSUME s \notin {"body", "next"}
                   PROVE  /\ nodes'[e.node].next = 0 /\ ~Has(e.todo, "next")
                          /\ k + 2 \in 1 .. L + 1 => frames'[k + 2].into # "next"
      OBVIOUS
    <3>2. /\ nodes[d.node].next = 0 /\ ~Has(d.todo, "next")
          /\ k + 2 \in 1 .. L => frames[k + 2].into # "next"
      BY <2>2, <3>1
    <3>3. CASE k + 1 = L
      <4>1. ~Has(Top.todo, "next") /\ k + 2 = L + 1
        BY <1>2, <2>1, <3>2, <3>3
      <4>2. into # "next"
        BY <1>4, <1>10, <4>1 DEF Field, Called
      <4>3. QED
        BY <1>7, <1>11, <2>5, <2>7, <2>9, <3>2, <4>1, <4>2
    <3>4. CASE k + 1 \in 1 .. L - 1
      <4>1. k + 2 \in 1 .. L
        BY <1>1, <3>4
      <4>2. QED
        BY <1>12, <2>5, <2>7, <2>9, <3>2, <4>1
    <3>5. QED
      BY <2>6, <3>3, <3>4
  <2>15. Scheduled(kinds'[frames'[k].node], <<s>> \o frames'[k].todo)
    BY <2>2, <2>3
  <2>16. e.into = Field(s)
    BY <2>2, <2>5
  <2>17. QED
    BY <1>11, <2>4, <2>13, <2>14, <2>15, <2>16 DEF Waits
<1>17. Waits(E, L)'
  <2>1. Stage(E, Done, step, p)
    BY <1>2, <1>3, <1>9, SameStage
  <2>2. p \in 1 .. N + 1 /\ p <= p /\ Done.node \in 1 .. N /\ Done.node < p
    BY <1>2, <1>3, <1>9
  <2>3. PICK c \in Call : c = Done
    BY <1>9
  <2>4. Stage(E, c, step, p)'
    BY <1>15, <2>1, <2>2, <2>3
  <2>5. Stage(E, frames[L], step, frames[L + 1].node)'
    BY <1>7, <1>11, <2>3, <2>4
  <2>6. step \notin {"body", "next"} => nodes'[p].next = 0 /\ ~Has(f.todo, "next")
    <3>1. NewNode(kinds[p]).next = 0
      BY DEF NewNode, NoNode
    <3>2. QED
      BY <1>7, <1>13, <3>1
  <2>7. L + 2 \notin 1 .. L + 1
    BY <1>1
  <2>8. Scheduled(kinds'[frames'[L].node], <<step>> \o frames'[L].todo)
    BY <1>2, <1>9, <1>10, <1>11
  <2>9. f.into = Field(step)
    BY <1>4, <1>7
  <2>10. QED
    BY <1>7, <1>11, <2>5, <2>6, <2>7, <2>8, <2>9 DEF Waits
<1>18. \A k \in 1 .. (L + 1) - 1 : Waits(E, k)'
  <2>1. \A k \in 1 .. (L + 1) - 1 : k = L \/ k \in 1 .. L - 1
    BY <1>1
  <2>2. QED
    BY <1>16, <1>17, <2>1
<1>19. Stage(E, f, StepOf(f.todo), p + 1)'
  <2>1. PICK s : s = StepOf(f.todo)
    OBVIOUS
  <2>2. PICK k : k = kinds[p]
    OBVIOUS
  <2>3. /\ k \in Literals => s \in {"none", "next"}
        /\ k \in Known /\ k \notin Literals => s = FirstStep(k)
        /\ k \notin Known => s = "unexpected"
    BY <1>8, <2>1, <2>2
  <2>4. Stage(E, f, s, p + 1)'
    BY <1>1, <1>7, <1>13, <2>2, <2>3, StageStarts
  <2>5. QED
    BY <2>1, <2>4
<1>20. /\ frames' # <<>> /\ Last(frames') = f /\ frames'[1].node = 1
  <2>1. frames' # <<>> /\ Last(frames') = f
    BY <1>1, <1>11, EmptySeq DEF Last
  <2>2. frames[1].node = 1 /\ 1 \in 1 .. L
    BY <1>1 DEF Growing
  <2>3. QED
    BY <1>12, <2>1, <2>2
<1>21. Stage(E, Last(frames), StepOf(Last(frames).todo), nextToken)'
  BY <1>6, <1>19, <1>20
<1>22. E \in [1 .. N -> 0 .. N + 1] /\ nextToken' \in 1 .. N + 1
  BY <1>1, <1>6 DEF Growing
<1>23. tokens' = tokens
  OBVIOUS
<1>24. kinds' = kinds
  OBVIOUS
<1>25. QED
  BY <1>1, <1>11, <1>13, <1>14, <1>18, <1>20, <1>21, <1>22, <1>23, <1>24 DEF Growing

LEMMA TreeBegins ==
  ASSUME NEW E, Growing(E), Noded, Worded, Len(tokens) \in Nat, frames = <<>>, nextToken = 1,
         UNCHANGED <<source, tokens, kinds>>, ~AtEnd, CallBody(<<>>, FALSE, "root")
  PROVE  Growing(E)'
<1>1. PICK N \in Nat : N = Len(tokens)
  OBVIOUS
<1>2. PICK p \in 1 .. N : p = nextToken /\ p = 1
  BY <1>1 DEF AtEnd
<1>3. PICK into, single : into \in Intos /\ into = "root" /\ single = FALSE
  BY DEF Intos
<1>4. PICK f : f = Frame(p, single, into)
  OBVIOUS
<1>5. /\ frames' = Append(<<>>, f) /\ nodes' = [nodes EXCEPT ![p] = NewNode(kinds[p])]
      /\ nextToken' = p + 1 /\ root' = root
  <2>1. /\ frames' = Append(<<>>, Frame(nextToken, FALSE, "root"))
        /\ nodes' = [nodes EXCEPT ![nextToken] = NewNode(kinds[nextToken])]
        /\ nextToken' = nextToken + 1 /\ root' = root
    BY Zenon DEF CallBody
  <2>2. Frame(nextToken, FALSE, "root") = f
    BY <1>2, <1>3, <1>4, Zenon
  <2>3. /\ nodes' = [nodes EXCEPT ![p] = NewNode(kinds[p])]
        /\ nextToken' = p + 1 /\ root' = root
    BY <1>2, <2>1, Zenon
  <2>4. QED
    BY <2>1, <2>2, <2>3
<1>6. f \in Call /\ f.node = p /\ f.into = into /\ f.sigEnd <= f.sigBegin
  <2>1. p \in Nat /\ into \in Intos
    BY <1>2, <1>3
  <2>2. QED
    BY <1>4, <2>1, CallStarts
<1>7. /\ Scheduled(kinds[p], f.todo)
      /\ kinds[p] \in Literals => StepOf(f.todo) \in {"none", "next"}
      /\ kinds[p] \in Known /\ kinds[p] \notin Literals => StepOf(f.todo) = FirstStep(kinds[p])
      /\ kinds[p] \notin Known => StepOf(f.todo) = "unexpected"
  BY <1>2, <1>3, <1>4, FrameScheduled
<1>8. frames' = <<f>> /\ Len(frames') = 1 /\ frames'[1] = f /\ frames' # <<>> /\ Last(frames') = f
  BY <1>5 DEF Last
<1>9. E \in [1 .. N -> 0 .. N + 1] /\ \A i \in 1 .. N : Grows(E, i)
  BY <1>1 DEF Growing
<1>10. /\ E[p] = 0 /\ nodes'[p] = NewNode(kinds[p])
       /\ \A i \in 1 .. N : Grows(E, i)'
  <2>1. \E k \in 1 .. Len(frames') : frames'[k].node = p
    BY <1>6, <1>8
  <2>2. \A k \in 1 .. Len(frames) : \E j \in 1 .. Len(frames') : frames'[j].node = frames[k].node
    OBVIOUS
  <2>3. p = nextToken /\ p \in 1 .. N /\ N = Len(tokens)
    BY <1>1, <1>2
  <2>4. UNCHANGED <<source, tokens, kinds>>
    OBVIOUS
  <2>5. nodes' = [nodes EXCEPT ![p] = NewNode(kinds[p])] /\ nextToken' = p + 1
    BY <1>5
  <2>6. QED
    BY ONLY N \in Nat, Noded, Worded, <1>9, <2>1, <2>2, <2>3, <2>4, <2>5, NodeBegins
<1>11. Stage(E, f, StepOf(f.todo), p + 1)'
  <2>1. PICK s, k : s = StepOf(f.todo) /\ k = kinds[p]
    OBVIOUS
  <2>2. /\ k \in Literals => s \in {"none", "next"}
        /\ k \in Known /\ k \notin Literals => s = FirstStep(k)
        /\ k \notin Known => s = "unexpected"
    BY <1>7, <2>1
  <2>3. Stage(E, f, s, p + 1)'
    BY <1>1, <1>6, <1>10, <2>1, <2>2, StageStarts
  <2>4. QED
    BY <2>1, <2>3
<1>12. Stage(E, Last(frames), StepOf(Last(frames).todo), nextToken)'
  BY <1>5, <1>8, <1>11
<1>13. tokens' = tokens /\ kinds' = kinds /\ nextToken' \in 1 .. N + 1
  BY <1>5
<1>14. \A k \in 1 .. Len(frames') : k = 1
  BY <1>8
<1>15. QED
  BY <1>1, <1>2, <1>6, <1>7, <1>8, <1>9, <1>10, <1>12, <1>13, <1>14 DEF Growing

LEMMA StepNext ==
  ASSUME NEW kind, NEW todo \in Seq(StepNames), todo # <<>>, Scheduled(kind, todo),
         NEW step, step = Head(todo), NEW rest, rest = Tail(todo)
  PROVE  /\ step = "next" => StepOf(rest) = "none"
         /\ step \notin {"next", "unexpected"} =>
              /\ kind \in Takers(step)
              /\ StepAfter(kind, step) = "end" => StepOf(rest) \in {"none", "next"}
              /\ StepAfter(kind, step) # "end" => StepOf(rest) = StepAfter(kind, step)
         /\ rest \in Seq(StepNames) /\ Scheduled(kind, rest)
         /\ step = todo[1] /\ 1 \in 1 .. Len(todo)
<1>1. PICK S : S = StepNames
  OBVIOUS
<1>2. todo \in Seq(S)
  BY <1>1
<1>3. step = todo[1] /\ 1 \in 1 .. Len(todo)
  BY <1>2, HeadTailProperties, LenProperties, EmptySeq
<1>4. PICK a, r : a = todo[1] /\ r = Tail(todo)
  OBVIOUS
<1>5. /\ Scheduled(kind, r) /\ r \in Seq(S)
      /\ a = "next" => r = <<>>
      /\ a \notin {"next", "unexpected"} =>
           /\ kind \in Takers(a)
           /\ r = <<>> => StepAfter(kind, a) = "end"
           /\ r # <<>> => r[1] = Next1(kind, a)
  BY <1>2, <1>4, ScheduledNext, ZenonT(30)
<1>6. a = step /\ r = rest
  BY <1>3, <1>4
<1>7. QED
  BY <1>1, <1>3, <1>5, <1>6 DEF StepOf, Next1

LEMMA StepThen ==
  ASSUME NEW kind, NEW rest \in Seq(StepNames), NEW step \in StepNames,
         Scheduled(kind, <<step>> \o rest)
  PROVE  /\ step = "next" => StepOf(rest) = "none"
         /\ step \notin {"next", "unexpected"} =>
              /\ kind \in Takers(step)
              /\ StepAfter(kind, step) = "end" => StepOf(rest) \in {"none", "next"}
              /\ StepAfter(kind, step) # "end" => StepOf(rest) = StepAfter(kind, step)
<1>1. PICK s : s = <<step>>
  OBVIOUS
<1>2. s \in Seq(StepNames) /\ Len(s) = 1 /\ s[1] = step
  BY <1>1
<1>3. PICK t : t = s \o rest
  OBVIOUS
<1>4. /\ t \in Seq(StepNames) /\ Len(t) = Len(s) + Len(rest)
      /\ \A i \in 1 .. Len(s) : t[i] = s[i]
      /\ \A i \in 1 .. Len(rest) : t[Len(s) + i] = rest[i]
  <2>1. rest \in Seq(StepNames) /\ s \in Seq(StepNames)
    BY <1>2
  <2>2. QED
    BY ONLY <1>3, <2>1, JoinIs
<1>5. PICK n \in Nat : n = Len(rest)
  BY LenProperties
<1>6. /\ Len(t) = n + 1 /\ t[1] = step /\ t # <<>>
      /\ \A i \in 1 .. n : t[i + 1] = rest[i]
  <2>1. Len(t) = n + 1 /\ t[1] = step
    BY <1>2, <1>4, <1>5
  <2>2. \A i \in 1 .. n : 1 + i = i + 1
    OBVIOUS
  <2>3. \A i \in 1 .. n : t[i + 1] = rest[i]
    BY <1>2, <1>4, <1>5, <2>2
  <2>4. t # <<>>
    BY <1>4, <1>5, <2>1, EmptySeq
  <2>5. QED
    BY <2>1, <2>3, <2>4
<1>7. Head(t) = step /\ Tail(t) \in Seq(StepNames) /\ Len(Tail(t)) = n
      /\ \A i \in 1 .. n : Tail(t)[i] = rest[i]
  BY <1>4, <1>5, <1>6, HeadTailProperties
<1>8. Tail(t) = rest
  BY <1>5, <1>7, SeqEqual
<1>9. Scheduled(kind, t)
  BY <1>1, <1>3
<1>10. t \in Seq(StepNames) /\ t # <<>> /\ step = Head(t) /\ rest = Tail(t)
  BY <1>4, <1>6, <1>7, <1>8
<1>11. QED
  BY ONLY <1>9, <1>10, StepNext

\* The call at y returns p to its caller c, at x, which waited in a step.
Returns(E, F, c, step, x, y, p) ==
  /\ Steady(E, F) /\ Len(tokens) \in Nat
  /\ c.node = x /\ x \in 1 .. Len(tokens) /\ y \in 1 .. Len(tokens) /\ x < y
  /\ p \in 1 .. Len(tokens) + 1 /\ F[y] = p
  /\ step \in Called /\ Stage(E, c, step, y)
  /\ c.todo \in Seq(StepNames) /\ Scheduled(kinds[x], <<step>> \o c.todo)
  /\ step \notin {"body", "next"} => nodes[y].next = 0
  /\ nodes'[x].kind = nodes[x].kind /\ nodes'[x].chain = nodes[x].chain
  /\ nodes'[x].sub = IF Field(step) = "sub" THEN y ELSE nodes[x].sub
  /\ nodes'[x].alt = IF Field(step) = "alt" THEN y ELSE nodes[x].alt
  /\ nodes'[x].next = IF Field(step) = "next" THEN y ELSE nodes[x].next
  /\ \A i \in 1 .. Len(tokens) : i # x => nodes'[i] = nodes[i]

LEMMA ReturnsIs ==
  ASSUME NEW E, NEW F, NEW c, NEW step, NEW x, NEW y, NEW p, Returns(E, F, c, step, x, y, p)
  PROVE  /\ tokens' = tokens /\ kinds' = kinds /\ source' = source
         /\ Len(tokens) \in Nat /\ x \in 1 .. Len(tokens) /\ y \in 1 .. Len(tokens) /\ x < y
         /\ c.node = x /\ p \in 1 .. Len(tokens) + 1 /\ F[y] = p
         /\ \A i : TokenAt(i)' = TokenAt(i)
         /\ Chained(x)' <=> Chained(x)
         /\ Linked(F, y, y, p)'
         /\ step \notin {"body", "next"} => Alone(F, y, p)'
         /\ nodes[x].kind = kinds[x] /\ nodes'[x].kind = kinds[x]
         /\ kinds[x] \in DOMAIN ChainMargins => Chained(x)'
         /\ step # "next" => nodes'[x].next = 0 /\ nodes[x].next = 0
         /\ step \in Called
         /\ \A q, r : Alone(E, q, r) /\ r # 0 => Alone(F, q, r)'
<1>1. tokens' = tokens /\ kinds' = kinds /\ source' = source
  BY DEF Returns, Steady
<1>2. /\ Len(tokens) \in Nat /\ x \in 1 .. Len(tokens) /\ y \in 1 .. Len(tokens) /\ x < y
      /\ c.node = x /\ p \in 1 .. Len(tokens) + 1 /\ F[y] = p
      /\ step \in Called
      /\ nodes[x].kind = kinds[x] /\ nodes'[x].kind = kinds[x]
  BY DEF Returns, Stage
<1>3. /\ \A i : TokenAt(i)' = TokenAt(i)
      /\ \A i : Lexeme(i)' = Lexeme(i)
  BY TokenStays DEF Returns
<1>4. Chained(x)' <=> Chained(x)
  BY <1>1, <1>3 DEF Chained, Returns
<1>5. Grown(F, y, p)'
  BY <1>1, <1>2 DEF Grown
<1>6. Linked(F, y, y, p)' /\ (step \notin {"body", "next"} => Alone(F, y, p)')
  <2>1. nodes'[y] = nodes[y] /\ y # 0
    BY <1>2 DEF Returns
  <2>2. QED
    BY <1>5, <2>1 DEF Linked, Alone, Returns
<1>7. step # "chain" /\ step # "none"
  BY <1>2 DEF Called
<1>8. /\ kinds[x] \in DOMAIN ChainMargins => Chained(x)'
      /\ step # "next" => nodes'[x].next = 0 /\ nodes[x].next = 0
  <2>1. step # "next" => Field(step) # "next"
    BY <1>2 DEF Field, Called
  <2>2. kinds[x] \in DOMAIN ChainMargins => Chained(x)
    BY <1>2, <1>7 DEF Stage, Returns
  <2>3. nodes[x].next = 0
    BY <1>2, <1>7 DEF Stage, Returns
  <2>4. QED
    BY <1>4, <2>1, <2>2, <2>3 DEF Returns
<1>9. \A q, r : Alone(E, q, r) /\ r # 0 => Alone(F, q, r)'
  BY LinkStays DEF Returns
<1>10. QED
  BY <1>1, <1>2, <1>3, <1>4, <1>6, <1>8, <1>9

LEMMA StepThenIs ==
  ASSUME NEW E, NEW F, NEW c, NEW step, NEW x, NEW y, NEW p, Returns(E, F, c, step, x, y, p)
  PROVE  LET kind == kinds[x]
             then == StepOf(c.todo)
         IN  /\ step = "next" => then = "none"
             /\ step # "next" =>
                  /\ kind \in Takers(step)
                  /\ StepAfter(kind, step) = "end" => then \in {"none", "next"}
                  /\ StepAfter(kind, step) # "end" => then = StepAfter(kind, step)
<1>1. step \in StepNames /\ step # "unexpected"
  BY DEF Returns, Called, StepNames
<1>2. PICK k, rest : k = kinds[x] /\ rest = c.todo
  OBVIOUS
<1>3. rest \in Seq(StepNames) /\ Scheduled(k, <<step>> \o rest)
  BY <1>2 DEF Returns
<1>4. QED
  BY <1>1, <1>2, <1>3, StepThen

LEMMA AfterSub ==
  ASSUME NEW E, NEW F, NEW c, NEW step, NEW x, NEW y, NEW p, Returns(E, F, c, step, x, y, p),
         step = "sub"
  PROVE  Stage(F, c, StepOf(c.todo), p)'
<1>1. y = x + 1 /\ nodes[x].alt = 0
  BY DEF Returns, Stage
<1>2. nodes'[x].sub = x + 1 /\ nodes'[x].alt = 0
  BY <1>1 DEF Returns, Field
<1>3. kinds[x] \in Applied \cup {"then", "until"}
  BY StepThenIs, TakersAre
<1>4. CASE kinds[x] \in Applied
  <2>1. StepOf(c.todo) \in {"none", "next"}
    BY <1>4, StepThenIs, StepsAfter
  <2>2. Whole(F, x, p)'
    BY <1>1, <1>2, <1>4, ReturnsIs DEF Whole
  <2>3. PICK s \in {"next", "none"} : s = StepOf(c.todo)
    BY <2>1
  <2>4. Stage(F, c, s, p)'
    BY <2>2, ReturnsIs, Ending
  <2>5. QED
    BY <2>3, <2>4
<1>5. CASE kinds[x] \in {"then", "until"}
  <2>1. PICK s : s = StepOf(c.todo) /\ s = WordOf(kinds[x]) /\ s \in {"else", "do"}
    BY <1>5, StepThenIs, StepsAfter DEF WordOf
  <2>2. CloseBrace # s
    BY <2>1, StepsApart
  <2>3. Stage(F, c, s, p)'
    BY <1>1, <1>2, <2>1, <2>2, ReturnsIs DEF Stage
  <2>4. QED
    BY <2>1, <2>3
<1>6. QED
  BY <1>3, <1>4, <1>5

LEMMA AfterAlt ==
  ASSUME NEW E, NEW F, NEW c, NEW step, NEW x, NEW y, NEW p, Returns(E, F, c, step, x, y, p),
         step = "alt"
  PROVE  Stage(F, c, StepOf(c.todo), p)'
<1>1. nodes'[x].sub = nodes[x].sub /\ nodes'[x].alt = y
  BY DEF Returns, Field
<1>2. kinds[x] \in {"then", "until", "else", "do"}
  BY StepThenIs, TakersAre
<1>3. StepOf(c.todo) \in {"none", "next"}
  BY StepThenIs, StepsAfter
<1>4. CASE kinds[x] \in {"else", "do"}
  <2>1. y = x + 1
    BY <1>4 DEF Returns, Stage
  <2>2. QED
    <3>1. Whole(F, x, p)'
      BY <1>1, <1>4, <2>1, ReturnsIs DEF Whole
    <3>2. PICK s \in {"next", "none"} : s = StepOf(c.todo)
      BY <1>3
    <3>3. Stage(F, c, s, p)'
      BY <3>1, ReturnsIs, Ending
    <3>4. QED
      BY <3>2, <3>3
<1>5. CASE kinds[x] \in {"then", "until"}
  <2>1. nodes[x].sub = x + 1 /\ TokenAt(y - 1) = WordOf(kinds[x]) /\ Alone(E, x + 1, y - 1)
    BY <1>5 DEF Returns, Stage
  <2>2. y - 1 \in 1 .. Len(tokens) + 1 /\ y - 1 # 0
    BY ReturnsIs
  <2>3. Alone(F, x + 1, y - 1)'
    BY <2>1, <2>2, ReturnsIs
  <2>4. PICK q \in 1 .. Len(tokens) + 1 : q = y - 1 /\ y = q + 1
    BY <2>2, ReturnsIs
  <2>5. Optioned(F, x, p)'
    BY <1>1, <2>1, <2>3, <2>4, ReturnsIs DEF Optioned
  <2>6. Whole(F, x, p)'
    BY <1>5, <2>5, ReturnsIs DEF Whole
  <2>7. PICK s \in {"next", "none"} : s = StepOf(c.todo)
    BY <1>3
  <2>8. Stage(F, c, s, p)'
    BY <2>6, ReturnsIs, Ending
  <2>9. QED
    BY <2>7, <2>8
<1>6. QED
  BY <1>2, <1>4, <1>5

LEMMA AfterBody ==
  ASSUME NEW E, NEW F, NEW c, NEW step, NEW x, NEW y, NEW p, Returns(E, F, c, step, x, y, p),
         step = "body"
  PROVE  Stage(F, c, StepOf(c.todo), p)'
<1>1. nodes[x].alt = 0
  BY DEF Returns, Stage
<1>2. nodes'[x].sub = y /\ nodes'[x].alt = 0
  BY <1>1 DEF Returns, Field
<1>3. kinds[x] \in Braces \cup {"(", "CHAIN("}
  BY StepThenIs, TakersAre
<1>4. CASE kinds[x] \in Braces
  <2>1. PICK s : s = StepOf(c.todo) /\ s = "binds"
    BY <1>4, StepThenIs, StepsAfter
  <2>2. Names(c, y)
    BY <1>4 DEF Returns, Stage
  <2>3. Names(c, y)'
    <3>1. CASE c.sigEnd <= c.sigBegin
      BY <2>2, <3>1, ReturnsIs DEF Names
    <3>2. CASE ~(c.sigEnd <= c.sigBegin)
      <4>1. /\ c.sigBegin = x + 1 /\ y = c.sigEnd + 1 /\ TokenAt(c.sigEnd) = "=>"
            /\ \A i \in x + 1 .. c.sigEnd - 1 : TokenAt(i) = "CHAIN" /\ nodes[i] = NoNode
        BY <2>2, <3>2, ReturnsIs DEF Names
      <4>2. \A i \in x + 1 .. c.sigEnd - 1 : i \in 1 .. Len(tokens) /\ i # x
        <5>1. "=>" # "end"
          OBVIOUS
        <5>2. c.sigEnd \in 1 .. Len(tokens)
          BY <4>1, <5>1, TokenIs
        <5>3. QED
          BY <5>2, ReturnsIs
      <4>3. \A i \in x + 1 .. c.sigEnd - 1 : TokenAt(i)' = "CHAIN" /\ nodes'[i] = NoNode
        BY <4>1, <4>2, ReturnsIs, SMTT(30) DEF Returns
      <4>4. QED
        BY <3>2, <4>1, <4>3, ReturnsIs DEF Names, NoNode
    <3>3. QED
      BY <3>1, <3>2
  <2>4. CloseBrace # s /\ y \in 1 .. Len(tokens) + 1
    BY <2>1, StepsApart, ReturnsIs
  <2>5. \E q \in 1 .. Len(tokens) + 1 : Names(c, q)' /\ Linked(F, nodes[x].sub, q, p)'
    <3>1. Linked(F, nodes[x].sub, y, p)'
      BY <1>2, ReturnsIs
    <3>2. QED
      BY <2>3, <2>4, <3>1
  <2>6. Stage(F, c, s, p)'
    BY <1>2, <2>1, <2>4, <2>5, ReturnsIs DEF Stage
  <2>7. QED
    BY <2>1, <2>6
<1>5. CASE kinds[x] \in {"(", "CHAIN("}
  <2>1. PICK s : s = StepOf(c.todo) /\ s = ")"
    BY <1>5, StepThenIs, StepsAfter
  <2>2. y = x + 1
    <3>1. kinds[x] \notin Braces
      BY <1>5, WordsApart
    <3>2. QED
      BY <3>1 DEF Returns, Stage
  <2>3. CloseBrace # s
    BY <2>1, StepsApart
  <2>4. Linked(F, nodes[x].sub, x + 1, p)'
    BY <1>2, <2>2, ReturnsIs
  <2>5. Stage(F, c, s, p)'
    BY <1>2, <2>1, <2>3, <2>4, ReturnsIs DEF Stage
  <2>6. QED
    BY <2>1, <2>5
<1>6. QED
  BY <1>3, <1>4, <1>5

LEMMA AfterPath ==
  ASSUME NEW E, NEW F, NEW c, NEW step, NEW x, NEW y, NEW p, Returns(E, F, c, step, x, y, p),
         step \in {"path", "name"}
  PROVE  Stage(F, c, StepOf(c.todo), p)'
<1>1. nodes[x].alt = 0
  BY DEF Returns, Stage
<1>2. nodes'[x].sub = y /\ nodes'[x].alt = 0
  BY <1>1 DEF Returns, Field
<1>3. kinds[x] = "import"
  BY StepThenIs, TakersAre
<1>4. CASE step = "path"
  <2>1. PICK s : s = StepOf(c.todo) /\ s = "checkPath"
    BY <1>4, StepThenIs, StepsAfter
  <2>2. y = x + 1
    BY <1>4 DEF Returns, Stage
  <2>3. CloseBrace # s
    BY <2>1, StepsApart
  <2>4. Stage(F, c, s, p)'
    BY <1>2, <2>1, <2>2, <2>3, ReturnsIs DEF Stage
  <2>5. QED
    BY <2>1, <2>4
<1>5. CASE step = "name"
  <2>1. PICK s : s = StepOf(c.todo) /\ s = "checkName"
    BY <1>5, StepThenIs, StepsAfter
  <2>2. y = x + 3 /\ TokenAt(x + 1) = "CHAIN" /\ TokenAt(x + 2) = "as"
    BY <1>5 DEF Returns, Stage
  <2>3. CloseBrace # s
    BY <2>1, StepsApart
  <2>4. Alone(F, x + 3, p)' /\ nodes'[x].sub = x + 3
    BY <1>2, <1>5, <2>2, ReturnsIs
  <2>5. Stage(F, c, s, p)'
    BY <1>2, <2>1, <2>2, <2>3, <2>4, ReturnsIs DEF Stage
  <2>6. QED
    BY <2>1, <2>5
<1>6. QED
  BY <1>4, <1>5

LEMMA AfterNext ==
  ASSUME NEW E, NEW F, NEW c, NEW step, NEW x, NEW y, NEW p, Returns(E, F, c, step, x, y, p),
         step = "next"
  PROVE  Stage(F, c, StepOf(c.todo), p)'
<1>1. PICK s : s = StepOf(c.todo) /\ s = "none"
  BY StepThenIs
<1>2. /\ nodes'[x].sub = nodes[x].sub /\ nodes'[x].alt = nodes[x].alt
      /\ nodes'[x].next = y
  BY DEF Returns, Field
<1>3. Whole(E, x, y)
  BY DEF Returns, Stage
<1>4. Whole(F, x, y)'
  BY <1>2, <1>3, ReturnsIs, WholeStays DEF Returns
<1>5. Rule(F, x, p)'
  BY <1>2, <1>4, ReturnsIs DEF Rule
<1>6. CloseBrace # s
  BY <1>1, StepsApart
<1>7. Stage(F, c, s, p)'
  BY <1>1, <1>5, <1>6, ReturnsIs DEF Stage
<1>8. QED
  BY <1>1, <1>7

\* The caller goes on.
LEMMA StageAfter ==
  ASSUME NEW E, NEW F, NEW c, NEW step, NEW x, NEW y, NEW p, Returns(E, F, c, step, x, y, p)
  PROVE  Stage(F, c, StepOf(c.todo), p)'
<1>1. step \in {"sub", "alt", "body", "next", "path", "name"}
  BY DEF Returns, Called
<1>2. QED
  BY <1>1, AfterSub, AfterAlt, AfterBody, AfterPath, AfterNext

\* The calls are in the order of their first tokens.
LEMMA CallsAscend ==
  ASSUME NEW g, NEW P, NEW G, Held(g, P, G), frames # <<>>, NEW m \in 1 .. Len(frames)
  PROVE  /\ \A k \in 1 .. m : frames[k].node <= frames[m].node
         /\ \A k \in 1 .. m - 1 : frames[k].node < frames[m].node
<1>1. PICK L \in Nat \ {0} : L = Len(frames) /\ \A k \in 1 .. L : frames[k].node \in Nat
  BY HeldIs DEF Call
<1>2. \A k \in 1 .. L - 1 : frames[k].node < frames[k + 1].node
  BY <1>1 DEF Held, Framing, CallerOf
<1>3. m \in 1 .. L
  BY <1>1
<1> DEFINE T == {d \in Nat : d < m => frames[m - d].node <= frames[m].node}
<1>4. 0 \in T
  BY <1>1, <1>3
<1>5. ASSUME NEW d \in Nat, d \in T
      PROVE  d + 1 \in T
  <2> SUFFICES ASSUME d + 1 < m
               PROVE  frames[m - (d + 1)].node <= frames[m].node
    OBVIOUS
  <2>1. PICK k \in 1 .. L - 1 : k = m - (d + 1) /\ k + 1 = m - d /\ k \in 1 .. L /\ k + 1 \in 1 .. L
    BY <1>1, <1>3
  <2>2. frames[k + 1].node <= frames[m].node
    BY <1>5, <2>1
  <2>3. /\ frames[k].node < frames[k + 1].node
        /\ frames[k].node \in Nat /\ frames[k + 1].node \in Nat /\ frames[m].node \in Nat
    BY <1>1, <1>2, <1>3, <2>1
  <2>4. frames[k].node <= frames[m].node
    BY <2>2, <2>3
  <2>5. QED
    BY <2>1, <2>4
<1>6. Nat \subseteq T
  <2> HIDE DEF T
  <2> QED BY <1>4, <1>5, SetInduction
<1>7. \A k \in 1 .. m : frames[k].node <= frames[m].node
  <2>1. \A k \in 1 .. m : m - k \in Nat /\ m - k < m /\ m - (m - k) = k
    BY <1>3
  <2>2. QED
    BY <1>6, <2>1
<1>8. ASSUME NEW k \in 1 .. m - 1
      PROVE  frames[k].node < frames[m].node
  <2>1. k \in 1 .. L - 1 /\ k + 1 \in 1 .. m /\ k \in 1 .. L /\ k + 1 \in 1 .. L
    BY <1>1, <1>3
  <2>2. frames[k].node < frames[k + 1].node /\ frames[k + 1].node <= frames[m].node
    BY <1>2, <1>7, <2>1
  <2>3. frames[k].node \in Nat /\ frames[k + 1].node \in Nat /\ frames[m].node \in Nat
    BY <1>1, <1>3, <2>1
  <2>4. QED
    BY <2>2, <2>3
<1>9. QED
  BY <1>7, <1>8

\* The units and the nodes when the call at y returns, its caller at x or none.
Closes(E, F, x, y, p) ==
  LET N == Len(tokens)
  IN  /\ N \in Nat /\ E \in [1 .. N -> 0 .. N + 1] /\ \A i \in 1 .. N : Grows(E, i)
      /\ y \in 1 .. N /\ p \in 1 .. N + 1 /\ p = nextToken /\ y < p
      /\ E[y] = 0 /\ Rule(E, y, p) /\ F = [E EXCEPT ![y] = p]
      /\ UNCHANGED <<source, tokens, kinds, nextToken>>
      /\ x \in 0 .. N /\ x < y
      /\ x # 0 => /\ E[x] = 0 /\ nodes[x].kind \notin {"none", "SIGBIND"}
                  /\ nodes'[x].kind = nodes[x].kind
                  /\ {nodes'[x].sub, nodes'[x].alt, nodes'[x].next} \subseteq 0 .. N
      /\ \A i \in 1 .. N : i # x => nodes'[i] = nodes[i]
      /\ \A k \in 1 .. Len(frames) :
           frames[k].node = y \/ \E j \in 1 .. Len(frames') : frames'[j].node = frames[k].node

LEMMA UnitGrows ==
  ASSUME NEW E, NEW F, NEW x, NEW y, NEW p, Closes(E, F, x, y, p), NEW N, N = Len(tokens)
  PROVE  /\ F \in [1 .. N -> 0 .. N + 1] /\ F[y] = p
         /\ \A i \in 1 .. N : i # y => F[i] = E[i]
         /\ Steady(E, F)
         /\ \A i \in 1 .. N : Grows(F, i)'
<1>0. /\ N \in Nat /\ E \in [1 .. N -> 0 .. N + 1] /\ \A i \in 1 .. N : Grows(E, i)
      /\ y \in 1 .. N /\ p \in 1 .. N + 1 /\ p = nextToken /\ y < p
      /\ E[y] = 0 /\ Rule(E, y, p) /\ F = [E EXCEPT ![y] = p]
      /\ UNCHANGED <<source, tokens, kinds, nextToken>>
      /\ x \in 0 .. N /\ x < y
      /\ x # 0 => /\ E[x] = 0 /\ nodes[x].kind \notin {"none", "SIGBIND"}
                  /\ nodes'[x].kind = nodes[x].kind
                  /\ {nodes'[x].sub, nodes'[x].alt, nodes'[x].next} \subseteq 0 .. N
      /\ \A i \in 1 .. N : i # x => nodes'[i] = nodes[i]
      /\ \A k \in 1 .. Len(frames) :
           frames[k].node = y \/ \E j \in 1 .. Len(frames') : frames'[j].node = frames[k].node
  BY DEF Closes
<1>1. F \in [1 .. N -> 0 .. N + 1] /\ F[y] = p /\ \A i \in 1 .. N : i # y => F[i] = E[i]
  BY <1>0
<1>2. Steady(E, F)
  BY <1>0, <1>1 DEF Steady
<1>3. tokens' = tokens /\ kinds' = kinds /\ nextToken' = p
  BY <1>0
<1>4. ASSUME NEW i \in 1 .. N
      PROVE  Grows(F, i)'
  <2>1. Grows(E, i)
    BY <1>0
  <2>2. F[i] # 0 => F[i] \in i + 1 .. p /\ Rule(F, i, F[i])'
    <3>1. SUFFICES ASSUME F[i] # 0
                   PROVE  F[i] \in i + 1 .. p /\ Rule(F, i, F[i])'
      OBVIOUS
    <3>2. PICK e : e = F[i]
      OBVIOUS
    <3>3. e \in i + 1 .. p /\ Rule(E, i, e) /\ i # x
      <4>1. CASE i = y
        BY <1>0, <1>1, <3>2, <4>1
      <4>2. CASE i # y
        BY <1>0, <1>1, <2>1, <3>1, <3>2, <4>2 DEF Grows
      <4>3. QED
        BY <4>1, <4>2
    <3>4. e \in 1 .. N + 1 /\ nodes'[i] = nodes[i]
      BY <1>0, <3>3
    <3>5. Rule(F, i, e)'
      BY <1>0, <1>2, <3>3, <3>4, RuleStays
    <3>6. QED
      BY <3>2, <3>3, <3>5
  <2>3. nodes'[i].kind = nodes[i].kind
    BY <1>0, <1>4
  <2>4. i >= p => nodes'[i] = NoNode
    BY <1>0, <2>1 DEF Grows
  <2>5. {nodes'[i].sub, nodes'[i].alt, nodes'[i].next} \subseteq 0 .. N
    BY <1>0, <2>1, SMTT(30) DEF Grows
  <2>6. i > 1 /\ nodes'[i].kind = "SIGBIND" /\ nodes'[i - 1].kind = "SIGBIND" =>
          nodes'[i].next = i - 1
    <3>1. SUFFICES ASSUME i > 1, nodes'[i].kind = "SIGBIND", nodes'[i - 1].kind = "SIGBIND"
                   PROVE  nodes'[i].next = i - 1
      OBVIOUS
    <3>2. i - 1 \in 1 .. N /\ i # x /\ i - 1 # x
      BY <1>0, <3>1
    <3>3. nodes'[i] = nodes[i] /\ nodes'[i - 1] = nodes[i - 1]
      BY <1>0, <3>2
    <3>4. QED
      BY <2>1, <3>1, <3>3 DEF Grows
  <2>7. \/ nodes'[i].kind \in {"none", "SIGBIND"} \/ F[i] # 0
        \/ \E k \in 1 .. Len(frames') : frames'[k].node = i
    <3>1. \/ nodes[i].kind \in {"none", "SIGBIND"} \/ E[i] # 0
          \/ \E k \in 1 .. Len(frames) : frames[k].node = i
      BY <2>1 DEF Grows
    <3>2. CASE i = y
      BY <1>0, <1>1, <3>2
    <3>3. CASE i # y
      BY <1>0, <1>1, <2>3, <3>1, <3>3
    <3>4. QED
      BY <3>2, <3>3
  <2>8. nodes'[i].kind = "SIGBIND" => kinds[i] = "CHAIN"
    BY <2>1, <2>3 DEF Grows
  <2>9. QED
    BY <1>0, <1>3, <2>2, <2>4, <2>5, <2>6, <2>7, <2>8 DEF Grows
<1>5. QED
  BY <1>1, <1>2, <1>4

\* The caller's field takes what is returned.
Takes(into, x, y) ==
  nodes' = CASE into = "sub"  -> [nodes EXCEPT ![x].sub = y]
             [] into = "alt"  -> [nodes EXCEPT ![x].alt = y]
             [] into = "next" -> [nodes EXCEPT ![x].next = y]

LEMMA FieldTaken ==
  ASSUME Noded, NEW x \in 1 .. Len(tokens), NEW y, NEW into \in {"sub", "alt", "next"}, Takes(into, x, y)
  PROVE  /\ nodes'[x].kind = nodes[x].kind /\ nodes'[x].chain = nodes[x].chain
         /\ nodes'[x].sub = IF into = "sub" THEN y ELSE nodes[x].sub
         /\ nodes'[x].alt = IF into = "alt" THEN y ELSE nodes[x].alt
         /\ nodes'[x].next = IF into = "next" THEN y ELSE nodes[x].next
         /\ \A i \in 1 .. Len(tokens) : i # x => nodes'[i] = nodes[i]
<1>1. /\ DOMAIN nodes = 1 .. Len(tokens)
      /\ DOMAIN nodes[x] = {"kind", "sub", "alt", "next", "chain"}
  BY DEF Noded
<1>2. CASE into = "sub"
  <2>1. nodes' = [nodes EXCEPT ![x].sub = y]
    BY <1>2 DEF Takes
  <2>2. QED
    BY <1>1, <1>2, <2>1
<1>3. CASE into = "alt"
  <2>1. nodes' = [nodes EXCEPT ![x].alt = y]
    BY <1>3 DEF Takes
  <2>2. QED
    BY <1>1, <1>3, <2>1
<1>4. CASE into = "next"
  <2>1. nodes' = [nodes EXCEPT ![x].next = y]
    BY <1>4 DEF Takes
  <2>2. QED
    BY <1>1, <1>4, <2>1
<1>5. QED
  BY <1>2, <1>3, <1>4

\* The first call returns: the program has its tree.
LEMMA TreeRoots ==
  ASSUME NEW g, NEW P, NEW G, Held(g, P, G), frames # <<>>, NEW E, Growing(E),
         UNCHANGED <<source, tokens, kinds>>, Top.todo = <<>>, ReturnWith(Top.node, nodes),
         Len(frames) = 1
  PROVE  \E F : Growing(F)'
<1>1. PICK N \in Nat : N = Len(tokens)
  BY GrowingIs
<1>2. PICK y \in 1 .. N, p \in 1 .. N + 1 : y = Top.node /\ p = nextToken /\ y < p
  BY <1>1, GrowingIs
<1>3. E[y] = 0 /\ Top = frames[1] /\ y = 1
  BY <1>2, GrowingIs DEF Growing
<1>4. Rule(E, y, p)
  <2>1. Stage(E, Top, "none", p)
    BY <1>2, GrowingIs DEF StepOf
  <2>2. QED
    BY <1>2, <2>1 DEF Stage
<1>5. frames' = Front(frames) /\ nextToken' = p /\ nodes' = nodes /\ root' = y
  BY <1>2 DEF ReturnWith
<1>6. frames' = <<>> /\ Len(frames') = 0
  BY <1>5 DEF Front
<1>7. PICK F : F = [E EXCEPT ![y] = p]
  OBVIOUS
<1>8. /\ F \in [1 .. N -> 0 .. N + 1] /\ F[y] = p
      /\ \A i \in 1 .. N : Grows(F, i)'
  <2>1. E \in [1 .. N -> 0 .. N + 1] /\ \A i \in 1 .. N : Grows(E, i)
    BY <1>1 DEF Growing
  <2>2. \A k \in 1 .. Len(frames) : frames[k].node = y
    BY <1>2, <1>3
  <2>3. PICK x : x = 0
    OBVIOUS
  <2>4. x \in 0 .. N /\ x < y /\ ~(x # 0) /\ \A i \in 1 .. N : i # x => nodes'[i] = nodes[i]
    BY <1>5, <2>3
  <2>5. UNCHANGED <<source, tokens, kinds, nextToken>>
    BY <1>2, <1>5
  <2>6. QED
    <3>1. Closes(E, F, x, y, p)
      BY <1>1, <1>2, <1>3, <1>4, <1>7, <2>1, <2>2, <2>4, <2>5 DEF Closes
    <3>2. QED
      BY <1>1, <3>1, UnitGrows
<1>9. tokens' = tokens
  OBVIOUS
<1>10. Growing(F)'
  BY <1>1, <1>2, <1>3, <1>5, <1>6, <1>8, <1>9 DEF Growing
<1>11. QED
  BY <1>10

\* A call returns to its caller.
LEMMA TreeReturns ==
  ASSUME NEW g, NEW P, NEW G, Held(g, P, G), frames # <<>>, NEW E, Growing(E),
         UNCHANGED <<source, tokens, kinds>>, Top.todo = <<>>, ReturnWith(Top.node, nodes),
         Len(frames) # 1
  PROVE  \E F : Growing(F)'
<1>1. PICK L \in Nat \ {0}, N \in Nat : L = Len(frames) /\ N = Len(tokens)
  BY GrowingIs
<1>2. PICK y \in 1 .. N, p \in 1 .. N + 1 : y = Top.node /\ p = nextToken /\ y < p
  BY <1>1, GrowingIs
<1>3. PICK M \in 1 .. L - 1 : M = L - 1 /\ M \in 1 .. L /\ M + 1 = L /\ L \in 1 .. L
  <2>1. L # 1
    BY <1>1
  <2>2. L - 1 \in 1 .. L - 1 /\ L - 1 \in 1 .. L /\ (L - 1) + 1 = L /\ L \in 1 .. L
    BY <2>1
  <2>3. QED
    BY <2>2
<1>4. PICK x \in 1 .. N, c \in Call : c = frames[M] /\ x = c.node /\ x < y
  <2>1. frames[M].node \in 1 .. N /\ frames[M] \in Call /\ frames[M].node < Top.node
    BY <1>1, <1>3, GrowingIs
  <2>2. QED
    BY <1>2, <2>1
<1>5. /\ E[y] = 0 /\ E[x] = 0 /\ Top = frames[L]
      /\ nodes[x].kind = kinds[x] /\ kinds[x] \notin {"none", "SIGBIND"}
      /\ \A k \in 1 .. L : /\ frames[k] \in Call /\ frames[k].node \in 1 .. N
                           /\ E[frames[k].node] = 0
                           /\ Scheduled(kinds[frames[k].node], frames[k].todo)
      /\ \A k \in 1 .. M : frames[k].node < y
      /\ frames \in Seq(Call)
  BY <1>1, <1>2, <1>3, <1>4, GrowingIs
<1>6. Rule(E, y, p)
  <2>1. Stage(E, Top, "none", p)
    BY <1>2, GrowingIs DEF StepOf
  <2>2. QED
    BY <1>2, <2>1 DEF Stage
<1>7. PICK step \in Called :
        /\ Scheduled(kinds[x], <<step>> \o c.todo)
        /\ Stage(E, c, step, y)
        /\ Top.into = Field(step)
        /\ step \notin {"body", "next"} => nodes[y].next = 0
  <2>1. Waits(E, M)
    BY <1>1, <1>3 DEF Growing
  <2>2. PICK d : d = frames[M + 1] /\ d.node = y /\ d = Top
    BY <1>2, <1>3, <1>5
  <2>3. \E step \in Called :
          /\ Scheduled(kinds[c.node], <<step>> \o c.todo)
          /\ Stage(E, c, step, d.node)
          /\ d.into = Field(step)
          /\ step \notin {"body", "next"} => nodes[d.node].next = 0
    BY <1>4, <2>1, <2>2 DEF Waits
  <2>4. QED
    BY <1>4, <2>2, <2>3
<1>8. PICK into \in {"sub", "alt", "next"} : into = Field(step) /\ into = Top.into
  BY <1>7 DEF Field, Called
<1>9. frames' = Front(frames) /\ nextToken' = p /\ root' = root /\ Takes(into, x, y)
  <2>1. /\ frames' = Front(frames) /\ nextToken' = p /\ root' = root
        /\ nodes' = CASE Top.into = "sub"  -> [nodes EXCEPT ![frames[L - 1].node].sub = Top.node]
                      [] Top.into = "alt"  -> [nodes EXCEPT ![frames[L - 1].node].alt = Top.node]
                      [] Top.into = "next" -> [nodes EXCEPT ![frames[L - 1].node].next = Top.node]
    BY <1>1, <1>2 DEF ReturnWith
  <2>2. frames[L - 1].node = x /\ Top.node = y /\ Top.into = into
    BY <1>2, <1>3, <1>4, <1>8
  <2>3. QED
    BY <2>1, <2>2 DEF Takes
<1>10. /\ nodes'[x].kind = nodes[x].kind /\ nodes'[x].chain = nodes[x].chain
       /\ nodes'[x].sub = IF into = "sub" THEN y ELSE nodes[x].sub
       /\ nodes'[x].alt = IF into = "alt" THEN y ELSE nodes[x].alt
       /\ nodes'[x].next = IF into = "next" THEN y ELSE nodes[x].next
       /\ \A i \in 1 .. N : i # x => nodes'[i] = nodes[i]
  <2>1. Noded
    BY DEF Held
  <2>2. QED
    BY <1>1, <1>9, <2>1, FieldTaken
<1>11. /\ frames' \in Seq(Call) /\ Len(frames') = M
       /\ \A k \in 1 .. M : frames'[k] = frames[k]
  <2>1. frames' = SubSeq(frames, 1, M)
    BY <1>1, <1>3, <1>9 DEF Front
  <2>2. \A k \in 1 .. M : k \in 1 .. L /\ frames[k] \in Call
    BY <1>1, <1>3, <1>5
  <2>3. QED
    BY <1>1, <1>3, <2>1, <2>2, SubSeqProperties
<1>12. PICK F : F = [E EXCEPT ![y] = p]
  OBVIOUS
<1>13. /\ F \in [1 .. N -> 0 .. N + 1] /\ F[y] = p
       /\ \A i \in 1 .. N : i # y => F[i] = E[i]
       /\ Steady(E, F)
       /\ \A i \in 1 .. N : Grows(F, i)'
  <2>1. E \in [1 .. N -> 0 .. N + 1] /\ \A i \in 1 .. N : Grows(E, i)
    BY <1>1 DEF Growing
  <2>2. \A k \in 1 .. Len(frames) :
          frames[k].node = y \/ \E j \in 1 .. Len(frames') : frames'[j].node = frames[k].node
    <3>1. \A k \in 1 .. L : k = L \/ k \in 1 .. M
      BY <1>3
    <3>2. QED
      BY <1>1, <1>2, <1>5, <1>11, <3>1
  <2>3. {nodes'[x].sub, nodes'[x].alt, nodes'[x].next} \subseteq 0 .. N
    <3>1. {nodes[x].sub, nodes[x].alt, nodes[x].next} \subseteq 0 .. N
      BY <1>1, <1>4, <2>1 DEF Grows
    <3>2. QED
      BY <1>2, <1>10, <3>1
  <2>4. x \in 0 .. N /\ nodes[x].kind \notin {"none", "SIGBIND"}
    BY <1>4, <1>5
  <2>5. UNCHANGED <<source, tokens, kinds, nextToken>>
    BY <1>2, <1>9
  <2>6. QED
    <3>1. Closes(E, F, x, y, p)
      BY <1>1, <1>2, <1>4, <1>5, <1>6, <1>10, <1>12, <2>1, <2>2, <2>3, <2>4, <2>5 DEF Closes
    <3>2. QED
      BY <1>1, <3>1, UnitGrows
<1>14. Returns(E, F, c, step, x, y, p)
  <2>1. c.todo \in Seq(StepNames)
    BY <1>4 DEF Call
  <2>2. nodes'[x].sub = IF Field(step) = "sub" THEN y ELSE nodes[x].sub
    BY <1>8, <1>10
  <2>3. nodes'[x].alt = IF Field(step) = "alt" THEN y ELSE nodes[x].alt
    BY <1>8, <1>10
  <2>4. nodes'[x].next = IF Field(step) = "next" THEN y ELSE nodes[x].next
    BY <1>8, <1>10
  <2>5. QED
    BY <1>1, <1>2, <1>4, <1>7, <1>10, <1>13, <2>1, <2>2, <2>3, <2>4 DEF Returns
<1>15. Stage(F, c, StepOf(c.todo), p)'
  BY <1>14, StageAfter
<1>16. ASSUME NEW k \in 1 .. M - 1
       PROVE  Waits(F, k)'
  <2>1. PICK b, d : b = frames[k] /\ d = frames[k + 1]
    OBVIOUS
  <2>2. k \in 1 .. L - 1 /\ k \in 1 .. M /\ k + 1 \in 1 .. M /\ k + 1 \in 1 .. L /\ k \in 1 .. L
    BY <1>1, <1>3
  <2>3. PICK s \in Called :
          /\ Scheduled(kinds[b.node], <<s>> \o b.todo)
          /\ Stage(E, b, s, d.node)
          /\ d.into = Field(s)
          /\ s \notin {"body", "next"} =>
               /\ nodes[d.node].next = 0 /\ ~Has(d.todo, "next")
               /\ k + 2 \in 1 .. L => frames[k + 2].into # "next"
    BY <1>1, <2>1, <2>2 DEF Growing, Waits
  <2>4. frames'[k] = b /\ frames'[k + 1] = d
    BY <1>11, <2>1, <2>2
  <2>5. b \in Call /\ b.node \in 1 .. N /\ d.node \in 1 .. N /\ b.sigEnd \in Nat
    BY <1>5, <2>1, <2>2 DEF Call
  <2>6. b.node # x
    <3>1. b.node < x
      BY <1>1, <1>3, <1>4, <2>1, CallsAscend
    <3>2. QED
      BY <2>5, <3>1
  <2>7. nodes'[b.node] = nodes[b.node]
    BY <1>10, <2>5, <2>6
  <2>8. \A i \in 1 .. N : nodes[i] = NoNode => nodes'[i] = NoNode
    <3>1. nodes[x] # NoNode
      BY <1>5 DEF NoNode
    <3>2. QED
      BY <1>10, <3>1
  <2>9. PICK q \in 1 .. N + 1 : q = d.node
    BY <2>5
  <2>10. Stage(F, b, s, q)'
    BY <1>1, <1>13, <2>3, <2>5, <2>7, <2>8, <2>9, StageStays
  <2>11. Stage(F, frames[k], s, frames[k + 1].node)'
    BY <2>4, <2>9, <2>10
  <2>12. s \notin {"body", "next"} =>
           /\ nodes'[d.node].next = 0 /\ ~Has(d.todo, "next")
           /\ k + 2 \in 1 .. M => frames'[k + 2].into # "next"
    <3>1. SUFFICES ASSUME s \notin {"body", "next"}
                   PROVE  /\ nodes'[d.node].next = 0 /\ ~Has(d.todo, "next")
                          /\ k + 2 \in 1 .. M => frames'[k + 2].into # "next"
      OBVIOUS
    <3>2. k + 2 \in 1 .. L
      BY <1>1, <1>3
    <3>3. /\ nodes[d.node].next = 0 /\ ~Has(d.todo, "next") /\ frames[k + 2].into # "next"
      BY <2>3, <3>1, <3>2
    <3>4. nodes'[d.node].next = 0
      <4>1. CASE k + 1 = M
        <5>1. d.node = x /\ k + 2 = L
          BY <1>3, <1>4, <2>1, <4>1
        <5>2. into # "next"
          BY <1>5, <1>8, <3>3, <5>1
        <5>3. QED
          BY <1>10, <3>3, <5>1, <5>2
      <4>2. CASE k + 1 # M
        <5>1. k + 1 \in 1 .. M - 1
          BY <1>3, <4>2
        <5>2. d.node < x
          BY <1>1, <1>3, <1>4, <2>1, <5>1, CallsAscend
        <5>3. d.node # x
          BY <2>5, <5>2
        <5>4. QED
          BY <1>10, <2>5, <3>3, <5>3
      <4>3. QED
        BY <4>1, <4>2
    <3>5. QED
      BY <1>11, <3>3, <3>4
  <2>13. Scheduled(kinds'[frames'[k].node], <<s>> \o frames'[k].todo)
    BY <2>3, <2>4
  <2>14. QED
    BY <1>11, <2>3, <2>4, <2>11, <2>12, <2>13 DEF Waits
<1>17. /\ frames' # <<>> /\ Last(frames') = c /\ frames'[1].node = 1
  <2>1. frames' # <<>> /\ Last(frames') = c
    BY <1>3, <1>4, <1>11, EmptySeq DEF Last
  <2>2. frames[1].node = 1 /\ 1 \in 1 .. M
    BY <1>3 DEF Growing
  <2>3. QED
    BY <1>11, <2>1, <2>2
<1>18. Stage(F, Last(frames), StepOf(Last(frames).todo), nextToken)'
  BY <1>9, <1>15, <1>17
<1>19. ASSUME NEW k \in 1 .. M
       PROVE  F[frames'[k].node] = 0 /\ Scheduled(kinds[frames'[k].node], frames'[k].todo)
  <2>1. frames'[k] = frames[k] /\ k \in 1 .. L
    BY <1>3, <1>11
  <2>2. /\ E[frames[k].node] = 0 /\ frames[k].node \in 1 .. N /\ frames[k].node # y
        /\ Scheduled(kinds[frames[k].node], frames[k].todo)
    BY <1>5, <2>1
  <2>3. QED
    BY <1>13, <2>1, <2>2
<1>20. tokens' = tokens /\ kinds' = kinds
  OBVIOUS
<1>21. Growing(F)'
  BY <1>1, <1>9, <1>11, <1>13, <1>16, <1>17, <1>18, <1>19, <1>20 DEF Growing
<1>22. QED
  BY <1>21

\* The innermost call, at x, takes a step at p: f is the call, this step done,
\* and then its next step.
Proceeds(E) ==
  /\ \E g, P, G : Held(g, P, G)
  /\ frames # <<>> /\ Growing(E) /\ UNCHANGED <<source, tokens, kinds>>

Performs(E, x, p, f, step, then) ==
  /\ Proceeds(E) /\ Top.todo # <<>> /\ Head(Top.todo) = step
  /\ x = Top.node /\ p = nextToken /\ f = Done /\ then = StepOf(f.todo)

LEMMA PerformsIs ==
  ASSUME NEW E, NEW x, NEW p, NEW f, NEW step, NEW then, Performs(E, x, p, f, step, then)
  PROVE  /\ Len(tokens) \in Nat /\ x \in 1 .. Len(tokens) /\ p \in 1 .. Len(tokens) + 1 /\ x < p
         /\ x = Top.node /\ p = nextToken /\ f = Done
         /\ f \in Call /\ f.node = x /\ f.into = Top.into
         /\ f.sigBegin = Top.sigBegin /\ f.sigEnd = Top.sigEnd
         /\ f.todo \in Seq(StepNames) /\ f.todo = Tail(Top.todo)
         /\ Scheduled(kinds[x], f.todo) /\ (Has(f.todo, "next") => Has(Top.todo, "next"))
         /\ StepOf(f.todo) = then
         /\ step = "next" => then = "none"
         /\ step \notin {"next", "unexpected"} =>
              /\ kinds[x] \in Takers(step)
              /\ StepAfter(kinds[x], step) = "end" => then \in {"none", "next"}
              /\ StepAfter(kinds[x], step) # "end" => then = StepAfter(kinds[x], step)
         /\ StepOf(Top.todo) = step /\ Stage(E, f, step, p)
<1>1. PICK g, P, G : Held(g, P, G)
  BY DEF Performs, Proceeds
<1>2. /\ frames # <<>> /\ Growing(E) /\ Top.todo # <<>> /\ Head(Top.todo) = step
      /\ x = Top.node /\ p = nextToken /\ f = Done /\ then = StepOf(f.todo)
  BY DEF Performs, Proceeds
<1>3. /\ Len(tokens) \in Nat /\ x \in 1 .. Len(tokens) /\ p \in 1 .. Len(tokens) + 1 /\ x < p
      /\ Scheduled(kinds[x], Top.todo) /\ Stage(E, Top, StepOf(Top.todo), p)
      /\ Top.todo \in Seq(StepNames)
  BY <1>1, <1>2, GrowingIs
<1>4. /\ f \in Call /\ f.node = x /\ f.into = Top.into
      /\ f.sigBegin = Top.sigBegin /\ f.sigEnd = Top.sigEnd
      /\ f.todo = Tail(Top.todo) /\ (Has(f.todo, "next") => Has(Top.todo, "next"))
      /\ StepOf(Top.todo) = step
  BY <1>1, <1>2, DoneIs
<1>5. PICK kind, todo, rest : kind = kinds[x] /\ todo = Top.todo /\ rest = f.todo
  OBVIOUS
<1>6. /\ todo \in Seq(StepNames) /\ todo # <<>> /\ Scheduled(kind, todo)
      /\ step = Head(todo) /\ rest = Tail(todo) /\ then = StepOf(rest)
  BY <1>2, <1>3, <1>4, <1>5
<1>7. /\ step = "next" => then = "none"
      /\ step \notin {"next", "unexpected"} =>
           /\ kind \in Takers(step)
           /\ StepAfter(kind, step) = "end" => then \in {"none", "next"}
           /\ StepAfter(kind, step) # "end" => then = StepAfter(kind, step)
      /\ rest \in Seq(StepNames) /\ Scheduled(kind, rest)
  BY <1>6, StepNext
<1>8. Stage(E, f, step, p)
  <2>1. PICK d : d = Top
    OBVIOUS
  <2>2. /\ f.node = d.node /\ f.sigBegin = d.sigBegin /\ f.sigEnd = d.sigEnd
        /\ Stage(E, d, step, p)
    BY <1>2, <1>3, <1>4, <2>1
  <2>3. QED
    BY <2>2, SameStage
<1>9. QED
  BY <1>2, <1>3, <1>4, <1>5, <1>7, <1>8

LEMMA PerformsThere ==
  ASSUME NEW E, NEW x, NEW p, NEW f, NEW step, NEW then, Performs(E, x, p, f, step, then)
  PROVE  /\ tokens' = tokens /\ kinds' = kinds /\ source' = source
         /\ \A i : TokenAt(i)' = TokenAt(i)
         /\ \A i : Lexeme(i)' = Lexeme(i)
         /\ nodes[x].kind = kinds[x] /\ kinds[x] \notin {"none", "SIGBIND", "end"}
         /\ nodes[x] # NoNode
         /\ Noded /\ TopPlaced /\ frames # <<>>
         /\ \A i \in 1 .. Len(tokens) : Grows(E, i)
         /\ frames \in Seq(Call)
<1>1. PICK g, P, G : Held(g, P, G)
  BY DEF Performs, Proceeds
<1>2. frames # <<>> /\ Growing(E) /\ UNCHANGED <<source, tokens, kinds>>
  BY DEF Performs, Proceeds
<1>3. x \in 1 .. Len(tokens)
  BY PerformsIs
<1>4. nodes[x].kind = kinds[x] /\ kinds[x] \notin {"none", "SIGBIND", "end"}
  <2>1. nodes[x].kind = kinds[x]
    BY PerformsIs DEF Stage
  <2>2. QED
    BY <1>1, <1>2, <1>3, <2>1, GrowingIs
<1>5. nodes[x] # NoNode
  BY <1>4 DEF NoNode
<1>6. /\ \A i : TokenAt(i)' = TokenAt(i)
      /\ \A i : Lexeme(i)' = Lexeme(i)
  BY <1>2, SameText DEF TokenAt
<1>7. Noded /\ TopPlaced /\ frames \in Seq(Call)
  BY <1>1, <1>2 DEF Held, Framing
<1>8. QED
  BY <1>2, <1>4, <1>5, <1>6, <1>7 DEF Growing

LEMMA TouchesTop ==
  ASSUME NEW E, NEW x, NEW p, NEW f, NEW step, NEW then, Performs(E, x, p, f, step, then),
         \A i \in 1 .. Len(tokens) : i # x => nodes'[i] = nodes[i],
         nodes'[x].kind = nodes[x].kind, nodes'[x].next = nodes[x].next,
         nodes'[x].sub \in 0 .. Len(tokens), nodes'[x].alt \in 0 .. Len(tokens)
  PROVE  Touches
<1>1. PICK N \in Nat : N = Len(tokens)
  BY PerformsIs
<1>2. x \in 1 .. N /\ x = Top.node
  BY <1>1, PerformsIs
<1>3. \A i \in 1 .. N : Grows(E, i)
  BY <1>1, PerformsThere
<1>4. \A i \in 1 .. N : nodes'[i].kind = nodes[i].kind /\ nodes'[i].next = nodes[i].next
  BY <1>1
<1>5. ASSUME NEW i \in 1 .. N
      PROVE  /\ \/ nodes'[i] = nodes[i]
                \/ /\ i = Top.node
                   /\ nodes'[i].kind = nodes[i].kind /\ nodes'[i].next = nodes[i].next
             /\ {nodes'[i].sub, nodes'[i].alt, nodes'[i].next} \subseteq 0 .. N
             /\ i > 1 /\ nodes'[i].kind = "SIGBIND" /\ nodes'[i - 1].kind = "SIGBIND" =>
                  nodes'[i].next = i - 1
  <2>1. Grows(E, i)
    BY <1>3
  <2>2. {nodes'[i].sub, nodes'[i].alt, nodes'[i].next} \subseteq 0 .. N
    <3>1. {nodes[i].sub, nodes[i].alt, nodes[i].next} \subseteq 0 .. N
      BY <1>1, <2>1 DEF Grows
    <3>2. QED
      BY <1>1, <1>2, <3>1
  <2>3. i > 1 /\ nodes'[i].kind = "SIGBIND" /\ nodes'[i - 1].kind = "SIGBIND" =>
          nodes'[i].next = i - 1
    <3>1. i > 1 => i - 1 \in 1 .. N
      OBVIOUS
    <3>2. QED
      BY <1>4, <2>1, <3>1 DEF Grows
  <2>4. QED
    BY <1>1, <1>2, <2>2, <2>3
<1>6. QED
  BY <1>1, <1>5 DEF Touches

LEMMA StepsTo ==
  ASSUME NEW E, NEW x, NEW p, NEW f, NEW step, NEW then, Performs(E, x, p, f, step, then),
         NEW h \in Call, h.node = x, h.into = f.into, Scheduled(kinds[x], h.todo),
         Has(h.todo, "next") => Has(f.todo, "next"),
         frames' = ReplaceAt(frames, Len(frames), h),
         NEW q \in 1 .. Len(tokens) + 1, q >= p, nextToken' = q, Touches,
         NEW s, s = StepOf(h.todo), Stage(E, h, s, q)'
  PROVE  \E F : Growing(F)'
<1>1. PICK g, P, G : Held(g, P, G)
  BY DEF Performs, Proceeds
<1>2. frames # <<>> /\ Growing(E) /\ UNCHANGED <<source, tokens, kinds>>
  BY DEF Performs, Proceeds
<1>3. /\ h.node = Top.node /\ h.into = Top.into /\ Scheduled(kinds[h.node], h.todo)
      /\ Has(h.todo, "next") => Has(Top.todo, "next")
      /\ nextToken' \in 1 .. Len(tokens) + 1 /\ nextToken' >= nextToken
  BY PerformsIs
<1>4. Stage(E, h, StepOf(h.todo), nextToken)'
  OBVIOUS
<1>5. Growing(E)'
  BY <1>1, <1>2, <1>3, <1>4, TreeStays
<1>6. QED
  BY <1>5

LEMMA StepsOn ==
  ASSUME NEW E, NEW x, NEW p, NEW f, NEW step, NEW then, Performs(E, x, p, f, step, then),
         frames' = Skip, NEW q \in 1 .. Len(tokens) + 1, q >= p, nextToken' = q, Touches,
         Stage(E, f, then, q)'
  PROVE  \E F : Growing(F)'
<1>1. frames' = ReplaceAt(frames, Len(frames), f)
  BY PerformsIs DEF Skip
<1>2. f \in Call /\ f.node = x /\ Scheduled(kinds[x], f.todo) /\ then = StepOf(f.todo)
  BY PerformsIs
<1>3. QED
  BY <1>1, <1>2, StepsTo

\* A unit that is read, when the nodes stay or only the chain changes.
LEMMA UnitEnds ==
  ASSUME NEW E, NEW x, NEW p, NEW f, NEW step, NEW then, Performs(E, x, p, f, step, then),
         frames' = Skip, NEW q \in 1 .. Len(tokens) + 1, q >= p, nextToken' = q, Touches,
         then \in {"none", "next"}, step # "none", Whole(E, x, q)',
         kinds[x] \in DOMAIN ChainMargins => Chained(x)'
  PROVE  \E F : Growing(F)'
<1>1. nodes[x].next = 0 /\ nodes[x].kind = kinds[x]
  BY PerformsIs DEF Stage
<1>2. nodes'[x].next = 0 /\ nodes'[x].kind = kinds[x]
  <2>1. x \in 1 .. Len(tokens) /\ nodes[x] # NoNode
    BY PerformsIs, PerformsThere
  <2>2. QED
    BY <1>1, <2>1 DEF Touches
<1>3. f.node = x /\ tokens' = tokens /\ kinds' = kinds
  BY PerformsIs, PerformsThere
<1>4. PICK s \in {"next", "none"} : s = then
  OBVIOUS
<1>5. Stage(E, f, s, q)'
  BY <1>2, <1>3, Ending
<1>6. QED
  BY <1>4, <1>5, StepsOn

LEMMA NoFail ==
  ASSUME errors = <<>>, errors' = <<>>, NEW message, NEW i
  PROVE  ~Fail(message, i)
BY DEF Fail

LEMMA NotAtEnd ==
  ASSUME errors = <<>>, errors' = <<>>, NEW fs, NEW single, NEW into, CallBody(fs, single, into)
  PROVE  ~AtEnd
BY DEF CallBody

LEMMA ProceedsIs ==
  ASSUME NEW E, Proceeds(E), Top.todo # <<>>, NEW step, Head(Top.todo) = step
  PROVE  \E x, p, f, then : Performs(E, x, p, f, step, then)
BY DEF Performs

LEMMA CallsOn ==
  ASSUME NEW E, Proceeds(E), errors = <<>>, errors' = <<>>, Top.todo # <<>>,
         NEW step \in Called, Head(Top.todo) = step,
         NEW single, step \notin {"body", "next"} => single, NEW into, into = Field(step),
         CallBody(Skip, single, into)
  PROVE  \E F : Growing(F)'
<1>1. PICK g, P, G : Held(g, P, G)
  BY DEF Proceeds
<1>2. frames # <<>> /\ Growing(E) /\ UNCHANGED <<source, tokens, kinds>>
  BY DEF Proceeds
<1>3. ~AtEnd
  BY NotAtEnd
<1>4. CallBody(Skip, single, Field(step))
  OBVIOUS
<1>5. Growing(E)'
  BY <1>1, <1>2, <1>3, <1>4, TreeCalls
<1>6. QED
  BY <1>5

LEMMA ChainGrows ==
  ASSUME NEW E, Proceeds(E), errors = <<>>, errors' = <<>>, Chain
  PROVE  \E F : Growing(F)'
<1>1. Top.todo # <<>> /\ Head(Top.todo) = "chain"
  BY DEF Chain, Doing
<1>2. PICK x, p, f, step, then : Performs(E, x, p, f, step, then) /\ step = "chain"
  BY <1>1, ProceedsIs
<1>3. PICK text : text = ChainText(kinds[x], Lexeme(x))
  OBVIOUS
<1>4. /\ ChainParses(text) /\ frames' = Skip /\ nextToken' = nextToken
      /\ nodes' = [nodes EXCEPT ![x].chain = ChainElems(text)]
  <2>1. x = Top.node
    BY <1>2, PerformsIs
  <2>2. ~Fail("invalid chain", Top.node)
    BY NoFail
  <2>3. QED
    BY <1>3, <2>1, <2>2 DEF Chain
<1>5. /\ Len(tokens) \in Nat /\ x \in 1 .. Len(tokens) /\ p \in 1 .. Len(tokens) + 1 /\ x < p
      /\ p = nextToken /\ f.node = x
  BY <1>2, PerformsIs
<1>6. /\ DOMAIN nodes = 1 .. Len(tokens)
      /\ DOMAIN nodes[x] = {"kind", "sub", "alt", "next", "chain"}
  BY <1>2, <1>5, PerformsThere DEF Noded
<1>7. /\ \A i \in 1 .. Len(tokens) : i # x => nodes'[i] = nodes[i]
      /\ nodes'[x].kind = nodes[x].kind /\ nodes'[x].next = nodes[x].next
      /\ nodes'[x].sub = nodes[x].sub /\ nodes'[x].alt = nodes[x].alt
      /\ nodes'[x].chain = ChainElems(text)
  BY <1>4, <1>5, <1>6
<1>8. /\ nodes[x].kind = kinds[x] /\ nodes[x].next = 0 /\ nodes[x].alt = 0 /\ nodes[x].sub = 0
      /\ p = x + 1
  BY <1>2, PerformsIs DEF Stage
<1>9. Touches
  BY <1>2, <1>5, <1>7, <1>8, TouchesTop
<1>10. Chained(x)'
  <2>1. (kinds' = kinds) /\ (Lexeme(x)' = Lexeme(x))
    BY <1>2, PerformsThere
  <2>2. QED
    BY <1>3, <1>4, <1>7, <2>1 DEF Chained
<1>11. PICK k : k = kinds[x] /\ k \in ChainKinds \cup {"CHAIN:", "CHAIN(", "CHAIN!"} /\ k = kinds'[x]
  <2>1. kinds[x] \in ChainKinds \cup {"CHAIN:", "CHAIN(", "CHAIN!"}
    BY <1>2, PerformsIs, TakersAre
  <2>2. kinds' = kinds
    BY <1>2, PerformsThere
  <2>3. QED
    BY <2>1, <2>2
<1>12. PICK q \in 1 .. Len(tokens) + 1 : q = p /\ q >= p /\ nextToken' = q
  BY <1>4, <1>5
<1>13. CASE k \in ChainKinds
  <2>1. then \in {"none", "next"}
    <3>1. StepAfter(k, "chain") = "end"
      BY <1>13, StepsAfter
    <3>2. StepAfter(kinds[x], "chain") = "end" => then \in {"none", "next"}
      BY <1>2, PerformsIs
    <3>3. QED
      BY <1>11, <3>1, <3>2
  <2>2. Whole(E, x, q)'
    BY <1>7, <1>8, <1>11, <1>12, <1>13 DEF Whole
  <2>3. QED
    BY <1>2, <1>4, <1>9, <1>10, <1>12, <2>1, <2>2, UnitEnds
<1>14. CASE k \in {"CHAIN:", "CHAIN(", "CHAIN!"}
  <2>1. then = IF k = "CHAIN(" THEN "body" ELSE "sub"
    <3>1. StepAfter(k, "chain") = IF k = "CHAIN(" THEN "body" ELSE "sub"
      BY <1>14, StepsAfter
    <3>2. StepAfter(kinds[x], "chain") # "end" => then = StepAfter(kinds[x], "chain")
      BY <1>2, PerformsIs
    <3>3. QED
      BY <1>11, <3>1, <3>2
  <2>2. k \notin Braces /\ CloseBrace # then
    <3>1. k = "CHAIN(" => k \notin Braces
      BY WordsApart
    <3>2. k \in Applied \/ k = "CHAIN("
      BY <1>14 DEF Applied
    <3>3. QED
      BY <2>1, <3>1, <3>2, PlainKinds, StepsApart
  <2>3. Stage(E, f, then, q)'
    BY <1>5, <1>7, <1>8, <1>10, <1>11, <1>12, <2>1, <2>2 DEF Stage
  <2>4. QED
    BY <1>2, <1>4, <1>9, <1>12, <2>3, StepsOn
<1>15. QED
  BY <1>11, <1>13, <1>14

LEMMA SignatureGrows ==
  ASSUME NEW E, Proceeds(E), errors = <<>>, errors' = <<>>, Signature
  PROVE  \E F : Growing(F)'
<1>1. Top.todo # <<>> /\ Head(Top.todo) = "sig"
  BY DEF Signature, Doing
<1>2. PICK x, p, f, step, then : Performs(E, x, p, f, step, then) /\ step = "sig"
  BY <1>1, ProceedsIs
<1>3. PICK N \in Nat : N = Len(tokens)
  BY <1>2, PerformsIs
<1>4. /\ x \in 1 .. N /\ p \in 1 .. N + 1 /\ x < p /\ p = nextToken /\ f.node = x /\ f = Done
      /\ f \in Call /\ f.todo \in Seq(StepNames) /\ then = StepOf(f.todo)
      /\ f.sigBegin = Top.sigBegin /\ f.sigEnd = Top.sigEnd
      /\ Scheduled(kinds[x], f.todo) /\ kinds[x] \in Braces /\ then = "body"
  BY <1>2, <1>3, PerformsIs, TakersAre, StepsAfter
<1>5. /\ nodes[x].kind = kinds[x] /\ nodes[x].next = 0 /\ nodes[x].alt = 0 /\ nodes[x].sub = 0
      /\ p = x + 1 /\ f.sigEnd <= f.sigBegin
  <2>1. "sig" # CloseBrace
    BY StepsApart
  <2>2. QED
    BY <1>2, <2>1, PerformsIs DEF Stage
<1>6. nodes' = nodes
  BY DEF Signature
<1>7. /\ kinds' = kinds /\ tokens' = tokens /\ \A i : TokenAt(i)' = TokenAt(i)
      /\ \A i \in 1 .. N : Grows(E, i)
  BY <1>2, <1>3, PerformsThere
<1>8. Touches
  <2>1. nodes[x].sub \in 0 .. N /\ nodes[x].alt \in 0 .. N
    BY <1>5, <1>3
  <2>2. QED
    BY <1>2, <1>3, <1>6, <2>1, TouchesTop
<1>9. kinds[x] \notin DOMAIN ChainMargins
  BY <1>4, TakersAre, PlainKinds, WordsApart DEF Applied
<1>10. ASSUME NEW h, h.node = x, NEW q \in 1 .. N + 1, Names(h, q)'
       PROVE  Stage(E, h, "body", q)'
  <2>1. "body" # CloseBrace
    BY StepsApart
  <2>2. QED
    BY <1>4, <1>5, <1>6, <1>7, <1>9, <1>10, <2>1 DEF Stage
<1>11. PICK after : after = Min({i \in nextToken .. Len(tokens) : kinds[i] # "CHAIN"}
                                 \cup {Len(tokens) + 1})
  OBVIOUS
<1>12. /\ after \in p .. N + 1
       /\ \A i \in p .. after - 1 : kinds[i] = "CHAIN"
  <2>1. PICK S : S = {i \in p .. N : kinds[i] # "CHAIN"} \cup {N + 1}
    OBVIOUS
  <2>2. S \in SUBSET Nat /\ S # {} /\ \A i \in S : p <= i
    BY <1>4, <2>1
  <2>3. after \in S /\ \A i \in S : after <= i
    BY <1>3, <1>4, <1>11, <2>1, <2>2, MinIs
  <2>4. \A i \in p .. after - 1 : i \in p .. N /\ ~(after <= i)
    BY <1>4, <2>1, <2>3
  <2>5. QED
    BY <1>4, <2>1, <2>3, <2>4
<1>13. CASE fpHasNextUnit /\ after <= Len(tokens) /\ kinds[after] = "=>"
  <2>1. PICK h : h = [f EXCEPT !.sigBegin = p, !.sigEnd = after]
    OBVIOUS
  <2>2. frames' = ReplaceAt(frames, Len(frames), h) /\ nextToken' = after + 1
    BY <1>4, <1>11, <1>13, <2>1 DEF Signature
  <2>3. /\ h \in Call /\ h.node = x /\ h.into = f.into /\ h.todo = f.todo
        /\ h.sigBegin = x + 1 /\ h.sigEnd = after
    <3>1. p \in Nat /\ after \in Nat
      BY <1>3, <1>4, <1>12
    <3>2. QED
      BY <1>4, <1>5, <2>1, <3>1 DEF Call
  <2>4. after \in p .. N /\ after \in 1 .. N
    BY <1>3, <1>4, <1>12, <1>13
  <2>5. PICK q \in 1 .. N + 1 : q = after + 1 /\ q >= p
    BY <1>4, <2>4
  <2>6. TokenAt(after)' = "=>"
    BY <1>3, <1>7, <1>13, <2>4 DEF TokenAt
  <2>7. Names(h, q)'
    <3>1. CASE after = x + 1
      <4>1. h.sigEnd <= h.sigBegin /\ q = x + 2
        BY <1>3, <1>4, <2>3, <2>5, <3>1
      <4>2. TokenAt(x + 1)' = "=>"
        BY <2>6, <3>1
      <4>3. QED
        BY <2>3, <4>1, <4>2 DEF Names
    <3>2. CASE after # x + 1
      <4>1. ~(h.sigEnd <= h.sigBegin)
        BY <1>5, <2>3, <2>4, <3>2
      <4>2. ASSUME NEW i \in x + 1 .. after - 1
            PROVE  TokenAt(i)' = "CHAIN" /\ nodes'[i] = NoNode
        <5>1. i \in p .. after - 1 /\ i \in 1 .. N /\ i >= nextToken
          BY <1>4, <1>5, <2>4
        <5>2. TokenAt(i) = "CHAIN" /\ nodes[i] = NoNode
          BY <1>3, <1>7, <1>12, <5>1 DEF TokenAt, Grows
        <5>3. QED
          BY <1>6, <1>7, <5>2
      <4>3. QED
        BY <2>3, <2>5, <2>6, <4>1, <4>2 DEF Names, NoNode
    <3>3. QED
      BY <3>1, <3>2
  <2>8. PICK s : s = then /\ s = StepOf(h.todo)
    BY <1>4, <2>3
  <2>9. Stage(E, h, s, q)'
    BY <1>4, <1>10, <2>3, <2>7, <2>8
  <2>10. /\ Scheduled(kinds[x], h.todo) /\ (Has(h.todo, "next") => Has(f.todo, "next"))
         /\ nextToken' = q
    BY <1>4, <2>2, <2>3, <2>5
  <2>11. QED
    BY <1>2, <1>3, <1>8, <2>2, <2>3, <2>5, <2>8, <2>9, <2>10, StepsTo
<1>14. CASE ~(fpHasNextUnit /\ after <= Len(tokens) /\ kinds[after] = "=>")
  <2>1. frames' = Skip /\ nextToken' = nextToken
    BY <1>11, <1>14 DEF Signature
  <2>2. PICK q \in 1 .. N + 1 : q = p /\ q >= p /\ nextToken' = q
    BY <1>4, <2>1
  <2>3. Names(f, q)'
    BY <1>4, <1>5, <2>2 DEF Names
  <2>4. Stage(E, f, then, q)'
    BY <1>4, <1>10, <2>3
  <2>5. QED
    BY <1>2, <1>3, <1>8, <2>1, <2>2, <2>4, StepsOn
<1>15. QED
  BY <1>13, <1>14

\* What a step does not touch.
LEMMA SteadyOn ==
  ASSUME NEW E, NEW x, NEW p, NEW f, NEW step, NEW then, Performs(E, x, p, f, step, then), Touches
  PROVE  Steady(E, E)
<1>1. PICK g, P, G : Held(g, P, G)
  BY DEF Performs, Proceeds
<1>2. frames # <<>> /\ Growing(E) /\ UNCHANGED <<source, tokens, kinds>>
  BY DEF Performs, Proceeds
<1>3. PICK N \in Nat : N = Len(tokens)
  BY PerformsIs
<1>4. /\ E[Top.node] = 0 /\ Top.node \in 1 .. N
      /\ nodes[Top.node].kind = kinds[Top.node]
      /\ \A i \in 1 .. N : /\ kinds[i] \notin {"none", "SIGBIND", "end"}
                           /\ E[i] # 0 => nodes[i].kind = kinds[i]
                           /\ nodes[i].kind = "SIGBIND" => E[i] = 0 /\ kinds[i] = "CHAIN"
  BY <1>1, <1>2, <1>3, GrowingIs DEF Stage
<1>5. ASSUME NEW i \in 1 .. N, E[i] # 0 \/ nodes[i].kind = "SIGBIND"
      PROVE  nodes'[i] = nodes[i]
  <2>1. nodes[i].kind # "none"
    BY <1>4, <1>5
  <2>2. nodes[i] # NoNode
    BY <2>1 DEF NoNode
  <2>3. i # Top.node
    BY <1>4, <1>5
  <2>4. QED
    BY <1>3, <2>2, <2>3 DEF Touches
<1>6. QED
  BY <1>2, <1>3, <1>5 DEF Steady

\* A link stays a link.
LEMMA LinkedOn ==
  ASSUME NEW E, NEW link, NEW p, NEW q, tokens' = tokens
  PROVE  Linked(E, link, p, q)' <=> Linked(E, link, p, q)
BY DEF Linked, Grown

\* The names between the brace at x and the => before q.
LEMMA BindsGrows ==
  ASSUME NEW E, Proceeds(E), errors = <<>>, errors' = <<>>, SigBinds
  PROVE  \E F : Growing(F)'
<1>1. Top.todo # <<>> /\ Head(Top.todo) = "binds"
  BY DEF SigBinds, Doing
<1>2. PICK x, p, f, step, then : Performs(E, x, p, f, step, then) /\ step = "binds"
  BY <1>1, ProceedsIs
<1>3. PICK N \in Nat : N = Len(tokens)
  BY <1>2, PerformsIs
<1>4. /\ x \in 1 .. N /\ p \in 1 .. N + 1 /\ x < p /\ p = nextToken /\ f.node = x /\ x = Top.node
      /\ f.sigBegin = Top.sigBegin /\ f.sigEnd = Top.sigEnd /\ f \in Call
      /\ kinds[x] \in Braces /\ then = CloseBrace
  <2>1. StepAfter(kinds[x], "binds") = CloseBrace /\ CloseBrace # "end"
    BY StepsAfter, StepsApart
  <2>2. StepAfter(kinds[x], "binds") # "end" => then = StepAfter(kinds[x], "binds")
    BY <1>2, PerformsIs
  <2>3. kinds[x] \in Braces
    BY <1>2, PerformsIs, TakersAre
  <2>4. QED
    BY <1>2, <1>3, <2>1, <2>2, <2>3, PerformsIs
<1>5. /\ tokens' = tokens /\ kinds' = kinds /\ \A i : TokenAt(i)' = TokenAt(i)
      /\ \A i \in 1 .. N : Grows(E, i)
      /\ DOMAIN nodes = 1 .. N /\ kinds[x] \notin {"none", "SIGBIND", "end"}
      /\ DOMAIN nodes[x] = {"kind", "sub", "alt", "next", "chain"}
  BY <1>2, <1>3, <1>4, PerformsThere DEF Noded
<1>6. PICK s : s = nodes[x].sub
  OBVIOUS
<1>7. /\ nodes[x].kind = kinds[x] /\ nodes[x].next = 0 /\ nodes[x].alt = 0
      /\ \E q \in 1 .. Len(tokens) + 1 : Names(f, q) /\ Linked(E, nodes[x].sub, q, p)
  <2>1. Stage(E, f, "binds", p)
    BY <1>2, PerformsIs
  <2>2. QED
    BY <1>4, <2>1 DEF Stage
<1>8. PICK q \in 1 .. N + 1 : Names(f, q) /\ Linked(E, s, q, p)
  BY <1>3, <1>6, <1>7
<1>9. s \in 0 .. N
  BY <1>3, <1>4, <1>5, <1>6 DEF Grows
<1>10. kinds[x] \notin DOMAIN ChainMargins
  BY <1>4, TakersAre, PlainKinds, WordsApart DEF Applied
<1>11. frames' = Skip /\ nextToken' = p
  BY <1>4 DEF SigBinds
<1>12. q <= p
  <2>1. CASE s = 0
    BY <1>4, <1>8, <2>1 DEF Linked
  <2>2. CASE s # 0
    <3>1. q \in 1 .. N /\ E[q] = p
      BY <1>3, <1>8, <2>2 DEF Linked, Grown
    <3>2. E[q] # 0 => E[q] \in q + 1 .. nextToken
      BY <1>5, <3>1 DEF Grows
    <3>3. QED
      BY <1>4, <3>1, <3>2
  <2>3. QED
    BY <2>1, <2>2
<1>13. PICK a, z : a = Top.sigBegin /\ z = Top.sigEnd - 1
  OBVIOUS
<1>14. a \in Nat /\ z \in Int /\ a = f.sigBegin /\ z = f.sigEnd - 1 /\ f.sigEnd \in Nat
  BY <1>4, <1>13 DEF Call
<1> DEFINE Bind(i) == [NewNode("SIGBIND") EXCEPT !.next = IF i = a THEN s ELSE i - 1]
           Signed == [nodes[x] EXCEPT !.sub = z]
<1>15. ASSUME NEW i \in 1 .. N
       PROVE  /\ i \in a .. z /\ i # x => nodes'[i] = Bind(i)
              /\ i \notin a .. z /\ i = x /\ a <= z => nodes'[i] = Signed
              /\ i \notin a .. z /\ ~(i = x /\ a <= z) => nodes'[i] = nodes[i]
  <2>1. nodes'[i] = CASE i \in a .. z -> Bind(i)
                      [] i = x /\ a <= z -> [nodes[i] EXCEPT !.sub = z]
                      [] OTHER -> nodes[i]
    BY <1>4, <1>5, <1>6, <1>13, Zenon DEF SigBinds
  <2>2. PICK u, v : u = Bind(i) /\ v = [nodes[i] EXCEPT !.sub = z]
    OBVIOUS
  <2>3. i = x => v = Signed
    BY <2>2
  <2>4. nodes'[i] = CASE i \in a .. z -> u [] i = x /\ a <= z -> v [] OTHER -> nodes[i]
    BY <2>1, <2>2, Zenon
  <2> HIDE DEF Bind, Signed
  <2>5. CASE i \in a .. z /\ i # x
    BY <2>2, <2>4, <2>5
  <2>6. CASE i \notin a .. z /\ i = x /\ a <= z
    BY <2>3, <2>4, <2>6
  <2>7. CASE i \notin a .. z /\ ~(i = x /\ a <= z)
    BY <2>4, <2>7
  <2>8. QED
    BY <2>5, <2>6, <2>7
<1> HIDE DEF Bind, Signed
<1>16. ASSUME Touches, nodes'[x].kind = nodes[x].kind, nodes'[x].next = 0, nodes'[x].alt = 0,
              Inner(E, x, p)'
       PROVE  \E F : Growing(F)'
  <2>1. /\ then = CloseBrace
        /\ CloseBrace \notin {"chain", "sig", "body", "binds", "sub", "alt", "else", "do", "next",
                              "path", "checkPath", "as", "name", "checkName", "unexpected",
                              "none", ")"}
    BY <1>4, StepsApart
  <2>2. Stage(E, f, then, p)'
    BY <1>4, <1>5, <1>7, <1>10, <1>16, <2>1 DEF Stage
  <2>3. PICK r \in 1 .. N + 1 : r = p /\ r >= p /\ nextToken' = r
    BY <1>4, <1>11
  <2>4. QED
    BY <1>2, <1>3, <1>11, <1>16, <2>2, <2>3, StepsOn
<1>17. CASE f.sigEnd <= f.sigBegin
  <2>1. z < a
    BY <1>14, <1>17
  <2>2. \A i \in 1 .. N : nodes'[i] = nodes[i]
    BY <1>14, <1>15, <2>1
  <2>3. nodes'[x] = nodes[x]
    BY <1>4, <2>2
  <2>4. Touches
    BY <1>2, <1>3, <1>5, <1>6, <1>7, <1>9, <2>2, <2>3, TouchesTop
  <2>5. q = x + 1 \/ (q = x + 2 /\ TokenAt(x + 1) = "=>")
    BY <1>4, <1>8, <1>17 DEF Names
  <2>6. Linked(E, s, q, p)'
    BY <1>5, <1>8, LinkedOn
  <2>7. Inner(E, x, p)'
    <3>1. nodes'[x].sub = s /\ q \in {x + 1} \cup {r \in {x + 2} : TokenAt(x + 1)' = "=>"}
      BY <1>5, <1>6, <2>3, <2>5
    <3>2. QED
      BY <2>6, <3>1 DEF Inner
  <2>8. QED
    BY <1>7, <1>16, <2>3, <2>4, <2>7
<1>18. CASE ~(f.sigEnd <= f.sigBegin)
  <2>1. /\ a = x + 1 /\ q = z + 2 /\ TokenAt(z + 1) = "=>" /\ z \in x + 1 .. N
        /\ \A i \in a .. z : TokenAt(i) = "CHAIN" /\ nodes[i] = NoNode
    <3>1. /\ f.sigBegin = x + 1 /\ q = f.sigEnd + 1 /\ TokenAt(f.sigEnd) = "=>"
          /\ \A i \in x + 1 .. f.sigEnd - 1 : TokenAt(i) = "CHAIN" /\ nodes[i] = NoNode
      BY <1>4, <1>8, <1>18 DEF Names
    <3>2. a = x + 1 /\ q = z + 2 /\ f.sigEnd = z + 1 /\ z \in x + 1 .. N
      BY <1>3, <1>4, <1>8, <1>14, <1>18, <3>1, SMTT(30)
    <3>3. QED
      BY <1>14, <3>1, <3>2
  <2>2. /\ nodes'[x].sub = z /\ nodes'[x].kind = nodes[x].kind /\ nodes'[x].alt = nodes[x].alt
        /\ nodes'[x].next = nodes[x].next
    <3>1. x \notin a .. z /\ a <= z
      BY <1>3, <1>4, <2>1
    <3>2. nodes'[x] = Signed
      BY <1>4, <1>15, <3>1
    <3>3. QED
      BY <1>5, <3>2 DEF Signed
  <2>3. \A i \in a .. z : /\ nodes'[i].kind = "SIGBIND" /\ nodes'[i].sub = 0 /\ nodes'[i].alt = 0
                          /\ nodes'[i].next = IF i = a THEN s ELSE i - 1
    <3>1. \A i \in a .. z : i \in 1 .. N /\ i # x
      BY <1>3, <1>4, <2>1
    <3>2. \A i \in a .. z : nodes'[i] = Bind(i)
      BY <1>15, <3>1
    <3>3. QED
      BY <3>2 DEF Bind, NewNode, NoNode
  <2>4. \A i \in 1 .. N : i \notin a .. z /\ i # x => nodes'[i] = nodes[i]
    BY <1>15
  <2>5. \A i \in a .. z : kinds[i] = "CHAIN" /\ i > x /\ i < nextToken
    BY <1>3, <1>4, <1>12, <2>1 DEF TokenAt
  <2>6. \A i \in 1 .. N :
          \/ nodes'[i] = nodes[i]
          \/ /\ i = Top.node
             /\ nodes'[i].kind = nodes[i].kind /\ nodes'[i].next = nodes[i].next
          \/ /\ i > Top.node /\ i < nextToken /\ nodes[i] = NoNode /\ kinds[i] = "CHAIN"
             /\ nodes'[i].kind = "SIGBIND"
    BY <1>4, <2>1, <2>2, <2>3, <2>4, <2>5
  <2>7. ASSUME NEW i \in 1 .. N
        PROVE  {nodes'[i].sub, nodes'[i].alt, nodes'[i].next} \subseteq 0 .. N
    <3>1. {nodes[i].sub, nodes[i].alt, nodes[i].next} \subseteq 0 .. N
      BY <1>3, <1>5 DEF Grows
    <3>2. CASE i \in a .. z
      BY <1>3, <1>4, <1>9, <2>1, <2>3, <3>2, SMTT(30)
    <3>3. CASE i = x
      <4>1. nodes'[i].sub = z /\ nodes'[i].alt = nodes[i].alt /\ nodes'[i].next = nodes[i].next
        BY <2>2, <3>3
      <4>2. z \in 0 .. N
        BY <1>3, <1>4, <2>1
      <4>3. QED
        BY <3>1, <4>1, <4>2
    <3>4. QED
      BY <2>4, <3>1, <3>2, <3>3
  <2>8. ASSUME NEW i \in 1 .. N, i > 1, nodes'[i].kind = "SIGBIND", nodes'[i - 1].kind = "SIGBIND"
        PROVE  nodes'[i].next = i - 1
    <3>1. i - 1 \in 1 .. N
      BY <2>8
    <3>2. i # x /\ i - 1 # x
      BY <1>5, <1>7, <2>2, <2>8
    <3>3. CASE i \in a .. z
      BY <1>4, <2>1, <2>3, <3>2, <3>3
    <3>4. CASE i \notin a .. z
      <4>1. nodes[i].kind = "SIGBIND" /\ nodes'[i] = nodes[i]
        BY <2>4, <2>8, <3>2, <3>4
      <4>2. i # z + 1
        <5>1. kinds[i] = "CHAIN"
          BY <1>5, <4>1 DEF Grows
        <5>2. QED
          BY <1>3, <2>1, <5>1 DEF TokenAt
      <4>3. i - 1 \notin a .. z
        BY <1>4, <2>1, <3>4, <4>2
      <4>4. nodes[i - 1].kind = "SIGBIND"
        BY <2>4, <2>8, <3>1, <3>2, <4>3
      <4>5. QED
        BY <1>5, <2>8, <4>1, <4>4 DEF Grows
    <3>5. QED
      BY <3>3, <3>4
  <2>9. Touches
    BY <1>3, <2>6, <2>7, <2>8 DEF Touches
  <2>10. Linked(E, s, z + 2, p)'
    BY <1>5, <1>8, <2>1, LinkedOn
  <2>11. Inner(E, x, p)'
    <3>1. TokenAt(z + 1)' = "=>"
      BY <1>5, <2>1
    <3>2. nodes'[x + 1].next = s /\ \A i \in x + 1 .. z : nodes'[i].kind = "SIGBIND"
      BY <1>4, <2>1, <2>3
    <3>3. z \in x + 1 .. Len(tokens)'
      BY <1>3, <1>5, <2>1
    <3>4. QED
      BY <2>2, <2>10, <3>1, <3>2, <3>3 DEF Inner
  <2>12. QED
    BY <1>7, <1>16, <2>2, <2>9, <2>11
<1>19. QED
  BY <1>17, <1>18

\* A step that leaves the nodes as they were.
LEMMA Untouched ==
  ASSUME NEW E, NEW x, NEW p, NEW f, NEW step, NEW then, Performs(E, x, p, f, step, then),
         nodes' = nodes
  PROVE  /\ Touches /\ Steady(E, E)
         /\ Chained(x)' <=> Chained(x)
         /\ \A q : Names(f, q)' <=> Names(f, q)
         /\ kinds[x] \in DOMAIN ChainMargins /\ step # "chain" => Chained(x)'
<1>1. PICK N \in Nat : N = Len(tokens)
  BY PerformsIs
<1>2. /\ x \in 1 .. N /\ f.node = x /\ tokens' = tokens /\ kinds' = kinds
      /\ \A i : TokenAt(i)' = TokenAt(i)
      /\ \A i : Lexeme(i)' = Lexeme(i)
      /\ \A i \in 1 .. N : Grows(E, i)
  BY <1>1, PerformsIs, PerformsThere
<1>3. nodes[x].sub \in 0 .. N /\ nodes[x].alt \in 0 .. N
  BY <1>1, <1>2 DEF Grows
<1>4. Touches
  BY <1>1, <1>3, TouchesTop
<1>5. Steady(E, E)
  BY <1>4, SteadyOn
<1>6. Chained(x)' <=> Chained(x)
  BY <1>2 DEF Chained
<1>7. \A q : Names(f, q)' <=> Names(f, q)
  BY <1>2 DEF Names, NoNode
<1>8. Stage(E, f, step, p)
  BY PerformsIs
<1>9. kinds[x] \in DOMAIN ChainMargins /\ step # "chain" => Chained(x)'
  BY <1>2, <1>6, <1>8 DEF Stage
<1>10. QED
  BY <1>4, <1>5, <1>6, <1>7, <1>9

LEMMA UnitsGrows ==
  ASSUME NEW E, Proceeds(E), errors = <<>>, errors' = <<>>, Units
  PROVE  \E F : Growing(F)'
<1>1. Top.todo # <<>> /\ Head(Top.todo) = "body"
  BY DEF Units, Doing
<1>2. CASE fpHasNextUnit
  <2>1. PICK single, into : single = FALSE /\ into = "sub"
    OBVIOUS
  <2>2. CallBody(Skip, single, into)
    BY <1>2, <2>1 DEF Units
  <2>3. PICK step \in Called : step = "body"
    BY DEF Called
  <2>4. into = Field(step) /\ (step \notin {"body", "next"} => single)
    BY <2>1, <2>3 DEF Field
  <2>5. QED
    BY <1>1, <2>2, <2>3, <2>4, CallsOn
<1>3. CASE ~fpHasNextUnit
  <2>1. frames' = Skip /\ UNCHANGED <<nextToken, nodes, root, errors>>
    BY <1>3 DEF Units
  <2>2. PICK x, p, f, step, then : Performs(E, x, p, f, step, then) /\ step = "body"
    BY <1>1, ProceedsIs
  <2>3. PICK N \in Nat : N = Len(tokens)
    BY <2>2, PerformsIs
  <2>4. /\ x \in 1 .. N /\ p \in 1 .. N + 1 /\ x < p /\ p = nextToken /\ f.node = x
        /\ tokens' = tokens /\ kinds' = kinds
    BY <2>2, <2>3, PerformsIs, PerformsThere
  <2>5. nodes' = nodes
    BY <2>1
  <2>6. /\ Touches
        /\ \A q : Names(f, q)' <=> Names(f, q)
        /\ kinds[x] \in DOMAIN ChainMargins => Chained(x)'
    BY <2>2, <2>5, Untouched
  <2>7. PICK k : k = kinds[x] /\ k \in Braces \cup {"(", "CHAIN("}
    <3>1. kinds[x] \in Takers("body")
      BY <2>2, PerformsIs
    <3>2. QED
      BY <3>1, TakersAre
  <2>8. /\ nodes[x].kind = k /\ nodes[x].next = 0 /\ nodes[x].alt = 0 /\ nodes[x].sub = 0
        /\ IF k \in Braces THEN Names(f, p) ELSE p = x + 1
    <3>1. Stage(E, f, "body", p)
      BY <2>2, PerformsIs
    <3>2. QED
      BY <2>4, <2>7, <3>1, StepsApart DEF Stage
  <2>9. then = IF k \in Braces THEN "binds" ELSE ")"
    <3>1. StepAfter(k, "body") = IF k \in Braces THEN "binds" ELSE ")"
      BY <2>7, StepsAfter
    <3>2. StepAfter(kinds[x], "body") # "end" => then = StepAfter(kinds[x], "body")
      BY <2>2, PerformsIs
    <3>3. QED
      BY <2>7, <3>1, <3>2
  <2>10. PICK r \in 1 .. N + 1 : r = p /\ r >= p /\ nextToken' = r
    BY <2>1, <2>4
  <2>11. then # CloseBrace
    BY <2>9, StepsApart
  <2>12. Linked(E, 0, p, p)' /\ (k \notin Braces => Linked(E, 0, x + 1, p)')
    BY <2>8 DEF Linked
  <2>13. Stage(E, f, then, r)'
    <3>1. nodes'[x].sub = 0 /\ kinds'[x] = k /\ p \in 1 .. Len(tokens)' + 1
      BY <2>3, <2>4, <2>5, <2>7, <2>8
    <3>2. CASE k \in Braces
      <4>1. Names(f, p)' /\ Linked(E, nodes[x].sub, p, p)'
        BY <2>6, <2>8, <2>12, <3>1, <3>2
      <4>2. then = "binds"
        BY <2>9, <3>2
      <4>3. QED
        BY <2>4, <2>5, <2>6, <2>7, <2>8, <2>10, <2>11, <3>1, <4>1, <4>2 DEF Stage
    <3>3. CASE k \notin Braces
      <4>1. then = ")"
        BY <2>9, <3>3
      <4>2. Linked(E, nodes[x].sub, x + 1, p)'
        BY <2>12, <3>1, <3>3
      <4>3. QED
        BY <2>4, <2>5, <2>6, <2>7, <2>8, <2>10, <2>11, <3>1, <4>1, <4>2 DEF Stage
    <3>4. QED
      BY <3>2, <3>3
  <2>14. QED
    BY <2>1, <2>2, <2>3, <2>6, <2>10, <2>13, StepsOn
<1>4. QED
  BY <1>2, <1>3

LEMMA NextUnitGrows ==
  ASSUME NEW E, Proceeds(E), errors = <<>>, errors' = <<>>, NextUnit
  PROVE  \E F : Growing(F)'
<1>1. Top.todo # <<>> /\ Head(Top.todo) = "next"
  BY DEF NextUnit, Doing
<1>2. CASE fpHasNextUnit
  <2>1. PICK single, into : single = FALSE /\ into = "next"
    OBVIOUS
  <2>2. CallBody(Skip, single, into)
    BY <1>2, <2>1 DEF NextUnit
  <2>3. PICK step \in Called : step = "next"
    BY DEF Called
  <2>4. into = Field(step) /\ (step \notin {"body", "next"} => single)
    BY <2>1, <2>3 DEF Field
  <2>5. QED
    BY <1>1, <2>2, <2>3, <2>4, CallsOn
<1>3. CASE ~fpHasNextUnit
  <2>1. frames' = Skip /\ UNCHANGED <<nextToken, nodes, root, errors>>
    BY <1>3 DEF NextUnit
  <2>2. PICK x, p, f, step, then : Performs(E, x, p, f, step, then) /\ step = "next"
    BY <1>1, ProceedsIs
  <2>3. PICK N \in Nat : N = Len(tokens)
    BY <2>2, PerformsIs
  <2>4. /\ x \in 1 .. N /\ p \in 1 .. N + 1 /\ x < p /\ p = nextToken /\ f.node = x
        /\ tokens' = tokens /\ kinds' = kinds /\ then = "none"
    BY <2>2, <2>3, PerformsIs, PerformsThere
  <2>5. nodes' = nodes
    BY <2>1
  <2>6. Touches /\ Steady(E, E) /\ (kinds[x] \in DOMAIN ChainMargins => Chained(x)')
    BY <2>2, <2>5, Untouched
  <2>7. Whole(E, x, p)
    <3>1. Stage(E, f, "next", p)
      BY <2>2, PerformsIs
    <3>2. QED
      BY <2>4, <3>1 DEF Stage
  <2>8. Whole(E, x, p)'
    BY <2>3, <2>4, <2>5, <2>6, <2>7, WholeStays
  <2>9. PICK r \in 1 .. N + 1 : r = p /\ r >= p /\ nextToken' = r
    BY <2>1, <2>4
  <2>10. QED
    BY <2>1, <2>2, <2>3, <2>4, <2>6, <2>8, <2>9, UnitEnds
<1>4. QED
  BY <1>2, <1>3

LEMMA OperandGrows ==
  ASSUME NEW E, Proceeds(E), errors = <<>>, errors' = <<>>, Operand \/ ImportPath
  PROVE  \E F : Growing(F)'
<1>1. PICK step \in {"sub", "alt", "path", "name"} :
        Doing(step) /\ CallBody(Skip, TRUE, IF step \in {"path", "name"} THEN "sub" ELSE step)
  <2>1. CASE Operand
    <3>1. PICK field \in {"sub", "alt"} : Doing(field) /\ CallBody(Skip, TRUE, field)
      BY <2>1 DEF Operand
    <3>2. QED
      BY <3>1
  <2>2. CASE ImportPath
    <3>1. PICK name \in {"path", "name"} : Doing(name) /\ CallBody(Skip, TRUE, "sub")
      BY <2>2 DEF ImportPath
    <3>2. QED
      BY <3>1
  <2>3. QED
    BY <2>1, <2>2
<1>2. Top.todo # <<>> /\ Head(Top.todo) = step
  BY <1>1 DEF Doing
<1>3. PICK single, into : single = TRUE /\ into = Field(step)
  OBVIOUS
<1>4. step \in Called /\ Field(step) = IF step \in {"path", "name"} THEN "sub" ELSE step
  BY DEF Called, Field
<1>5. CallBody(Skip, single, into)
  BY <1>1, <1>3, <1>4
<1>6. QED
  BY <1>2, <1>3, <1>4, <1>5, CallsOn

LEMMA ExpectGrows ==
  ASSUME NEW E, Proceeds(E), errors = <<>>, errors' = <<>>, Expect
  PROVE  \E F : Growing(F)'
<1>1. PICK b \in Brackets :
        /\ Doing(b)
        /\ IF NextIs(b)
           THEN /\ nextToken' = nextToken + 1
                /\ frames' = Skip
                /\ UNCHANGED <<nodes, root, errors>>
           ELSE Fail("expected token", IF AtEnd THEN Len(tokens) ELSE nextToken)
  BY Zenon DEF Expect, Brackets, CloseBrace
<1>2. Top.todo # <<>> /\ Head(Top.todo) = b
  BY <1>1 DEF Doing
<1>3. NextIs(b) /\ nextToken' = nextToken + 1 /\ frames' = Skip /\ nodes' = nodes
  BY <1>1, NoFail
<1>4. PICK x, p, f, step, then : Performs(E, x, p, f, step, then) /\ step = b
  BY <1>2, ProceedsIs
<1>5. PICK N \in Nat : N = Len(tokens)
  BY <1>4, PerformsIs
<1>6. /\ x \in 1 .. N /\ p \in 1 .. N + 1 /\ x < p /\ p = nextToken /\ f.node = x
      /\ tokens' = tokens /\ kinds' = kinds
  BY <1>4, <1>5, PerformsIs, PerformsThere
<1>7. p \in 1 .. N /\ TokenAt(p) = b
  BY <1>3, <1>5, <1>6 DEF NextIs, AtEnd, TokenAt
<1>8. b \in {CloseBrace, ")"} /\ b # "chain" /\ b # "none" /\ b # "next" /\ b # "unexpected"
  BY StepsApart DEF Brackets
<1>9. Touches /\ Steady(E, E) /\ (kinds[x] \in DOMAIN ChainMargins => Chained(x)')
  BY <1>3, <1>4, <1>8, Untouched
<1>10. then \in {"none", "next"}
  <2>1. StepAfter(kinds[x], b) = "end"
    BY <1>8, StepsAfter
  <2>2. StepAfter(kinds[x], b) = "end" => then \in {"none", "next"}
    BY <1>4, <1>8, PerformsIs
  <2>3. QED
    BY <2>1, <2>2
<1>11. Stage(E, f, b, p)
  BY <1>4, PerformsIs
<1>12. kinds[x] \in Takers(b)
  BY <1>4, <1>8, PerformsIs
<1>13. PICK u \in 1 .. N + 1 : u = p + 1 /\ u - 1 = p /\ u >= p
  BY <1>7
<1>14. Whole(E, x, u)
  <2>1. CASE b = CloseBrace
    <3>1. Inner(E, x, p) /\ kinds[x] \in Braces
      BY <1>6, <1>11, <1>12, <2>1, TakersAre DEF Stage
    <3>2. QED
      BY <1>7, <1>13, <2>1, <3>1 DEF Whole
  <2>2. CASE b = ")"
    <3>1. Linked(E, nodes[x].sub, x + 1, p) /\ kinds[x] \in {"(", "CHAIN("}
      BY <1>6, <1>11, <1>12, <2>2, TakersAre DEF Stage
    <3>2. QED
      BY <1>7, <1>13, <2>2, <3>1 DEF Whole
  <2>3. QED
    BY <1>8, <2>1, <2>2
<1>15. Whole(E, x, u)'
  BY <1>3, <1>5, <1>6, <1>9, <1>14, WholeStays
<1>16. nextToken' = u
  BY <1>3, <1>6, <1>13
<1>17. QED
  BY <1>3, <1>4, <1>5, <1>8, <1>9, <1>10, <1>13, <1>15, <1>16, UnitEnds

\* A call that goes on with the steps of s.
LEMMA MoreSteps ==
  ASSUME NEW E, NEW x, NEW p, NEW f, NEW step, NEW then, Performs(E, x, p, f, step, then),
         then \in {"none", "next"}, nodes' = nodes,
         NEW s \in Seq(StepNames), InOrder(kinds[x], s), NEW h, h = [f EXCEPT !.todo = s \o @],
         frames' = ReplaceAt(frames, Len(frames), h),
         NEW q \in 1 .. Len(tokens) + 1, q >= p, nextToken' = q,
         NEW first, first = s[1], Stage(E, f, first, q)'
  PROVE  \E F : Growing(F)'
<1>1. /\ x \in 1 .. Len(tokens) /\ f \in Call /\ f.node = x
      /\ f.todo \in Seq(StepNames) /\ Scheduled(kinds[x], f.todo) /\ StepOf(f.todo) = then
  BY PerformsIs
<1>2. PICK rest \in Seq(StepNames) : rest = f.todo
  BY <1>1
<1>3. rest = <<>> \/ (Len(rest) = 1 /\ rest[1] = "next")
  <2>1. CASE rest # <<>>
    <3>1. rest[1] = then /\ then # "none"
      <4>1. rest[1] = then
        BY <1>1, <1>2, <2>1 DEF StepOf
      <4>2. 1 \in 1 .. Len(rest) /\ rest[1] \in StepNames
        BY <2>1, EmptySeq, LenProperties, ElementOfSeq
      <4>3. "none" \notin StepNames
        BY StepsApart DEF StepNames, Brackets
      <4>4. QED
        BY <4>1, <4>2, <4>3
    <3>2. 1 \in 1 .. Len(rest)
      BY <2>1, EmptySeq, LenProperties
    <3>3. 1 = Len(rest)
      BY <1>1, <1>2, <3>1, <3>2 DEF Scheduled
    <3>4. QED
      BY <3>1, <3>3
  <2>2. QED
    BY <2>1
<1>4. PICK t : t = s \o rest
  OBVIOUS
<1>5. PICK k : k = kinds[x]
  OBVIOUS
<1>6. /\ t \in Seq(StepNames) /\ Scheduled(k, t) /\ StepOf(t) = s[1]
      /\ Has(t, "next") => Has(rest, "next")
  BY <1>3, <1>4, <1>5, ScheduledJoin
<1>7. /\ h \in Call /\ h.node = x /\ h.into = f.into /\ h.todo = t
      /\ h.sigBegin = f.sigBegin /\ h.sigEnd = f.sigEnd
  BY <1>1, <1>2, <1>4, <1>6 DEF Call
<1>8. Stage(E, h, first, q)'
  <2>1. h.node = f.node /\ h.sigBegin = f.sigBegin /\ h.sigEnd = f.sigEnd
    BY <1>1, <1>7
  <2>2. QED
    BY <2>1 DEF Stage, Names
<1>9. Touches
  BY Untouched
<1>10. /\ Scheduled(kinds[x], h.todo) /\ (Has(h.todo, "next") => Has(f.todo, "next"))
       /\ first = StepOf(h.todo)
  BY <1>2, <1>5, <1>6, <1>7
<1>11. QED
  BY <1>7, <1>8, <1>9, <1>10, StepsTo

LEMMA OptionalGrows ==
  ASSUME NEW E, Proceeds(E), errors = <<>>, errors' = <<>>, Optional
  PROVE  \E F : Growing(F)'
<1>1. PICK word \in {"else", "do", "as"} :
        /\ Doing(word)
        /\ IF NextIs(word)
           THEN /\ nextToken' = nextToken + 1
                /\ frames' = ReplaceAt(frames, Len(frames),
                     [Done EXCEPT !.todo = (IF word = "as" THEN <<"name", "checkName">>
                                            ELSE <<"alt">>) \o @])
           ELSE frames' = Skip /\ UNCHANGED nextToken
  BY DEF Optional
<1>2. Top.todo # <<>> /\ Head(Top.todo) = word /\ nodes' = nodes
  BY <1>1 DEF Doing, Optional
<1>3. PICK x, p, f, step, then : Performs(E, x, p, f, step, then) /\ step = word
  BY <1>2, ProceedsIs
<1>4. PICK N \in Nat : N = Len(tokens)
  BY <1>3, PerformsIs
<1>5. /\ x \in 1 .. N /\ p \in 1 .. N + 1 /\ x < p /\ p = nextToken /\ f.node = x /\ f = Done
      /\ tokens' = tokens /\ kinds' = kinds /\ \A i : TokenAt(i)' = TokenAt(i)
  BY <1>3, <1>4, PerformsIs, PerformsThere
<1>6. Touches /\ Steady(E, E)
  BY <1>2, <1>3, Untouched
<1>7. then \in {"none", "next"}
  <2>1. StepAfter(kinds[x], word) = "end"
    BY StepsAfter
  <2>2. StepAfter(kinds[x], word) = "end" => then \in {"none", "next"}
    BY <1>3, PerformsIs
  <2>3. QED
    BY <2>1, <2>2
<1>8. PICK k : k = kinds[x] /\ k = kinds'[x]
  BY <1>5
<1>9. /\ word = "else" => k = "then"
      /\ word = "do" => k = "until"
      /\ word = "as" => k = "import"
      /\ k \notin DOMAIN ChainMargins
  <2>1. k \in Takers(word)
    BY <1>3, <1>8, PerformsIs, ZenonT(30)
  <2>2. /\ word = "else" => k = "then"
        /\ word = "do" => k = "until"
        /\ word = "as" => k = "import"
    BY <2>1, TakersAre
  <2>3. QED
    BY <2>2, TakersAre DEF ChainKinds
<1>10. /\ nodes[x].kind = k /\ nodes[x].next = 0 /\ nodes[x].alt = 0
       /\ word \in {"else", "do"} => nodes[x].sub = x + 1 /\ Alone(E, x + 1, p)
       /\ word = "as" => nodes[x].sub = 0 /\ p = x + 2 /\ TokenAt(x + 1) = "CHAIN"
  <2>1. Stage(E, f, word, p) /\ word # CloseBrace
    BY <1>3, PerformsIs, StepsApart
  <2>2. QED
    BY <1>5, <1>8, <2>1 DEF Stage
<1>11. NextIs(word) => p \in 1 .. N /\ TokenAt(p) = word
  BY <1>4, <1>5 DEF NextIs, AtEnd, TokenAt
<1>12. TokenAt(p) = word => NextIs(word)
  BY <1>4, <1>5 DEF NextIs, AtEnd, TokenAt
<1>13. CASE ~NextIs(word)
  <2>1. frames' = Skip /\ nextToken' = nextToken
    BY <1>1, <1>13
  <2>2. PICK u \in 1 .. N + 1 : u = p /\ u >= p /\ nextToken' = u
    BY <1>5, <2>1
  <2>3. Whole(E, x, u)
    <3>1. CASE word \in {"else", "do"}
      <4>1. WordOf(k) = word /\ k \in {"then", "until"}
        BY <1>9, <3>1 DEF WordOf
      <4>2. u \in 1 .. Len(tokens) + 1 /\ Alone(E, x + 1, u) /\ TokenAt(u) # word
        BY <1>4, <1>10, <1>12, <1>13, <2>2, <3>1
      <4>3. Optioned(E, x, u)
        BY <1>8, <1>10, <3>1, <4>1, <4>2 DEF Optioned
      <4>4. QED
        BY <1>8, <4>1, <4>3 DEF Whole
    <3>2. CASE word = "as"
      <4>1. Imported(E, x, u)
        BY <1>10, <2>2, <3>2 DEF Imported
      <4>2. QED
        BY <1>8, <1>9, <3>2, <4>1 DEF Whole
    <3>3. QED
      BY <3>1, <3>2
  <2>4. Whole(E, x, u)'
    BY <1>2, <1>4, <1>5, <1>6, <2>3, WholeStays
  <2>5. QED
    BY <1>3, <1>4, <1>6, <1>7, <1>8, <1>9, <2>1, <2>2, <2>4, UnitEnds
<1>14. CASE NextIs(word)
  <2>1. PICK s : s = IF word = "as" THEN <<"name", "checkName">> ELSE <<"alt">>
    OBVIOUS
  <2>2. PICK h : h = [f EXCEPT !.todo = s \o @]
    OBVIOUS
  <2>3. nextToken' = p + 1 /\ frames' = ReplaceAt(frames, Len(frames), h)
    BY <1>1, <1>5, <1>14, <2>1, <2>2
  <2>4. PICK q \in 1 .. N + 1 : q = p + 1 /\ q >= p /\ nextToken' = q
    BY <1>11, <1>14, <2>3
  <2>5. PICK first : first = IF word = "as" THEN "name" ELSE "alt"
    OBVIOUS
  <2>6. s \in Seq(StepNames) /\ InOrder(k, s) /\ first = s[1]
    <3>1. PICK a, b : a = "name" /\ b = "checkName"
      OBVIOUS
    <3>2. PICK c : c = "alt"
      OBVIOUS
    <3>3. CASE word = "as"
      <4>1. /\ a \in StepNames /\ a # "next" /\ a # "unexpected" /\ k \in Takers(a)
            /\ b \in StepNames /\ b # "next" /\ b # "unexpected" /\ k \in Takers(b)
            /\ StepAfter(k, a) = b /\ b # "end" /\ StepAfter(k, b) = "end"
        BY <1>9, <3>1, <3>3, TakersAre, StepsAfter DEF StepNames
      <4>2. s = <<a, b>>
        BY <2>1, <3>1, <3>3
      <4>3. s \in Seq(StepNames) /\ InOrder(k, s) /\ s[1] = a
        BY <4>1, <4>2, InOrderTwo
      <4>4. QED
        BY <2>5, <3>1, <3>3, <4>3
    <3>4. CASE word # "as"
      <4>1. /\ c \in StepNames /\ c # "next" /\ c # "unexpected" /\ k \in Takers(c)
            /\ StepAfter(k, c) = "end"
        BY <1>9, <3>2, <3>4, TakersAre, StepsAfter DEF StepNames
      <4>2. s = <<c>>
        BY <2>1, <3>2, <3>4
      <4>3. s \in Seq(StepNames) /\ InOrder(k, s) /\ s[1] = c
        BY <4>1, <4>2, InOrderOne
      <4>4. QED
        BY <2>5, <3>2, <3>4, <4>3
    <3>5. QED
      BY <3>3, <3>4
  <2>7. q - 1 = p /\ TokenAt(p)' = word
    BY <1>5, <1>11, <1>14, <2>4
  <2>8. Stage(E, f, first, q)'
    <3>1. nodes'[x] = nodes[x]
      BY <1>2
    <3>2. CASE word = "as"
      <4>1. first = "name" /\ "name" # CloseBrace
        BY <2>5, <3>2, StepsApart
      <4>2. /\ TokenAt(x + 1)' = "CHAIN" /\ TokenAt(x + 2)' = "as" /\ q = x + 3
        BY <1>5, <1>10, <2>4, <2>7, <3>2
      <4>3. QED
        BY <1>5, <1>8, <1>9, <1>10, <3>1, <4>1, <4>2 DEF Stage
    <3>3. CASE word # "as"
      <4>1. first = "alt" /\ "alt" # CloseBrace
        BY <2>5, <3>3, StepsApart
      <4>2. WordOf(k) = word /\ k \notin {"else", "do"}
        BY <1>9, <3>3 DEF WordOf
      <4>3. Alone(E, x + 1, p)'
        <5>1. p # 0 /\ Alone(E, x + 1, p)
          BY <1>5, <1>10, <3>3
        <5>2. QED
          BY <1>6, <5>1, LinkStays
      <4>4. QED
        BY <1>5, <1>8, <1>9, <1>10, <2>7, <3>1, <3>3, <4>1, <4>2, <4>3 DEF Stage
    <3>4. QED
      BY <3>2, <3>3
  <2>9. InOrder(kinds[x], s)
    BY <1>8, <2>6
  <2>10. QED
    BY <1>2, <1>3, <1>4, <1>7, <2>2, <2>3, <2>4, <2>6, <2>8, <2>9, MoreSteps
<1>15. QED
  BY <1>13, <1>14

LEMMA CheckPathGrows ==
  ASSUME NEW E, Proceeds(E), errors = <<>>, errors' = <<>>, CheckPath
  PROVE  \E F : Growing(F)'
<1>1. Top.todo # <<>> /\ Head(Top.todo) = "checkPath"
  BY DEF CheckPath, Doing
<1>2. PICK x, p, f, step, then : Performs(E, x, p, f, step, then) /\ step = "checkPath"
  BY <1>1, ProceedsIs
<1>3. PICK N \in Nat : N = Len(tokens)
  BY <1>2, PerformsIs
<1>4. /\ x \in 1 .. N /\ p \in 1 .. N + 1 /\ x < p /\ p = nextToken /\ f.node = x /\ x = Top.node
      /\ tokens' = tokens /\ kinds' = kinds /\ \A i : TokenAt(i)' = TokenAt(i)
      /\ Noded /\ TopPlaced /\ StepOf(Top.todo) = "checkPath"
      /\ Top = frames[Len(frames)]
  <2>1. Top = frames[Len(frames)]
    BY DEF Top, Last
  <2>2. QED
    BY <1>2, <1>3, <2>1, PerformsIs, PerformsThere
<1>5. /\ nodes[x].sub = x + 1 /\ x + 1 \in 1 .. N
      /\ nodes[x + 1].kind = kinds[x + 1]
      /\ kinds[x + 1] = "CHAIN" => nextToken = x + 2
  <2>1. PICK at : at = Looked(Top)
    OBVIOUS
  <2>2. at = x + 1
    BY <1>4, <2>1 DEF Looked
  <2>3. /\ nodes[x].sub = at /\ at < nextToken
        /\ nodes[at].kind = kinds[at]
        /\ kinds[at] = "CHAIN" => nextToken = at + 1
    BY <1>4, <2>1 DEF TopPlaced
  <2>4. QED
    BY <1>4, <2>2, <2>3
<1>6. PICK u : u = nodes[x].sub
  OBVIOUS
<1>7. /\ kinds[x + 1] = "CHAIN" /\ frames' = Skip /\ nextToken' = nextToken
      /\ nodes' = [nodes EXCEPT ![x].sub = 0, ![x].chain = nodes[u].chain]
  <2>1. ~Fail("expected chain after import", Top.node)
    BY NoFail
  <2>2. u = x + 1
    BY <1>5, <1>6
  <2>3. QED
    BY <1>4, <1>5, <1>6, <2>1, <2>2 DEF CheckPath
<1>8. /\ \A i \in 1 .. N : i # x => nodes'[i] = nodes[i]
      /\ nodes'[x].kind = nodes[x].kind /\ nodes'[x].next = nodes[x].next
      /\ nodes'[x].sub = 0 /\ nodes'[x].alt = nodes[x].alt
  BY <1>3, <1>4, <1>7 DEF Noded
<1>9. PICK k : k = kinds[x] /\ k = kinds'[x]
  BY <1>4
<1>10. k = "import" /\ k \notin DOMAIN ChainMargins
  <2>1. kinds[x] \in Takers("checkPath")
    BY <1>2, PerformsIs
  <2>2. k = "import"
    BY <1>9, <2>1, TakersAre
  <2>3. QED
    BY <2>2, TakersAre DEF ChainKinds
<1>11. nodes[x].kind = k /\ nodes[x].next = 0 /\ nodes[x].alt = 0
  <2>1. Stage(E, f, "checkPath", p)
    BY <1>2, PerformsIs
  <2>2. QED
    BY <1>4, <1>9, <2>1 DEF Stage
<1>12. Touches
  <2>1. 0 \in 0 .. N
    BY <1>3
  <2>2. QED
    BY <1>2, <1>3, <1>8, <1>11, <2>1, TouchesTop
<1>13. then = "as" /\ "as" # CloseBrace
  <2>1. StepAfter(kinds[x], "checkPath") = "as"
    BY StepsAfter
  <2>2. StepAfter(kinds[x], "checkPath") # "end" => then = StepAfter(kinds[x], "checkPath")
    BY <1>2, PerformsIs
  <2>3. QED
    BY <2>1, <2>2, StepsApart
<1>14. PICK q \in 1 .. N + 1 : q = p /\ q >= p /\ nextToken' = q
  BY <1>4, <1>7
<1>15. TokenAt(x + 1)' = "CHAIN" /\ q = x + 2
  <2>1. TokenAt(x + 1) = "CHAIN"
    BY <1>3, <1>5, <1>7 DEF TokenAt
  <2>2. QED
    BY <1>4, <1>5, <1>7, <1>14, <2>1
<1>16. Stage(E, f, then, q)'
  BY <1>4, <1>8, <1>9, <1>10, <1>11, <1>13, <1>15 DEF Stage
<1>17. QED
  BY <1>2, <1>3, <1>7, <1>12, <1>14, <1>16, StepsOn

LEMMA CheckNameGrows ==
  ASSUME NEW E, Proceeds(E), errors = <<>>, errors' = <<>>, CheckName
  PROVE  \E F : Growing(F)'
<1>1. Top.todo # <<>> /\ Head(Top.todo) = "checkName"
  BY DEF CheckName, Doing
<1>2. PICK x, p, f, step, then : Performs(E, x, p, f, step, then) /\ step = "checkName"
  BY <1>1, ProceedsIs
<1>3. PICK N \in Nat : N = Len(tokens)
  BY <1>2, PerformsIs
<1>4. /\ x \in 1 .. N /\ p \in 1 .. N + 1 /\ x < p /\ p = nextToken /\ f.node = x /\ x = Top.node
      /\ tokens' = tokens /\ kinds' = kinds
      /\ Noded /\ TopPlaced /\ StepOf(Top.todo) = "checkName"
      /\ Top = frames[Len(frames)]
  <2>1. Top = frames[Len(frames)]
    BY DEF Top, Last
  <2>2. QED
    BY <1>2, <1>3, <2>1, PerformsIs, PerformsThere
<1>5. PICK at : at = x + 3
  OBVIOUS
<1>6. /\ nodes[x].sub = at /\ at \in 1 .. N
      /\ nodes[at].kind = kinds[at]
      /\ kinds[at] = "CHAIN" => nextToken = x + 4
  <2>1. at = Looked(Top)
    BY <1>4, <1>5 DEF Looked
  <2>2. /\ nodes[x].sub = at /\ at < nextToken
        /\ nodes[at].kind = kinds[at]
        /\ kinds[at] = "CHAIN" => nextToken = at + 1
    BY <1>4, <2>1 DEF TopPlaced
  <2>3. QED
    BY <1>4, <1>5, <2>2
<1>7. kinds[at] = "CHAIN" /\ frames' = Skip /\ nextToken' = nextToken /\ nodes' = nodes
  <2>1. ~Fail("expected identifier after import as", Top.node)
    BY NoFail
  <2>2. at # 0
    BY <1>6
  <2>3. QED
    BY <1>4, <1>6, <2>1, <2>2 DEF CheckName
<1>8. Touches /\ Steady(E, E)
  BY <1>2, <1>7, Untouched
<1>9. kinds[x] = "import" /\ kinds[x] \notin DOMAIN ChainMargins
  <2>1. kinds[x] \in Takers("checkName")
    BY <1>2, PerformsIs
  <2>2. kinds[x] = "import"
    BY <2>1, TakersAre
  <2>3. QED
    BY <2>2, TakersAre DEF ChainKinds
<1>10. TokenAt(x + 1) = "CHAIN" /\ TokenAt(x + 2) = "as" /\ Alone(E, x + 3, p)
  <2>1. Stage(E, f, "checkName", p)
    BY <1>2, PerformsIs
  <2>2. QED
    BY <1>4, <2>1 DEF Stage
<1>11. then \in {"none", "next"}
  <2>1. StepAfter(kinds[x], "checkName") = "end"
    BY StepsAfter
  <2>2. StepAfter(kinds[x], "checkName") = "end" => then \in {"none", "next"}
    BY <1>2, PerformsIs
  <2>3. QED
    BY <2>1, <2>2
<1>12. PICK u \in 1 .. N + 1 : u = p /\ u >= p /\ nextToken' = u
  BY <1>4, <1>7
<1>13. Whole(E, x, u)
  <2>1. TokenAt(x + 3) = "CHAIN"
    BY <1>3, <1>5, <1>6, <1>7 DEF TokenAt
  <2>2. u = x + 4 /\ nodes[x].sub = x + 3
    BY <1>4, <1>5, <1>6, <1>7, <1>12
  <2>3. Imported(E, x, u)
    BY <1>10, <1>12, <2>1, <2>2 DEF Imported
  <2>4. QED
    BY <1>9, <2>3 DEF Whole
<1>14. Whole(E, x, u)'
  BY <1>3, <1>4, <1>7, <1>8, <1>13, WholeStays
<1>15. QED
  BY <1>2, <1>3, <1>7, <1>8, <1>9, <1>11, <1>12, <1>14, UnitEnds

\* The tree grows with every step of fpParseBody that meets no error.
LEMMA BodyGrows ==
  ASSUME NEW E, Proceeds(E), errors = <<>>, errors' = <<>>, fpParseBody
  PROVE  \E F : Growing(F)'
<1>1. \/ Chain \/ Signature \/ SigBinds \/ Units \/ Expect \/ Operand \/ Optional
      \/ ImportPath \/ CheckPath \/ CheckName \/ Unexpected \/ NextUnit \/ Return
  BY DEF fpParseBody
<1>2. ~Unexpected
  BY NoFail DEF Unexpected
<1>3. CASE Return
  <2>1. PICK g, P, G : Held(g, P, G)
    BY DEF Proceeds
  <2>2. frames # <<>> /\ Growing(E) /\ UNCHANGED <<source, tokens, kinds>>
    BY DEF Proceeds
  <2>3. Top.todo = <<>> /\ ReturnWith(Top.node, nodes)
    BY <1>3 DEF Return
  <2>4. CASE Len(frames) = 1
    BY <2>1, <2>2, <2>3, <2>4, TreeRoots
  <2>5. CASE Len(frames) # 1
    BY <2>1, <2>2, <2>3, <2>5, TreeReturns
  <2>6. QED
    BY <2>4, <2>5
<1>4. QED
  BY <1>1, <1>2, <1>3, ChainGrows, SignatureGrows, BindsGrows, UnitsGrows, ExpectGrows,
     OperandGrows, OptionalGrows, CheckPathGrows, CheckNameGrows, NextUnitGrows

\* Before the first call there is no node.
LEMMA ClassifyGrows ==
  ASSUME Len(tokens) \in Nat, fpClassifyTokens, nextToken = 1, frames = <<>>, root = 0
  PROVE  \E F : Growing(F)'
<1>1. PICK N \in Nat : N = Len(tokens)
  OBVIOUS
<1>2. PICK E : E = [i \in 1 .. N |-> 0]
  OBVIOUS
<1>3. /\ nodes' = [i \in 1 .. N |-> NoNode] /\ tokens' = tokens /\ nextToken' = 1
      /\ frames' = <<>> /\ root' = 0
  BY <1>1 DEF fpClassifyTokens
<1>4. \A i \in 1 .. N : /\ nodes'[i] = NoNode /\ nodes'[i].kind = "none" /\ nodes'[i].sub = 0
                        /\ nodes'[i].alt = 0 /\ nodes'[i].next = 0 /\ E[i] = 0
  BY <1>2, <1>3 DEF NoNode
<1>5. Len(tokens)' = N /\ Len(frames') = 0
  BY <1>1, <1>3
<1>6. ASSUME NEW i \in 1 .. N
      PROVE  Grows(E, i)'
  <2>1. {nodes'[i].sub, nodes'[i].alt, nodes'[i].next} \subseteq 0 .. Len(tokens)'
    BY <1>1, <1>4, <1>5
  <2>2. QED
    BY <1>4, <2>1 DEF Grows
<1>7. E \in [1 .. N -> 0 .. N + 1]
  BY <1>1, <1>2
<1>8. Growing(E)'
  <2>1. /\ \A k \in 1 .. Len(frames') : FALSE
        /\ \A k \in 1 .. Len(frames') - 1 : FALSE
    BY <1>5
  <2>2. nextToken' \in 1 .. Len(tokens)' + 1 /\ ~(nextToken' > 1)
    BY <1>1, <1>3, <1>5
  <2>3. QED
    BY <1>3, <1>5, <1>6, <1>7, <2>1, <2>2 DEF Growing
<1>9. QED
  BY <1>8

\* A signature is inside its braces.
LEMMA SignsInside ==
  ASSUME NEW E, NEW N \in Nat, N = Len(tokens), NEW i \in 1 .. N, nodes[i].kind \in Braces,
         Signs(i), NEW e, Rule(E, i, e)
  PROVE  i < N
<1>1. kinds[i] \in Braces /\ nodes[i].sub # 0
  BY DEF Rule, Signs
<1>2. PICK u : Whole(E, i, u)
  BY DEF Rule
<1>3. PICK k : k = kinds[i]
  OBVIOUS
<1>4. k \notin Literals \cup ChainKinds \cup Applied \cup
               {"(", "CHAIN(", "then", "until", "else", "do", "import"}
  BY <1>1, <1>3, PlainKinds, WordsApart DEF Applied
<1>5. Inner(E, i, u - 1)
  BY <1>2, <1>3, <1>4 DEF Whole
<1>6. CASE \E q \in {i + 1} \cup {r \in {i + 2} : TokenAt(i + 1) = "=>"} :
             Linked(E, nodes[i].sub, q, u - 1)
  <2>1. PICK q \in {i + 1, i + 2} : q \in 1 .. N
    BY <1>1, <1>6 DEF Linked, Grown
  <2>2. QED
    BY <2>1
<1>7. CASE \E z \in i + 1 .. Len(tokens) : TRUE
  BY <1>7
<1>8. QED
  BY <1>5, <1>6, <1>7 DEF Inner

\* When every token is read and no call is left, the tree is finished.
LEMMA GrownUp ==
  ASSUME NEW E, Growing(E), frames = <<>>, AtEnd, Noded, Len(tokens) \in Nat,
         tokens = <<>> <=> Len(tokens) = 0
  PROVE  Finished(E)
<1>1. PICK N \in Nat : N = Len(tokens)
  OBVIOUS
<1>2. nextToken = N + 1
  BY <1>1 DEF Growing, AtEnd
<1>3. \A i \in 1 .. N : Grows(E, i)
  BY <1>1 DEF Growing
<1>4. Len(frames) = 0
  OBVIOUS
<1>5. ASSUME NEW i \in 1 .. N
      PROVE  /\ E[i] # 0 => E[i] \in i + 1 .. N + 1 /\ Rule(E, i, E[i])
             /\ nodes[i].kind = "SIGBIND" => kinds[i] = "CHAIN"
             /\ nodes[i].kind \in {"none", "SIGBIND"} \/ E[i] # 0
             /\ i > 1 /\ nodes[i].kind = "SIGBIND" /\ nodes[i - 1].kind = "SIGBIND" =>
                  nodes[i].next = i - 1
             /\ nodes[i].sub \in 0 .. N /\ nodes[i].alt \in 0 .. N /\ nodes[i].next \in 0 .. N
  <2>1. Grows(E, i)
    BY <1>3
  <2>2. QED
    BY <1>1, <1>2, <1>4, <2>1 DEF Grows
<1>6. ASSUME NEW i \in 1 .. N, nodes[i].kind \in Braces, Signs(i)
      PROVE  i < N
  <2>1. nodes[i].kind \notin {"none", "SIGBIND"}
    BY <1>6, WordsApart DEF Braces
  <2>2. Rule(E, i, E[i])
    BY <1>5, <2>1
  <2>3. PICK e : e = E[i]
    OBVIOUS
  <2>4. Rule(E, i, e)
    BY <2>2, <2>3
  <2>5. QED
    BY <1>1, <1>6, <2>4, SignsInside
<1>7. Linkable(N)
  BY <1>1, <1>5, <1>6 DEF Linkable, Noded
<1>8. Complete(E, N)
  BY <1>5, <1>7 DEF Complete
<1>9. IF tokens = <<>> THEN root = 0 ELSE root = 1 /\ E[1] = N + 1
  <2>1. IF nextToken > 1 THEN root = 1 /\ E[1] = nextToken ELSE root = 0
    BY DEF Growing
  <2>2. nextToken > 1 <=> tokens # <<>>
    BY <1>1, <1>2
  <2>3. QED
    BY <1>2, <2>1, <2>2
<1>10. QED
  BY <1>1, <1>5, <1>8, <1>9 DEF Finished

LEMMA SameGrowing ==
  ASSUME NEW E, Growing(E),
         UNCHANGED <<source, tokens, kinds, nextToken, frames, nodes, root>>
  PROVE  Growing(E)'
<1>1. \A i : (TokenAt(i)' = TokenAt(i)) /\ (Lexeme(i)' = Lexeme(i))
  BY SameText DEF TokenAt
<1>2. \A p, q : (Grown(E, p, q)' <=> Grown(E, p, q))
  BY DEF Grown
<1>3. /\ \A link, p, q : (Linked(E, link, p, q)' <=> Linked(E, link, p, q))
      /\ \A p, q : (Alone(E, p, q)' <=> Alone(E, p, q))
  BY <1>2 DEF Linked, Alone
<1>4. \A x : (Chained(x)' <=> Chained(x))
  BY <1>1 DEF Chained
<1>5. \A x, p : (Inner(E, x, p)' <=> Inner(E, x, p))
  BY <1>1, <1>3 DEF Inner
<1>6. \A x, u : (Optioned(E, x, u)' <=> Optioned(E, x, u))
  BY <1>1, <1>3 DEF Optioned
<1>7. \A x, u : (Imported(E, x, u)' <=> Imported(E, x, u))
  BY <1>1, <1>3 DEF Imported
<1>8. \A x, u : (Whole(E, x, u)' <=> Whole(E, x, u))
  BY <1>1, <1>3, <1>5, <1>6, <1>7 DEF Whole
<1>9. \A x, e : (Rule(E, x, e)' <=> Rule(E, x, e))
  BY <1>3, <1>4, <1>8 DEF Rule
<1>10. \A f, q : (Names(f, q)' <=> Names(f, q))
  BY <1>1 DEF Names
<1>11. \A f, step, p : (Stage(E, f, step, p)' <=> Stage(E, f, step, p))
  BY <1>1, <1>3, <1>4, <1>5, <1>8, <1>9, <1>10 DEF Stage
<1>12. \A k : (Waits(E, k)' <=> Waits(E, k))
  BY <1>11 DEF Waits
<1>13. \A i : (Grows(E, i)' <=> Grows(E, i))
  BY <1>9 DEF Grows
<1>14. QED
  BY <1>11, <1>12, <1>13 DEF Growing

\* The parser has no result before it is done, and while it has found no error
\* the tree grows.
TreeInv ==
  /\ SyntaxInv
  /\ phase # "done" => result = "none"
  /\ phase \in {"tokenize", "classify"} => root = 0
  /\ phase = "parse" /\ errors = <<>> => \E E : Growing(E)
  /\ result = "block" => Worded /\ \E E : Finished(E)

LEMMA FinishedStays ==
  ASSUME NEW E, Finished(E), Len(tokens) \in Nat, UNCHANGED <<source, tokens, kinds, nodes, root>>
  PROVE  Finished(E)'
<1>1. PICK N \in Nat : N = Len(tokens)
  OBVIOUS
<1>2. Steady(E, E)
  BY DEF Steady
<1>3. Linkable(N)'
  BY <1>1 DEF Finished, Complete, Linkable, Signs
<1>4. ASSUME NEW i \in 1 .. N, E[i] # 0
      PROVE  E[i] \in i + 1 .. N + 1 /\ Rule(E, i, E[i])'
  <2>1. E[i] \in i + 1 .. N + 1 /\ Rule(E, i, E[i])
    BY <1>1, <1>4 DEF Finished, Complete
  <2>2. PICK e \in 1 .. N + 1 : e = E[i]
    BY <1>1, <2>1
  <2>3. Rule(E, i, e)'
    BY <1>1, <1>2, <2>1, <2>2, RuleStays
  <2>4. QED
    BY <2>1, <2>2, <2>3
<1>5. Complete(E, N)'
  BY <1>1, <1>3, <1>4 DEF Finished, Complete
<1>6. QED
  BY <1>1, <1>5 DEF Finished

\* While the program is read.
LEMMA TreeStep ==
  ASSUME TreeInv, BeginProgram \/ fpParseBody, SyntaxInv'
  PROVE  TreeInv'
<1>1. /\ phase = "parse" /\ phase' = "parse" /\ result' = result
      /\ UNCHANGED <<source, tokens, kinds>>
  BY DEF BeginProgram, fpParseBody
<1>2. result = "none" /\ Progress /\ SyntaxInv
  BY <1>1 DEF TreeInv, SyntaxInv, ReadInv, LexInv
<1>3. result' # "block"
  BY <1>1, <1>2
<1>4. ASSUME errors' = <<>>
      PROVE  \E F : Growing(F)'
  <2>1. errors = <<>>
    <3>1. PICK S : errors \in Seq(S)
      BY DEF TreeInv, SyntaxInv, ReadInv, Listed
    <3>2. errors' = errors \/ \E x : errors' = Append(errors, x)
      <4>1. CASE BeginProgram
        BY <4>1, Zenon DEF BeginProgram, CallBody
      <4>2. CASE fpParseBody
        BY <4>2, ErrorsGrow
      <4>3. QED
        BY <4>1, <4>2
    <3>3. \A x : Append(errors, x) # <<>>
      BY <3>1, AppendSome
    <3>4. QED
      BY <1>4, <3>2, <3>3
  <2>2. Worded /\ Noded /\ Reads
    BY <1>1, <1>2, <2>1 DEF SyntaxInv
  <2>3. PICK E : Growing(E)
    BY <1>1, <2>1 DEF TreeInv
  <2>4. Len(tokens) \in Nat
    BY <1>2, LenProperties DEF Progress
  <2>5. CASE BeginProgram
    <3>1. /\ frames = <<>> /\ nextToken = 1 /\ fpHasNextUnit
          /\ CallBody(<<>>, FALSE, "root")
      BY <2>5 DEF BeginProgram
    <3>2. ~AtEnd
      BY <3>1, Zenon DEF fpHasNextUnit
    <3>3. Growing(E)'
      BY <1>1, <2>2, <2>3, <2>4, <3>1, <3>2, TreeBegins
    <3>4. QED
      BY <3>3
  <2>6. CASE fpParseBody
    <3>1. frames # <<>>
      BY <2>6 DEF fpParseBody
    <3>2. \E g, P, G : Held(g, P, G)
      BY <2>2, <3>1 DEF Reads
    <3>3. Proceeds(E)
      BY <1>1, <2>3, <3>1, <3>2 DEF Proceeds
    <3>4. QED
      BY <1>4, <2>1, <2>6, <3>3, BodyGrows
  <2>7. QED
    BY <2>5, <2>6
<1>5. phase' = "parse" /\ errors' = <<>> => (\E E : Growing(E))'
  BY <1>4
<1>6. QED
  BY <1>1, <1>2, <1>3, <1>5 DEF TreeInv

LEMMA TreeEnds ==
  ASSUME TreeInv, EndProgram, SyntaxInv'
  PROVE  TreeInv'
<1>1. /\ phase = "parse" /\ phase' = "done" /\ frames = <<>>
      /\ UNCHANGED <<source, tokens, kinds, nodes, root>>
      /\ result' = IF errors' = <<>> THEN "block" ELSE "error"
      /\ errors' = IF AtEnd THEN errors
                   ELSE Append(errors, ErrorAt("unexpected token", nextToken))
  BY DEF EndProgram
<1>2. Progress /\ Progress' /\ SyntaxInv
  BY DEF TreeInv, SyntaxInv, ReadInv, LexInv
<1>3. Len(tokens) \in Nat /\ (tokens = <<>> <=> Len(tokens) = 0)
  BY <1>2, LenProperties, EmptySeq DEF Progress
<1>4. CASE result' = "block"
  <2>1. AtEnd /\ errors = <<>>
    <3>1. PICK S : errors \in Seq(S)
      BY DEF TreeInv, SyntaxInv, ReadInv, Listed
    <3>2. \A x : Append(errors, x) # <<>>
      BY <3>1, AppendSome
    <3>3. QED
      BY <1>1, <1>4, <3>2
  <2>2. Worded /\ Noded
    BY <1>1, <1>2, <2>1 DEF SyntaxInv
  <2>3. PICK E : Growing(E)
    BY <1>1, <2>1 DEF TreeInv
  <2>4. Finished(E)
    BY <1>1, <1>3, <2>1, <2>2, <2>3, GrownUp
  <2>5. (\E F : Finished(F))'
    <3>1. Finished(E)'
      BY <1>1, <1>3, <2>4, FinishedStays
    <3>2. QED
      BY <3>1
  <2>6. Worded'
    BY <1>1, <2>2, SameText
  <2>7. QED
    BY <1>1, <2>5, <2>6 DEF TreeInv
<1>5. CASE result' # "block"
  BY <1>1, <1>5 DEF TreeInv
<1>6. QED
  BY <1>4, <1>5

LEMMA TreeKeeps == TreeInv /\ [Next]_vars => TreeInv'
<1> SUFFICES ASSUME TreeInv, [Next]_vars
             PROVE  TreeInv'
  OBVIOUS
<1>1. SyntaxInv /\ SyntaxInv' /\ Progress
  BY SyntaxStep DEF TreeInv, SyntaxInv, ReadInv, LexInv
<1>2. CASE fpTokenize /\ UNCHANGED rvars
  <2>1. phase = "tokenize" /\ phase' \in {"tokenize", "classify"}
    BY <1>1, <1>2, LexicalOnly DEF fpTokenize, SyntaxInv, ReadInv
  <2>2. result' = "none" /\ root' = 0
    BY <1>2, <2>1 DEF TreeInv, rvars
  <2>3. QED
    BY <1>1, <2>1, <2>2 DEF TreeInv
<1>3. CASE fpClassifyTokens
  <2>1. /\ phase = "classify" /\ phase' \in {"parse", "done"}
        /\ phase' = "parse" => UNCHANGED result
        /\ phase' = "done" => result' = "error"
    BY <1>3 DEF fpClassifyTokens
  <2>2. result = "none" /\ root = 0 /\ nextToken = 1 /\ frames = <<>>
    BY <1>1, <2>1 DEF TreeInv, SyntaxInv
  <2>3. Len(tokens) \in Nat
    BY <1>1, LenProperties DEF Progress
  <2>4. PICK E : Growing(E)'
    BY <1>3, <2>2, <2>3, ClassifyGrows
  <2>5. (\E F : Growing(F))'
    BY <2>4
  <2>6. result' # "block"
    BY <2>1, <2>2
  <2>7. QED
    BY <1>1, <2>1, <2>2, <2>5, <2>6 DEF TreeInv
<1>4. CASE BeginProgram \/ fpParseBody
  BY <1>1, <1>4, TreeStep
<1>5. CASE EndProgram
  BY <1>1, <1>5, TreeEnds
<1>6. CASE UNCHANGED vars
  <2>1. /\ UNCHANGED <<source, tokens, kinds, nextToken, frames, nodes, root>>
        /\ UNCHANGED <<errors, phase, result>>
    BY <1>6 DEF vars, tvars, rvars
  <2>2. ASSUME result' = "block"
        PROVE  Worded' /\ (\E E : Finished(E))'
    <3>1. PICK E : Worded /\ Finished(E)
      BY <2>1, <2>2 DEF TreeInv
    <3>2. Len(tokens) \in Nat
      BY <1>1, LenProperties DEF Progress
    <3>3. Worded' /\ Finished(E)'
      BY <2>1, <3>1, <3>2, FinishedStays, SameText
    <3>4. QED
      BY <3>3
  <2>3. ASSUME phase' = "parse", errors' = <<>>
        PROVE  (\E E : Growing(E))'
    <3>1. PICK E : Growing(E)
      BY <2>1, <2>3 DEF TreeInv
    <3>2. Growing(E)'
      BY <2>1, <3>1, SameGrowing
    <3>3. QED
      BY <3>2
  <2>4. QED
    BY <1>1, <2>1, <2>2, <2>3 DEF TreeInv
<1>7. QED
  BY <1>2, <1>3, <1>4, <1>5, <1>6 DEF Next, fpParse

\* Whatever the program, the tree of the block fpParse returns, written back,
\* is the program: each token once, in its order and under the construct it
\* belongs to, with its chain, its signature bound from the last name to the
\* first, and its else or do (parser.c, fpParse, fpParseBody).
THEOREM TreeIsTheProgram == Spec => []TreeIsProgram
<1>1. ReaderInit => TreeInv
  <2> SUFFICES ASSUME ReaderInit
               PROVE  TreeInv
    OBVIOUS
  <2>1. /\ phase = "tokenize" /\ errors = <<>> /\ nextToken = 1 /\ frames = <<>>
        /\ root = 0 /\ result = "none"
    BY DEF ReaderInit, TokenizerInit
  <2>2. SyntaxInv
    BY <2>1, ReadInvInit DEF SyntaxInv, AcceptsGrammar
  <2>3. QED
    BY <2>1, <2>2 DEF TreeInv
<1>2. TreeInv => TreeIsProgram
  <2> SUFFICES ASSUME TreeInv, result = "block"
               PROVE  TreeIsProgram
    BY DEF TreeIsProgram
  <2>1. PICK E : Worded /\ Finished(E)
    BY DEF TreeInv
  <2>2. Progress
    BY DEF TreeInv, SyntaxInv, ReadInv, LexInv
  <2>3. QED
    BY <2>1, <2>2, FinishedIsProgram
<1>3. QED
  BY <1>1, <1>2, TreeKeeps, PTL DEF Spec

=============================================================================

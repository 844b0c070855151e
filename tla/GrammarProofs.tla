--------------------------- MODULE GrammarProofs ---------------------------
(***************************************************************************)
(* Theorems about module Grammar, for every text.                          *)
(*                                                                         *)
(* A call of fpParseBody is followed by the set of places where its unit   *)
(* may still end for the calls around it to go on (Tracks): the places     *)
(* from which its steps, read backwards, end in the set of the call        *)
(* before it (Left).  The invariant is that the next token is in the set   *)
(* of the innermost call exactly when the tokens are a program; each step  *)
(* of the parser moves the token and the set together (the lemmas Goes).   *)
(***************************************************************************)
EXTENDS Grammar, ReaderProofs

\* The SMT backend has no name for a brace in quotes: these have.
CloseBrace == "}"
Brackets   == {CloseBrace, ")"}
Braces     == {"{", ":{"}

Kind(g, p) == IF p \in 1 .. g.count THEN g.kind[p] ELSE "end"
Unit(g, p) == IF p \in 1 .. g.count THEN g.at[p].unit ELSE {}
Body(g, p) == IF p \in 1 .. g.count THEN g.at[p].body ELSE {}

Language == [count  |-> Len(tokens), kind |-> kinds,
             simple |-> {i \in 1 .. Len(tokens) : Simple(i)}, at |-> Spans]

\* The first token from p on that is no name.
AfterNames(g, p) == Min({j \in p .. g.count + 1 : Kind(g, j) # "CHAIN"})

\* Where a step of a call for node n may end that begins at p.
Ends(g, step, n, p) ==
  CASE step \in {"chain", "binds"} -> {p}
    [] step \in {"sub", "alt"}     -> Unit(g, p)
    [] step \in {"body", "next"}   -> {p} \cup Body(g, p)
    [] step \in Brackets           -> {q \in {p + 1} : Kind(g, p) = step}
    [] step = "sig"  -> {IF Kind(g, AfterNames(g, p)) = "=>" THEN AfterNames(g, p) + 1 ELSE p}
    [] step \in {"else", "do"} -> {p} \cup {q \in Unit(g, p + 1) : Kind(g, p) = step}
    [] step \in {"path", "name"} -> {q \in {p + 1} : Kind(g, p) = "CHAIN"}
    [] step = "checkPath" -> {q \in {p} : Kind(g, n + 1) = "CHAIN"}
    [] step = "as" -> IF Kind(g, p) = "as"
                      THEN {q \in {p + 2} : Kind(g, p + 1) = "CHAIN" /\ p + 1 \in g.simple}
                      ELSE {p}
    [] step = "checkName" -> {q \in {p} : Kind(g, n + 3) = "CHAIN" /\ n + 3 \in g.simple}
    [] OTHER -> {}

Enders == Brackets \cup {"end"}
Places(g) == 1 .. g.count + 1
Before(g, step, n, X) == {p \in Places(g) : Ends(g, step, n, p) \cap X # {}}

\* The places from which the steps of todo end in X.
Left(g, todo, n, X) ==
  LET from[k \in 0 .. Len(todo)] ==
        IF k = 0 THEN X ELSE Before(g, todo[Len(todo) + 1 - k], n, from[k - 1])
  IN  from[Len(todo)]

Has(todo, step) == \E j \in 1 .. Len(todo) : todo[j] = step

Calls   == {"sub", "alt", "body", "next"}
Closing == Brackets \cup {"else", "do", "next", "binds"}

Shaped(todo) ==
  \A j \in 1 .. Len(todo) :
    /\ todo[j] \in Calls \cup {"else", "do", "as"} =>
         \A i \in j + 1 .. Len(todo) : todo[i] \in Closing
    /\ todo[j] = "next" => j = Len(todo)
    /\ todo[j] = "body" =>
         \/ j + 1 <= Len(todo) /\ todo[j + 1] \in Brackets
         \/ j + 2 <= Len(todo) /\ todo[j + 1] = "binds" /\ todo[j + 2] \in Brackets
    /\ j < Len(todo) =>
         /\ todo[j] = "path" <=> todo[j + 1] = "checkPath"
         /\ todo[j] = "checkPath" <=> todo[j + 1] = "as"
         /\ todo[j] = "name" <=> todo[j + 1] = "checkName"
         /\ todo[j + 1] \notin {"path", "name"}
    /\ todo[j] \in {"path", "name"} => j < Len(todo)

\* A call is the leaf it reads.
Leaf(k) ==
  /\ k = Len(frames)
  /\ nextToken = frames[k].node + 1
  /\ \/ frames[k].todo = <<"chain">>
     \/ /\ frames[k].todo = <<>>
        /\ nodes[frames[k].node].chain = ChainElems(Lexeme(frames[k].node))

Framed(k) ==
  LET f == frames[k]
  IN /\ f.node \in 1 .. Len(tokens) /\ f.node < nextToken
     /\ Shaped(f.todo)
     /\ Has(f.todo, "chain") => kinds[f.node] \in DOMAIN ChainMargins
     /\ f.sigBegin > f.node \/ f.sigEnd <= f.sigBegin
     /\ nodes[f.node].kind = kinds[f.node]
     /\ f.into = "root" <=> k = 1

StepOf(todo) == IF todo = <<>> THEN "none" ELSE todo[1]

\* The place of the token whose unit a step of an import looks at.
Looked(f) == f.node + (IF StepOf(f.todo) \in {"path", "checkPath"} THEN 1 ELSE 3)

CallerOf(k) ==
  LET f == frames[k]
      d == frames[k + 1]
  IN /\ f.node < d.node
     /\ IF StepOf(f.todo) \in {"checkPath", "checkName"}
        THEN /\ d.node = Looked(f) /\ d.into = "sub"
             /\ kinds[Looked(f)] = "CHAIN" => Leaf(k + 1)
        ELSE \A j \in 1 .. Len(f.todo) : f.todo[j] \in Closing

TopPlaced ==
  LET f == frames[Len(frames)]
      at == Looked(f)
  IN /\ StepOf(f.todo) \in {"path", "name"} => nextToken = at
     /\ StepOf(f.todo) = "as" => nextToken = f.node + 2
     /\ StepOf(f.todo) \in {"checkPath", "checkName"} =>
          /\ nodes[f.node].sub = at /\ at < nextToken
          /\ nodes[at].kind = kinds[at]
          /\ kinds[at] = "CHAIN" => /\ nextToken = at + 1
                                    /\ nodes[at].chain = ChainElems(Lexeme(at))

Framing == /\ \A k \in 1 .. Len(frames) : Framed(k)
           /\ \A k \in 1 .. Len(frames) - 1 : CallerOf(k)
           /\ frames # <<>> => TopPlaced

Tracks(g, G) ==
  /\ G[0] = {g.count + 1}
  /\ \A k \in 1 .. Len(frames) :
       /\ G[k] = Left(g, frames[k].todo, frames[k].node, G[k - 1])
       /\ Has(frames[k].todo, "next") => \A q \in G[k - 1] : Kind(g, q) \in Enders

-----------------------------------------------------------------------------
(* The places that are left.                                               *)

IsLeft(f, g, todo, n, X) ==
  f = [k \in 0 .. Len(todo) |->
         IF k = 0 THEN X ELSE Before(g, todo[Len(todo) + 1 - k], n, f[k - 1])]

LEMMA LeftIs ==
  ASSUME NEW g, NEW todo, Len(todo) \in Nat, NEW n, NEW X
  PROVE  \E f : IsLeft(f, g, todo, n, X) /\ Left(g, todo, n, X) = f[Len(todo)]
<1> DEFINE N == Len(todo)
           V == (SUBSET Places(g)) \cup {X}
           F == [k \in 1 .. N |-> [Y \in V |-> Before(g, todo[N + 1 - k], n, Y)]]
           f == CHOOSE f : IsLeft(f, g, todo, n, X)
<1>1. Steps(F, N, V)
  <2>1. \A k, Y : Before(g, todo[N + 1 - k], n, Y) \in V
    BY DEF Before
  <2> HIDE DEF V
  <2>2. QED
    BY <2>1 DEF Steps
<1>2. \E h : IsLeft(h, g, todo, n, X)
  <2>1. X \in V
    OBVIOUS
  <2> HIDE DEF V, F
  <2>2. PICK h \in [0 .. N -> V] : Iterates(h, F, X, N)
    BY <1>1, <2>1, IterationExists
  <2>3. ASSUME NEW k \in 1 .. N
        PROVE  h[k] = Before(g, todo[N + 1 - k], n, h[k - 1])
    <3>1. k - 1 \in 0 .. N
      OBVIOUS
    <3>2. h[k - 1] \in V /\ h[k] = F[k][h[k - 1]]
      BY <2>2, <3>1 DEF Iterates
    <3>3. QED
      BY <3>2 DEF F
  <2>4. \A k \in 0 .. N : k = 0 \/ k \in 1 .. N
    OBVIOUS
  <2>5. h = [k \in 0 .. N |-> IF k = 0 THEN X ELSE Before(g, todo[N + 1 - k], n, h[k - 1])]
    BY <2>2, <2>3, <2>4 DEF Iterates
  <2>6. QED
    BY <2>5, Zenon DEF IsLeft
<1>3. IsLeft(f, g, todo, n, X)
  BY <1>2
<1>4. Left(g, todo, n, X) = f[N]
  BY Zenon DEF Left, IsLeft
<1>5. QED
  BY <1>3, <1>4

LEMMA LeftNil ==
  ASSUME NEW g, NEW n, NEW X
  PROVE  Left(g, <<>>, n, X) = X
<1>1. Len(<<>>) = 0
  OBVIOUS
<1>2. PICK f : IsLeft(f, g, <<>>, n, X) /\ Left(g, <<>>, n, X) = f[0]
  BY <1>1, LeftIs
<1>3. 0 \in 0 .. Len(<<>>)
  BY <1>1
<1>4. QED
  BY <1>2, <1>3 DEF IsLeft

LEMMA LeftCons ==
  ASSUME NEW g, NEW S, NEW todo \in Seq(S), todo # <<>>, NEW n, NEW X
  PROVE  Left(g, todo, n, X) = Before(g, Head(todo), n, Left(g, Tail(todo), n, X))
<1> DEFINE rest == Tail(todo)
           N == Len(rest)
<1>1. /\ rest \in Seq(S) /\ N \in Nat /\ Len(todo) = N + 1
      /\ \A i \in 1 .. N : rest[i] = todo[i + 1]
      /\ Head(todo) = todo[1]
  BY HeadTailProperties, LenProperties
<1> HIDE DEF rest
<1>2. PICK f : IsLeft(f, g, todo, n, X) /\ Left(g, todo, n, X) = f[N + 1]
  BY <1>1, LeftIs
<1>3. PICK h : IsLeft(h, g, rest, n, X) /\ Left(g, rest, n, X) = h[N]
  BY <1>1, LeftIs
<1>4. \A k \in 0 .. N + 1 :
        f[k] = IF k = 0 THEN X ELSE Before(g, todo[N + 2 - k], n, f[k - 1])
  <2>1. \A k \in 0 .. N + 1 : k \in 0 .. Len(todo) /\ Len(todo) + 1 - k = N + 2 - k
    BY <1>1
  <2> HIDE DEF N
  <2>2. QED
    BY <1>2, <2>1 DEF IsLeft
<1>5. \A k \in 0 .. N :
        h[k] = IF k = 0 THEN X ELSE Before(g, rest[N + 1 - k], n, h[k - 1])
  BY <1>1, <1>3 DEF IsLeft
<1> HIDE DEF N
<1> DEFINE T == {k \in Nat : k <= N => f[k] = h[k]}
<1>6. 0 \in T
  BY <1>1, <1>4, <1>5
<1>7. ASSUME NEW k \in Nat, k \in T
      PROVE  k + 1 \in T
  <2>1. SUFFICES ASSUME k + 1 <= N
                 PROVE  f[k + 1] = h[k + 1]
    OBVIOUS
  <2>2. /\ k + 1 \in 0 .. N + 1 /\ k + 1 \in 0 .. N /\ k + 1 # 0
        /\ (k + 1) - 1 = k /\ N + 2 - (k + 1) = (N - k) + 1 /\ N + 1 - (k + 1) = N - k
        /\ N - k \in 1 .. N
    BY <1>1, <2>1
  <2>3. rest[N - k] = todo[(N - k) + 1]
    BY <1>1, <2>2 DEF N
  <2>4. f[k] = h[k]
    BY <1>1, <1>7, <2>1
  <2>5. f[k + 1] = Before(g, todo[(N - k) + 1], n, f[k])
    BY <1>4, <2>2
  <2>6. h[k + 1] = Before(g, rest[N - k], n, h[k])
    BY <1>5, <2>2
  <2>7. QED
    BY <2>3, <2>4, <2>5, <2>6
<1>8. Nat \subseteq T
  <2> HIDE DEF T
  <2> QED BY <1>6, <1>7, SetInduction
<1>9. f[N] = h[N]
  BY <1>1, <1>8
<1>10. N + 1 \in 0 .. N + 1 /\ N + 1 # 0 /\ (N + 1) - 1 = N /\ N + 2 - (N + 1) = 1
  BY <1>1
<1>11. f[N + 1] = Before(g, todo[1], n, f[N])
  BY <1>4, <1>10
<1>12. QED
  BY <1>1, <1>2, <1>3, <1>9, <1>11 DEF rest

-----------------------------------------------------------------------------
(* The scripts of the kinds, and the units of the grammar.                 *)

ChainKinds == {"CHAIN", "$CHAIN", ">CHAIN", ">>CHAIN", "?CHAIN", "&CHAIN"}
Prefixed   == Operators \cup Specials \cup {"@IDENT"}
OtherKinds == Braces \cup
              {"CHAIN:", "CHAIN!", "CHAIN(", "(", "then", "until", "else", "do", "import"}

LEMMA KindsApart ==
  /\ Literals \cap (ChainKinds \cup Prefixed \cup OtherKinds) = {}
  /\ ChainKinds \cap (Prefixed \cup OtherKinds) = {}
  /\ Prefixed \cap OtherKinds = {}
BY DEF Literals, ChainKinds, Prefixed, Operators, Specials, OtherKinds, Braces

LEMMA ScriptCases ==
  ASSUME NEW k
  PROVE  /\ k \in Literals => Script(k) = <<>>
         /\ k \in ChainKinds => Script(k) = <<"chain">>
         /\ k \in Braces => Script(k) = <<"sig", "body", "binds", CloseBrace>>
         /\ k \in {"CHAIN:", "CHAIN!"} => Script(k) = <<"chain", "sub">>
         /\ k = "CHAIN(" => Script(k) = <<"chain", "body", ")">>
         /\ k = "(" => Script(k) = <<"body", ")">>
         /\ k \in Prefixed => Script(k) = <<"sub">>
         /\ k = "then" => Script(k) = <<"sub", "else">>
         /\ k = "until" => Script(k) = <<"sub", "do">>
         /\ k \in {"else", "do"} => Script(k) = <<"alt">>
         /\ k = "import" => Script(k) = <<"path", "checkPath", "as">>
         /\ k \notin Literals \cup ChainKinds \cup Prefixed \cup OtherKinds =>
              Script(k) = <<"unexpected">>
<1> DEFINE P == Operators \cup Specials \cup {"@IDENT"}
           Q == {"CHAIN", "$CHAIN", ">CHAIN", ">>CHAIN", "?CHAIN", "&CHAIN"}
<1>1. Script(k) =
        CASE k \in Literals              -> <<>>
          [] k \in Q                     -> <<"chain">>
          [] k \in {"{", ":{"}           -> <<"sig", "body", "binds", "}">>
          [] k \in {"CHAIN:", "CHAIN!"}  -> <<"chain", "sub">>
          [] k = "CHAIN("                -> <<"chain", "body", ")">>
          [] k = "("                     -> <<"body", ")">>
          [] k \in P                     -> <<"sub">>
          [] k = "then"                  -> <<"sub", "else">>
          [] k = "until"                 -> <<"sub", "do">>
          [] k \in {"else", "do"}        -> <<"alt">>
          [] k = "import"                -> <<"path", "checkPath", "as">>
          [] OTHER                       -> <<"unexpected">>
  BY Zenon DEF Script
<1>2. P = Prefixed /\ Q = ChainKinds
  BY DEF Prefixed, ChainKinds
<1>3. /\ k \in Literals => k \notin ChainKinds \cup Prefixed \cup OtherKinds
      /\ k \in ChainKinds => k \notin Literals \cup Prefixed \cup OtherKinds
      /\ k \in Prefixed => k \notin Literals \cup ChainKinds \cup OtherKinds
      /\ k \in OtherKinds => k \notin Literals \cup ChainKinds \cup Prefixed
  BY KindsApart
<1> HIDE DEF P, Q
<1>4. {"{", ":{"} = Braces /\ "}" = CloseBrace
  BY Zenon DEF Braces, CloseBrace
<1>5. QED
  BY <1>1, <1>2, <1>3, <1>4, Zenon DEF OtherKinds

\* The rules of the grammar, as SpansAt states them.
Closed(g, j, by) == {e + 1 : e \in {x \in {j} \cup Body(g, j) : Kind(g, x) = by}}
Then(g, j, word) == UNION {Unit(g, e + 1) : e \in {x \in Unit(g, j) : Kind(g, x) = word}}
Inside(g, i) == LET names == AfterNames(g, i + 1)
                IN  IF Kind(g, names) = "=>" THEN names + 1 ELSE i + 1

UnitOf(g, i) ==
  CASE Kind(g, i) \in WordKinds       -> {i + 1}
    [] Kind(g, i) \in PrefixKinds     -> Unit(g, i + 1)
    [] Kind(g, i) = "CHAIN("          -> Closed(g, i + 1, ")")
    [] Kind(g, i) = "("               -> Closed(g, i + 1, ")")
    [] Kind(g, i) \in {"{", ":{"}     -> Closed(g, Inside(g, i), "}")
    [] Kind(g, i) = "then"  -> Unit(g, i + 1) \cup Then(g, i + 1, "else")
    [] Kind(g, i) = "until" -> Unit(g, i + 1) \cup Then(g, i + 1, "do")
    [] Kind(g, i) \in {"else", "do"}  -> Unit(g, i + 1)
    [] Kind(g, i) = "import" /\ Kind(g, i + 1) = "CHAIN" ->
         IF Kind(g, i + 2) # "as" THEN {i + 2}
         ELSE IF Kind(g, i + 3) = "CHAIN" /\ i + 3 \in g.simple THEN {i + 4} ELSE {}
    [] OTHER -> {}

IsGrammar(g) ==
  /\ g.count \in Nat
  /\ \A i \in 1 .. g.count :
       /\ Unit(g, i) = UnitOf(g, i)
       /\ Body(g, i) = Unit(g, i) \cup UNION {Body(g, e) : e \in Unit(g, i)}
       /\ Unit(g, i) \subseteq i + 1 .. g.count + 1
       /\ Body(g, i) \subseteq i + 1 .. g.count + 1

LEMMA KindSets ==
  WordKinds = ChainKinds \cup Literals /\ PrefixKinds = Prefixed \cup {"CHAIN:", "CHAIN!"}
<1>1. DOMAIN ChainMargins = ChainKinds \cup {"CHAIN:", "CHAIN(", "CHAIN!"}
  BY DEF ChainMargins, ChainKinds
<1>2. ChainKinds \cap {"CHAIN:", "CHAIN(", "CHAIN!"} = {}
  BY DEF ChainKinds
<1>3. WordKinds = ChainKinds \cup Literals
  BY <1>1, <1>2 DEF WordKinds
<1>4. PrefixKinds = Prefixed \cup {"CHAIN:", "CHAIN!"}
  BY DEF PrefixKinds, Prefixed
<1>5. QED
  BY <1>3, <1>4

LEMMA UnitOfCases ==
  ASSUME NEW g, NEW i
  PROVE  LET k == Kind(g, i) IN
         /\ k \in Literals \cup ChainKinds => UnitOf(g, i) = {i + 1}
         /\ k \in Braces => UnitOf(g, i) = Closed(g, Inside(g, i), CloseBrace)
         /\ k \in {"CHAIN:", "CHAIN!"} \cup Prefixed => UnitOf(g, i) = Unit(g, i + 1)
         /\ k \in {"CHAIN(", "("} => UnitOf(g, i) = Closed(g, i + 1, ")")
         /\ k = "then"  => UnitOf(g, i) = Unit(g, i + 1) \cup Then(g, i + 1, "else")
         /\ k = "until" => UnitOf(g, i) = Unit(g, i + 1) \cup Then(g, i + 1, "do")
         /\ k \in {"else", "do"} => UnitOf(g, i) = Unit(g, i + 1)
         /\ k = "import" =>
              UnitOf(g, i) = {q \in {IF Kind(g, i + 2) = "as" THEN i + 4 ELSE i + 2} :
                              /\ Kind(g, i + 1) = "CHAIN"
                              /\ Kind(g, i + 2) = "as" =>
                                   Kind(g, i + 3) = "CHAIN" /\ i + 3 \in g.simple}
         /\ k \notin Literals \cup ChainKinds \cup Prefixed \cup OtherKinds => UnitOf(g, i) = {}
<1> DEFINE k == Kind(g, i)
           imported == IF Kind(g, i + 2) # "as" THEN {i + 2}
                       ELSE IF Kind(g, i + 3) = "CHAIN" /\ i + 3 \in g.simple
                       THEN {i + 4} ELSE {}
<1>1. UnitOf(g, i) =
        CASE k \in ChainKinds \cup Literals -> {i + 1}
          [] k \in Prefixed \cup {"CHAIN:", "CHAIN!"} -> Unit(g, i + 1)
          [] k = "CHAIN("          -> Closed(g, i + 1, ")")
          [] k = "("               -> Closed(g, i + 1, ")")
          [] k \in {"{", ":{"}     -> Closed(g, Inside(g, i), "}")
          [] k = "then"  -> Unit(g, i + 1) \cup Then(g, i + 1, "else")
          [] k = "until" -> Unit(g, i + 1) \cup Then(g, i + 1, "do")
          [] k \in {"else", "do"}  -> Unit(g, i + 1)
          [] k = "import" /\ Kind(g, i + 1) = "CHAIN" -> imported
          [] OTHER -> {}
  BY KindSets, Zenon DEF UnitOf
<1>2. /\ k \in Literals => k \notin ChainKinds \cup Prefixed \cup OtherKinds
      /\ k \in ChainKinds => k \notin Literals \cup Prefixed \cup OtherKinds
      /\ k \in Prefixed => k \notin Literals \cup ChainKinds \cup OtherKinds
      /\ k \in OtherKinds => k \notin Literals \cup ChainKinds \cup Prefixed
  BY KindsApart
<1>3. k = "import" =>
         {q \in {IF Kind(g, i + 2) = "as" THEN i + 4 ELSE i + 2} :
            /\ Kind(g, i + 1) = "CHAIN"
            /\ Kind(g, i + 2) = "as" => Kind(g, i + 3) = "CHAIN" /\ i + 3 \in g.simple}
         = IF Kind(g, i + 1) = "CHAIN" THEN imported ELSE {}
  OBVIOUS
<1> HIDE DEF k, imported
<1>4. /\ k \in Literals \cup ChainKinds => UnitOf(g, i) = {i + 1}
      /\ k \in Braces => UnitOf(g, i) = Closed(g, Inside(g, i), CloseBrace)
      /\ k \in {"CHAIN:", "CHAIN!"} \cup Prefixed => UnitOf(g, i) = Unit(g, i + 1)
      /\ k \in {"CHAIN(", "("} => UnitOf(g, i) = Closed(g, i + 1, ")")
      /\ k = "then"  => UnitOf(g, i) = Unit(g, i + 1) \cup Then(g, i + 1, "else")
      /\ k = "until" => UnitOf(g, i) = Unit(g, i + 1) \cup Then(g, i + 1, "do")
      /\ k \in {"else", "do"} => UnitOf(g, i) = Unit(g, i + 1)
      /\ k = "import" =>
           UnitOf(g, i) = IF Kind(g, i + 1) = "CHAIN" THEN imported ELSE {}
      /\ k \notin Literals \cup ChainKinds \cup Prefixed \cup OtherKinds => UnitOf(g, i) = {}
  <2>1. {"{", ":{"} = Braces /\ "}" = CloseBrace
    BY Zenon DEF Braces, CloseBrace
  <2>2. QED
    BY <1>1, <1>2, <2>1, Zenon DEF OtherKinds
<1>5. QED
  BY <1>3, <1>4 DEF k

LEMMA UnitCases ==
  ASSUME NEW g, IsGrammar(g), NEW i \in 1 .. g.count
  PROVE  LET k == Kind(g, i) IN
         /\ k \in Literals \cup ChainKinds => Unit(g, i) = {i + 1}
         /\ k \in Braces => Unit(g, i) = Closed(g, Inside(g, i), CloseBrace)
         /\ k \in {"CHAIN:", "CHAIN!"} \cup Prefixed => Unit(g, i) = Unit(g, i + 1)
         /\ k \in {"CHAIN(", "("} => Unit(g, i) = Closed(g, i + 1, ")")
         /\ k = "then"  => Unit(g, i) = Unit(g, i + 1) \cup Then(g, i + 1, "else")
         /\ k = "until" => Unit(g, i) = Unit(g, i + 1) \cup Then(g, i + 1, "do")
         /\ k \in {"else", "do"} => Unit(g, i) = Unit(g, i + 1)
         /\ k = "import" =>
              Unit(g, i) = {q \in {IF Kind(g, i + 2) = "as" THEN i + 4 ELSE i + 2} :
                              /\ Kind(g, i + 1) = "CHAIN"
                              /\ Kind(g, i + 2) = "as" =>
                                   Kind(g, i + 3) = "CHAIN" /\ i + 3 \in g.simple}
         /\ k \notin Literals \cup ChainKinds \cup Prefixed \cup OtherKinds => Unit(g, i) = {}
BY UnitOfCases DEF IsGrammar

\* What each step takes to end in X.
LEMMA BeforeCases ==
  ASSUME NEW g, NEW n, NEW X, NEW p \in Places(g)
  PROVE  /\ \A s \in {"chain", "binds"} : p \in Before(g, s, n, X) <=> p \in X
         /\ \A s \in {"sub", "alt"} : p \in Before(g, s, n, X) <=> Unit(g, p) \cap X # {}
         /\ \A s \in {"body", "next"} :
              p \in Before(g, s, n, X) <=> p \in X \/ Body(g, p) \cap X # {}
         /\ \A s \in Brackets : p \in Before(g, s, n, X) <=> Kind(g, p) = s /\ p + 1 \in X
         /\ LET names == AfterNames(g, p)
                next == IF Kind(g, names) = "=>" THEN names + 1 ELSE p
            IN  p \in Before(g, "sig", n, X) <=> next \in X
         /\ \A s \in {"else", "do"} :
              p \in Before(g, s, n, X) <=>
                p \in X \/ (Kind(g, p) = s /\ Unit(g, p + 1) \cap X # {})
         /\ \A s \in {"path", "name"} :
              p \in Before(g, s, n, X) <=> Kind(g, p) = "CHAIN" /\ p + 1 \in X
         /\ p \in Before(g, "checkPath", n, X) <=> Kind(g, n + 1) = "CHAIN" /\ p \in X
         /\ p \in Before(g, "as", n, X) <=>
              IF Kind(g, p) = "as"
              THEN Kind(g, p + 1) = "CHAIN" /\ p + 1 \in g.simple /\ p + 2 \in X
              ELSE p \in X
         /\ p \in Before(g, "checkName", n, X) <=>
              Kind(g, n + 3) = "CHAIN" /\ n + 3 \in g.simple /\ p \in X
         /\ p \notin Before(g, "unexpected", n, X)
<1>1. \A s : p \in Before(g, s, n, X) <=> Ends(g, s, n, p) \cap X # {}
  BY DEF Before
<1>0. Brackets \cap {"chain", "binds", "sub", "alt", "body", "next", "sig", "else", "do", "path",
                     "name", "checkPath", "as", "checkName", "unexpected"} = {}
  BY Zenon DEF Brackets, CloseBrace
<1> DEFINE names == AfterNames(g, p)
           next == IF Kind(g, names) = "=>" THEN names + 1 ELSE p
<1>2. \A s \in {"chain", "binds"} : Ends(g, s, n, p) = {p}
  BY <1>0 DEF Ends
<1>3. \A s \in {"sub", "alt"} : Ends(g, s, n, p) = Unit(g, p)
  BY <1>0 DEF Ends
<1>4. \A s \in {"body", "next"} : Ends(g, s, n, p) = {p} \cup Body(g, p)
  BY <1>0 DEF Ends
<1>5. \A s \in Brackets : Ends(g, s, n, p) = {q \in {p + 1} : Kind(g, p) = s}
  BY <1>0 DEF Ends
<1>6. Ends(g, "sig", n, p) = {next}
  BY <1>0 DEF Ends
<1>7. \A s \in {"else", "do"} :
        Ends(g, s, n, p) = {p} \cup {q \in Unit(g, p + 1) : Kind(g, p) = s}
  BY <1>0 DEF Ends
<1>8. \A s \in {"path", "name"} : Ends(g, s, n, p) = {q \in {p + 1} : Kind(g, p) = "CHAIN"}
  BY <1>0 DEF Ends
<1>9. Ends(g, "checkPath", n, p) = {q \in {p} : Kind(g, n + 1) = "CHAIN"}
  BY <1>0 DEF Ends
<1>10. Ends(g, "as", n, p) =
         IF Kind(g, p) = "as"
         THEN {q \in {p + 2} : Kind(g, p + 1) = "CHAIN" /\ p + 1 \in g.simple}
         ELSE {p}
  BY <1>0 DEF Ends
<1>11. Ends(g, "checkName", n, p)
         = {q \in {p} : Kind(g, n + 3) = "CHAIN" /\ n + 3 \in g.simple}
  BY <1>0 DEF Ends
<1>12. Ends(g, "unexpected", n, p) = {}
  BY <1>0 DEF Ends
<1> HIDE DEF next
<1>13. /\ \A s \in {"chain", "binds"} : p \in Before(g, s, n, X) <=> p \in X
       /\ \A s \in {"sub", "alt"} : p \in Before(g, s, n, X) <=> Unit(g, p) \cap X # {}
       /\ \A s \in {"body", "next"} :
            p \in Before(g, s, n, X) <=> p \in X \/ Body(g, p) \cap X # {}
       /\ \A s \in Brackets : p \in Before(g, s, n, X) <=> Kind(g, p) = s /\ p + 1 \in X
       /\ p \in Before(g, "sig", n, X) <=> next \in X
  <2>1. \A s \in {"chain", "binds"} : p \in Before(g, s, n, X) <=> p \in X
    BY <1>1, <1>2
  <2>2. \A s \in {"sub", "alt"} : p \in Before(g, s, n, X) <=> Unit(g, p) \cap X # {}
    BY <1>1, <1>3
  <2>3. \A s \in {"body", "next"} :
          p \in Before(g, s, n, X) <=> p \in X \/ Body(g, p) \cap X # {}
    BY <1>1, <1>4
  <2>4. \A s \in Brackets : p \in Before(g, s, n, X) <=> Kind(g, p) = s /\ p + 1 \in X
    BY <1>1, <1>5
  <2>5. p \in Before(g, "sig", n, X) <=> next \in X
    BY <1>1, <1>6
  <2>6. QED
    BY <2>1, <2>2, <2>3, <2>4, <2>5
<1>14. /\ \A s \in {"else", "do"} :
            p \in Before(g, s, n, X) <=>
              p \in X \/ (Kind(g, p) = s /\ Unit(g, p + 1) \cap X # {})
       /\ \A s \in {"path", "name"} :
            p \in Before(g, s, n, X) <=> Kind(g, p) = "CHAIN" /\ p + 1 \in X
       /\ p \in Before(g, "checkPath", n, X) <=> Kind(g, n + 1) = "CHAIN" /\ p \in X
       /\ p \in Before(g, "checkName", n, X) <=>
            Kind(g, n + 3) = "CHAIN" /\ n + 3 \in g.simple /\ p \in X
       /\ p \notin Before(g, "unexpected", n, X)
  BY <1>1, <1>7, <1>8, <1>9, <1>11, <1>12
<1>15. p \in Before(g, "as", n, X) <=>
         IF Kind(g, p) = "as"
         THEN Kind(g, p + 1) = "CHAIN" /\ p + 1 \in g.simple /\ p + 2 \in X
         ELSE p \in X
  BY <1>1, <1>10
<1>16. QED
  BY <1>13, <1>14, <1>15 DEF next

\* The two that may be left out.
LEMMA OptionCases ==
  ASSUME NEW g, NEW n, NEW X, NEW p \in Places(g)
  PROVE  /\ \A s \in {"else", "do"} :
              p \in Before(g, s, n, X) <=>
                p \in X \/ (Kind(g, p) = s /\ Unit(g, p + 1) \cap X # {})
         /\ p \in Before(g, "as", n, X) <=>
              IF Kind(g, p) = "as"
              THEN Kind(g, p + 1) = "CHAIN" /\ p + 1 \in g.simple /\ p + 2 \in X
              ELSE p \in X
BY BeforeCases, Zenon

LEMMA LeftThen ==
  ASSUME NEW g, NEW S, NEW a \in S, NEW t \in Seq(S), NEW n, NEW X
  PROVE  Left(g, <<a>> \o t, n, X) = Before(g, a, n, Left(g, t, n, X))
<1>1. <<a>> \o t \in Seq(S) /\ <<a>> \o t # <<>>
  OBVIOUS
<1>2. Head(<<a>> \o t) = a
  OBVIOUS
<1>3. Tail(<<a>> \o t) = t
  OBVIOUS
<1> DEFINE u == <<a>> \o t
<1> HIDE DEF u
<1>4. Left(g, u, n, X) = Before(g, Head(u), n, Left(g, Tail(u), n, X))
  BY <1>1, LeftCons DEF u
<1>5. QED
  BY <1>2, <1>3, <1>4 DEF u

LEMMA LeftScript ==
  ASSUME NEW g, NEW S, NEW t \in Seq(S), NEW n, NEW X, NEW Y, Y = Left(g, t, n, X),
         NEW s \in Seq(S), s # <<>>
  PROVE  LET r == Tail(s)
         IN  /\ r \in Seq(S)
             /\ Left(g, s \o t, n, X) = Before(g, s[1], n, Left(g, r \o t, n, X))
             /\ Len(s) = 1 => Left(g, s \o t, n, X) = Before(g, s[1], n, Y)
<1> DEFINE r == Tail(s)
<1>1. /\ r \in Seq(S) /\ s[1] \in S /\ Head(s) = s[1] /\ Len(r) = Len(s) - 1
      /\ Len(r) \in Nat
  BY HeadTailProperties, LenProperties
<1>2. s \o t \in Seq(S) /\ s \o t # <<>> /\ Head(s \o t) = s[1] /\ Tail(s \o t) = r \o t
  <2>1. s \o t \in Seq(S)
    BY ConcatProperties
  <2>2. s \o t # <<>>
    OBVIOUS
  <2>3. Head(s \o t) = s[1]
    OBVIOUS
  <2>4. Tail(s \o t) = r \o t
    OBVIOUS
  <2>5. QED
    BY <2>1, <2>2, <2>3, <2>4
<1> DEFINE u == s \o t
           v == r \o t
<1>3. Left(g, u, n, X) = Before(g, s[1], n, Left(g, v, n, X))
  <2> HIDE DEF u
  <2>1. Left(g, u, n, X) = Before(g, Head(u), n, Left(g, Tail(u), n, X))
    BY <1>2, LeftCons DEF u
  <2>2. QED
    BY <1>2, <2>1 DEF u
<1>4. Len(s) = 1 => v = t
  <2>1. ASSUME Len(r) = 0
        PROVE  r = <<>>
    BY <1>1, <2>1, EmptySeq
  <2>2. <<>> \o t = t
    BY ConcatEmptySeq
  <2> HIDE DEF r
  <2>3. QED
    BY <1>1, <2>1, <2>2 DEF v
<1> HIDE DEF u, v, r
<1>5. QED
  BY <1>1, <1>3, <1>4 DEF u, v, r

StepNames == Brackets \cup
             {"chain", "sig", "body", "binds", "sub", "alt", "else", "do", "next",
              "path", "checkPath", "as", "name", "checkName", "unexpected"}

LEMMA LeftWord ==
  ASSUME NEW g, NEW t \in Seq(StepNames), NEW n, NEW X, NEW Y, Y = Left(g, t, n, X)
  PROVE  /\ \A a \in StepNames : Left(g, <<a>> \o t, n, X) = Before(g, a, n, Y)
         /\ Left(g, <<"chain", "sub">> \o t, n, X)
              = Before(g, "chain", n, Before(g, "sub", n, Y))
         /\ Left(g, <<"sub", "else">> \o t, n, X) = Before(g, "sub", n, Before(g, "else", n, Y))
         /\ Left(g, <<"sub", "do">> \o t, n, X) = Before(g, "sub", n, Before(g, "do", n, Y))
         /\ Left(g, <<"body", ")">> \o t, n, X) = Before(g, "body", n, Before(g, ")", n, Y))
         /\ Left(g, <<"name", "checkName">> \o t, n, X)
              = Before(g, "name", n, Before(g, "checkName", n, Y))
         /\ Left(g, <<"chain", "body", ")">> \o t, n, X)
              = Before(g, "chain", n, Before(g, "body", n, Before(g, ")", n, Y)))
         /\ Left(g, <<"path", "checkPath", "as">> \o t, n, X)
              = Before(g, "path", n, Before(g, "checkPath", n, Before(g, "as", n, Y)))
         /\ Left(g, <<"sig", "body", "binds", CloseBrace>> \o t, n, X)
              = Before(g, "sig", n, Before(g, "body", n,
                  Before(g, "binds", n, Before(g, CloseBrace, n, Y))))
<1> DEFINE L(s) == Left(g, s \o t, n, X)
           B(a, Z) == Before(g, a, n, Z)
<1>1. \A s \in Seq(StepNames) :
        /\ s # <<>> => L(s) = B(s[1], L(Tail(s)))
        /\ s # <<>> /\ Len(s) = 1 => L(s) = B(s[1], Y)
  BY LeftScript
<1> HIDE DEF L, B
<1>2. ASSUME NEW a \in StepNames
      PROVE  L(<<a>>) = B(a, Y)
  <2>1. <<a>> \in Seq(StepNames) /\ <<a>> # <<>> /\ Len(<<a>>) = 1 /\ <<a>>[1] = a
    OBVIOUS
  <2>2. QED
    BY <1>1, <2>1
<1>3. ASSUME NEW a \in StepNames, NEW b \in StepNames
      PROVE  L(<<a, b>>) = B(a, B(b, Y))
  <2>1. <<a, b>> \in Seq(StepNames) /\ <<a, b>> # <<>> /\ <<a, b>>[1] = a
    OBVIOUS
  <2>2. Tail(<<a, b>>) = <<b>>
    OBVIOUS
  <2>3. QED
    BY <1>1, <1>2, <2>1, <2>2
<1>4. ASSUME NEW a \in StepNames, NEW b \in StepNames, NEW c \in StepNames
      PROVE  L(<<a, b, c>>) = B(a, B(b, B(c, Y)))
  <2>1. <<a, b, c>> \in Seq(StepNames) /\ <<a, b, c>> # <<>> /\ <<a, b, c>>[1] = a
    OBVIOUS
  <2>2. Tail(<<a, b, c>>) = <<b, c>>
    OBVIOUS
  <2>3. QED
    BY <1>1, <1>3, <2>1, <2>2
<1>5. L(<<"sig", "body", "binds", CloseBrace>>)
        = B("sig", B("body", B("binds", B(CloseBrace, Y))))
  <2> DEFINE s == <<"sig", "body", "binds", CloseBrace>>
  <2>1. s \in Seq(StepNames) /\ s # <<>> /\ s[1] = "sig"
    BY DEF StepNames, Brackets
  <2>2. Tail(s) = <<"body", "binds", CloseBrace>>
    OBVIOUS
  <2>3. L(<<"body", "binds", CloseBrace>>) = B("body", B("binds", B(CloseBrace, Y)))
    BY <1>4 DEF StepNames, Brackets
  <2> HIDE DEF s
  <2>4. L(s) = B("sig", L(Tail(s)))
    BY <1>1, <2>1
  <2>5. L(s) = B("sig", B("body", B("binds", B(CloseBrace, Y))))
    BY <2>2, <2>3, <2>4
  <2>6. QED
    BY <2>5 DEF s
<1>6. /\ L(<<"chain", "sub">>) = B("chain", B("sub", Y))
      /\ L(<<"sub", "else">>) = B("sub", B("else", Y))
      /\ L(<<"sub", "do">>) = B("sub", B("do", Y))
      /\ L(<<"body", ")">>) = B("body", B(")", Y))
      /\ L(<<"name", "checkName">>) = B("name", B("checkName", Y))
  BY <1>3 DEF StepNames, Brackets
<1>7. /\ L(<<"chain", "body", ")">>) = B("chain", B("body", B(")", Y)))
      /\ L(<<"path", "checkPath", "as">>) = B("path", B("checkPath", B("as", Y)))
  BY <1>4 DEF StepNames, Brackets
<1>8. QED
  BY <1>2, <1>5, <1>6, <1>7, Zenon DEF L, B

LEMMA AfterNamesIs ==
  ASSUME NEW g, g.count \in Nat, NEW p \in Places(g)
  PROVE  /\ AfterNames(g, p) \in p .. g.count + 1
         /\ Kind(g, AfterNames(g, p)) # "CHAIN"
         /\ \A j \in p .. AfterNames(g, p) - 1 : Kind(g, j) = "CHAIN"
<1> DEFINE S == {j \in p .. g.count + 1 : Kind(g, j) # "CHAIN"}
<1>1. g.count + 1 \in S
  BY DEF Places, Kind
<1>2. S \in SUBSET Nat /\ S # {}
  BY <1>1 DEF Places
<1>3. AfterNames(g, p) = Min(S)
  BY DEF AfterNames
<1> HIDE DEF S
<1>4. Min(S) \in S /\ \A y \in S : Min(S) <= y
  BY <1>2, MinIs
<1>5. QED
  BY <1>3, <1>4 DEF S, Places

\* The script of a kind reads the units that begin with it.
LEMMA ScriptIs ==
  ASSUME NEW g, IsGrammar(g), NEW p \in 1 .. g.count,
         NEW t \in Seq(StepNames), NEW X, NEW Y, Y = Left(g, t, p, X)
  PROVE  p + 1 \in Left(g, Script(Kind(g, p)) \o t, p, X) <=> Unit(g, p) \cap Y # {}
<1> DEFINE k == Kind(g, p)
           q == p + 1
           Goal == p + 1 \in Left(g, Script(Kind(g, p)) \o t, p, X) <=> Unit(g, p) \cap Y # {}
<1>1. g.count \in Nat /\ q \in Places(g)
  BY DEF IsGrammar, Places
<1>2. \A r : Kind(g, r) # "end" => r \in 1 .. g.count
  BY DEF Kind
<1>3. CASE k \in Literals
  <2>1. Script(k) \o t = t
    BY <1>3, ScriptCases, ConcatEmptySeq
  <2>2. Unit(g, p) = {q}
    BY <1>3, UnitCases
  <2>3. QED
    BY <2>1, <2>2
<1>4. CASE k \in ChainKinds
  <2>1. Left(g, Script(k) \o t, p, X) = Before(g, "chain", p, Y)
    BY <1>4, ScriptCases, LeftWord DEF StepNames
  <2>2. Unit(g, p) = {q}
    BY <1>4, UnitCases
  <2>3. QED
    BY <1>1, <2>1, <2>2, BeforeCases
<1>5. CASE k \in Prefixed
  <2>1. Left(g, Script(k) \o t, p, X) = Before(g, "sub", p, Y)
    BY <1>5, ScriptCases, LeftWord DEF StepNames
  <2>2. Unit(g, p) = Unit(g, q)
    BY <1>5, UnitCases
  <2>3. QED
    BY <1>1, <2>1, <2>2, BeforeCases
<1>6. CASE k \in Braces
  <2> DEFINE Z == Before(g, CloseBrace, p, Y)
             V == Before(g, "body", p, Before(g, "binds", p, Z))
             e == Inside(g, p)
  <2>1. Left(g, Script(k) \o t, p, X) = Before(g, "sig", p, V)
    <3> DEFINE s == <<"sig", "body", "binds", CloseBrace>>
    <3>1. Script(k) = s
      BY <1>6, ScriptCases
    <3>2. Left(g, s \o t, p, X) = Before(g, "sig", p, V)
      BY LeftWord
    <3> HIDE DEF s, V, k
    <3>3. QED
      BY <3>1, <3>2
  <2>2. q \in Before(g, "sig", p, V) <=> e \in V
    BY <1>1, BeforeCases DEF Inside
  <2>3. e \in Places(g)
    <3>1. AfterNames(g, q) \in q .. g.count + 1
      BY <1>1, AfterNamesIs
    <3>2. Kind(g, AfterNames(g, q)) = "=>" => AfterNames(g, q) \in 1 .. g.count
      BY DEF Kind
    <3>3. QED
      BY <1>1, <3>1, <3>2 DEF Inside, Places
  <2>4. \A x \in Places(g) : x \in Z <=> Kind(g, x) = CloseBrace /\ x + 1 \in Y
    BY BeforeCases DEF Brackets
  <2>5. \A x \in Places(g) : x \in Before(g, "binds", p, Z) <=> x \in Z
    BY BeforeCases
  <2>6. e \in V <=> e \in Z \/ Body(g, e) \cap Z # {}
    <3>1. Body(g, e) \subseteq Places(g)
      BY <1>1, <2>3 DEF Body, IsGrammar, Places
    <3>2. e \in V <=> e \in Before(g, "binds", p, Z)
                        \/ Body(g, e) \cap Before(g, "binds", p, Z) # {}
      BY <2>3, BeforeCases
    <3> HIDE DEF Z, V, e
    <3>3. QED
      BY <2>3, <2>5, <3>1, <3>2
  <2>7. Unit(g, p) = Closed(g, e, CloseBrace)
    BY <1>6, UnitCases
  <2>8. Body(g, e) \subseteq Places(g)
    BY <1>1, <2>3 DEF Body, IsGrammar, Places
  <2> HIDE DEF Z, V, e
  <2>9. Closed(g, e, CloseBrace) \cap Y # {} <=> e \in Z \/ Body(g, e) \cap Z # {}
    BY <2>3, <2>4, <2>8 DEF Closed
  <2>10. QED
    BY <2>1, <2>2, <2>6, <2>7, <2>9
<1>7. CASE k \in {"CHAIN:", "CHAIN!"}
  <2>1. Left(g, Script(k) \o t, p, X) = Before(g, "chain", p, Before(g, "sub", p, Y))
    BY <1>7, ScriptCases, LeftWord
  <2>2. Unit(g, p) = Unit(g, q)
    BY <1>7, UnitCases
  <2>3. QED
    BY <1>1, <2>1, <2>2, BeforeCases
<1>8. CASE k \in {"CHAIN(", "("}
  <2> DEFINE Z == Before(g, ")", p, Y)
             V == Before(g, "body", p, Z)
  <2>1. q \in Left(g, Script(k) \o t, p, X) <=> q \in V
    <3>1. CASE k = "CHAIN("
      <4> DEFINE s == <<"chain", "body", ")">>
      <4>1. Script(k) = s
        BY <3>1, ScriptCases
      <4>2. Left(g, s \o t, p, X) = Before(g, "chain", p, V)
        BY LeftWord
      <4>3. q \in Before(g, "chain", p, V) <=> q \in V
        BY <1>1, BeforeCases
      <4> HIDE DEF s, V, k
      <4>4. QED
        BY <4>1, <4>2, <4>3
    <3>2. CASE k = "("
      <4> DEFINE s == <<"body", ")">>
      <4>1. Script(k) = s
        BY <3>2, ScriptCases
      <4>2. Left(g, s \o t, p, X) = V
        BY LeftWord
      <4> HIDE DEF s, V, k
      <4>3. QED
        BY <4>1, <4>2
    <3>3. QED
      BY <1>8, <3>1, <3>2
  <2>2. \A x \in Places(g) : x \in Z <=> Kind(g, x) = ")" /\ x + 1 \in Y
    BY BeforeCases DEF Brackets
  <2>3. q \in V <=> q \in Z \/ Body(g, q) \cap Z # {}
    BY <1>1, BeforeCases
  <2>4. Body(g, q) \subseteq Places(g)
    BY <1>1 DEF Body, IsGrammar, Places
  <2>5. Unit(g, p) = Closed(g, q, ")")
    BY <1>8, UnitCases
  <2> HIDE DEF Z, V
  <2>6. Closed(g, q, ")") \cap Y # {} <=> q \in Z \/ Body(g, q) \cap Z # {}
    BY <1>1, <2>2, <2>4 DEF Closed
  <2>7. QED
    BY <2>1, <2>3, <2>5, <2>6
<1>9. ASSUME NEW word, (k = "then" /\ word = "else") \/ (k = "until" /\ word = "do")
      PROVE  Goal
  <2> DEFINE Z == Before(g, word, p, Y)
  <2>1. Left(g, Script(k) \o t, p, X) = Before(g, "sub", p, Z)
    <3> DEFINE s == <<"sub", word>>
    <3>1. Script(k) = s
      BY <1>9, ScriptCases
    <3>2. Left(g, s \o t, p, X) = Before(g, "sub", p, Z)
      <4>1. CASE word = "else"
        BY <4>1, LeftWord
      <4>2. CASE word = "do"
        BY <4>2, LeftWord
      <4>3. QED
        BY <1>9, <4>1, <4>2
    <3> HIDE DEF s, Z, k
    <3>3. QED
      BY <3>1, <3>2
  <2>2. q \in Before(g, "sub", p, Z) <=> Unit(g, q) \cap Z # {}
    BY <1>1, BeforeCases
  <2>3. \A x \in Places(g) :
          x \in Z <=> x \in Y \/ (Kind(g, x) = word /\ Unit(g, x + 1) \cap Y # {})
    BY <1>9, BeforeCases
  <2>4. Unit(g, q) \subseteq Places(g)
    BY <1>1 DEF Unit, IsGrammar, Places
  <2>5. Unit(g, p) = Unit(g, q) \cup Then(g, q, word)
    BY <1>9, UnitCases
  <2> HIDE DEF Z
  <2>6. (Unit(g, q) \cup Then(g, q, word)) \cap Y # {} <=> Unit(g, q) \cap Z # {}
    BY <2>3, <2>4 DEF Then
  <2>7. QED
    BY <2>1, <2>2, <2>5, <2>6
<1>10. CASE k \in {"else", "do"}
  <2>1. Left(g, Script(k) \o t, p, X) = Before(g, "alt", p, Y)
    BY <1>10, ScriptCases, LeftWord DEF StepNames
  <2>2. Unit(g, p) = Unit(g, q)
    BY <1>10, UnitCases
  <2>3. QED
    BY <1>1, <2>1, <2>2, BeforeCases
<1>11. CASE k = "import"
  <2> DEFINE Z == Before(g, "as", p, Y)
             V == Before(g, "checkPath", p, Z)
  <2>1. Left(g, Script(k) \o t, p, X) = Before(g, "path", p, V)
    <3> DEFINE s == <<"path", "checkPath", "as">>
    <3>1. Script(k) = s
      BY <1>11, ScriptCases
    <3>2. Left(g, s \o t, p, X) = Before(g, "path", p, V)
      BY LeftWord
    <3> HIDE DEF s, V, k
    <3>3. QED
      BY <3>1, <3>2
  <2>2. q \in Before(g, "path", p, V) <=> Kind(g, q) = "CHAIN" /\ q + 1 \in V
    BY <1>1, BeforeCases
  <2>3. Kind(g, q) = "CHAIN" => q + 1 \in Places(g)
    BY <1>1, <1>2 DEF Places
  <2>4. Kind(g, q) = "CHAIN" =>
          /\ q + 1 \in V <=> q + 1 \in Z
          /\ q + 1 \in Z <=>
               IF Kind(g, p + 2) = "as"
               THEN Kind(g, p + 3) = "CHAIN" /\ p + 3 \in g.simple /\ p + 4 \in Y
               ELSE p + 2 \in Y
    <3>1. q + 1 = p + 2 /\ (p + 2) + 1 = p + 3 /\ (p + 2) + 2 = p + 4
      OBVIOUS
    <3> HIDE DEF q
    <3>2. QED
      BY <2>3, <3>1, BeforeCases DEF q
  <2>5. Unit(g, p) = {x \in {IF Kind(g, p + 2) = "as" THEN p + 4 ELSE p + 2} :
                        /\ Kind(g, q) = "CHAIN"
                        /\ Kind(g, p + 2) = "as" =>
                             Kind(g, p + 3) = "CHAIN" /\ p + 3 \in g.simple}
    BY <1>11, UnitCases
  <2> HIDE DEF Z, V
  <2>6. QED
    BY <2>1, <2>2, <2>4, <2>5
<1>12. CASE k \notin Literals \cup ChainKinds \cup Prefixed \cup OtherKinds
  <2>1. Left(g, Script(k) \o t, p, X) = Before(g, "unexpected", p, Y)
    BY <1>12, ScriptCases, LeftWord DEF StepNames
  <2>2. Unit(g, p) = {}
    BY <1>12, UnitCases
  <2>3. QED
    BY <1>1, <2>1, <2>2, BeforeCases
<1>13. \/ k \in Literals \cup ChainKinds \cup Prefixed \cup Braces
       \/ k \in {"CHAIN:", "CHAIN!"} \/ k \in {"CHAIN(", "("}
       \/ k = "then" \/ k = "until" \/ k \in {"else", "do"} \/ k = "import"
       \/ k \notin Literals \cup ChainKinds \cup Prefixed \cup OtherKinds
  <2> HIDE DEF k
  <2>1. QED
    BY Zenon DEF OtherKinds
<1>14. k = "then" \/ k = "until" => Goal
  BY <1>9
<1>15. QED
  <2> HIDE DEF k
  <2>1. QED
    BY <1>3, <1>4, <1>5, <1>6, <1>7, <1>8, <1>10, <1>11, <1>12, <1>13, <1>14

-----------------------------------------------------------------------------
(* The table of the grammar obeys its rules.                               *)

IsTable(from) ==
  from = [i \in 1 .. Len(tokens) + 1 |->
            IF i > Len(tokens) THEN <<>> ELSE Extend(from[i + 1], i)]

LEMMA TableExists ==
  ASSUME Len(tokens) \in Nat
  PROVE  \E from : IsTable(from) /\ Spans = from[1]
<1> DEFINE N == Len(tokens)
           Fill(h, k) == h = [j \in 0 .. k |-> IF j = 0 THEN <<>> ELSE Extend(h[j - 1], N + 1 - j)]
           T == {k \in Nat : \E h : Fill(h, k)}
<1>1. 0 \in T
  <2> DEFINE h == [j \in 0 .. 0 |-> <<>>]
  <2>1. Fill(h, 0)
    <3>1. \A j \in 0 .. 0 : j = 0
      OBVIOUS
    <3>2. QED
      BY <3>1
  <2> HIDE DEF Fill
  <2>2. QED
    BY <2>1
<1>2. ASSUME NEW k \in Nat, k \in T
      PROVE  k + 1 \in T
  <2>1. PICK h : Fill(h, k)
    BY <1>2
  <2> DEFINE last == Extend(h[k], N + 1 - (k + 1))
             f == [j \in 0 .. k + 1 |-> IF j = k + 1 THEN last ELSE h[j]]
             v(j) == IF j = 0 THEN <<>> ELSE Extend(f[j - 1], N + 1 - j)
  <2>2. ASSUME NEW j \in 0 .. k + 1
        PROVE  f[j] = v(j)
    <3>1. CASE j = k + 1
      <4>1. j # 0 /\ j - 1 = k /\ k \in 0 .. k + 1 /\ k # k + 1
        BY <3>1
      <4>2. f[j - 1] = h[k]
        BY <4>1
      <4>3. f[j] = last
        BY <3>1
      <4> HIDE DEF f
      <4>4. QED
        BY <3>1, <4>1, <4>2, <4>3
    <3>2. CASE j # k + 1
      <4>1. j \in 0 .. k /\ (j # 0 => j - 1 \in 0 .. k + 1 /\ j - 1 # k + 1)
        BY <3>2
      <4>2. f[j] = h[j]
        BY <3>2
      <4>3. h[j] = IF j = 0 THEN <<>> ELSE Extend(h[j - 1], N + 1 - j)
        BY <2>1, <4>1
      <4>4. j # 0 => f[j - 1] = h[j - 1]
        BY <4>1
      <4> HIDE DEF f, N
      <4>5. QED
        BY <4>2, <4>3, <4>4
    <3>3. QED
      BY <3>1, <3>2
  <2>3. f = [j \in 0 .. k + 1 |-> f[j]]
    OBVIOUS
  <2>4. Fill(f, k + 1)
    <3> HIDE DEF f
    <3>1. f = [j \in 0 .. k + 1 |-> v(j)]
      <4> HIDE DEF v
      <4>1. QED
        BY <2>2, <2>3
    <3>2. QED
      BY <3>1
  <2> HIDE DEF Fill, f
  <2>5. QED
    BY <2>4
<1>3. Nat \subseteq T
  <2> HIDE DEF T
  <2> QED BY <1>1, <1>2, SetInduction
<1>4. PICK h : Fill(h, N)
  BY <1>3
<1> DEFINE from == [i \in 1 .. N + 1 |-> h[N + 1 - i]]
           w(i) == IF i > N THEN <<>> ELSE Extend(from[i + 1], i)
<1>5. ASSUME NEW i \in 1 .. N + 1
      PROVE  from[i] = w(i)
  <2> DEFINE j == N + 1 - i
  <2>1. j \in 0 .. N /\ N + 1 - j = i /\ (j = 0 <=> i > N)
        /\ (j # 0 => i + 1 \in 1 .. N + 1 /\ N + 1 - (i + 1) = j - 1)
    OBVIOUS
  <2>2. from[i] = h[j] /\ (j # 0 => from[i + 1] = h[j - 1])
    BY <2>1
  <2> HIDE DEF j, from
  <2>3. h[j] = IF j = 0 THEN <<>> ELSE Extend(h[j - 1], N + 1 - j)
    BY <1>4, <2>1
  <2>4. QED
    BY <2>1, <2>2, <2>3
<1>6. from = [i \in 1 .. N + 1 |-> from[i]]
  OBVIOUS
<1>7. IsTable(from)
  <2> HIDE DEF from
  <2>1. from = [i \in 1 .. N + 1 |-> w(i)]
    <3> HIDE DEF w
    <3>1. QED
      BY <1>5, <1>6
  <2>2. QED
    BY <2>1 DEF IsTable
<1> DEFINE table == CHOOSE t : IsTable(t)
<1>8. IsTable(table)
  <2> HIDE DEF from
  <2>1. QED
    BY <1>7
<1>9. Spans = table[1]
  BY Zenon DEF Spans, IsTable
<1> HIDE DEF table
<1>10. QED
  BY <1>8, <1>9

OfTokens(g) == /\ g.count = Len(tokens)
               /\ g.kind = kinds
               /\ g.simple = {i \in 1 .. Len(tokens) : Simple(i)}

LEMMA SpansAtIs ==
  ASSUME Len(tokens) \in Nat, NEW g, OfTokens(g), NEW at, NEW i \in 1 .. g.count,
         \A j \in i + 1 .. g.count :
           /\ Unit(g, j) = at[j].unit /\ Body(g, j) = at[j].body
           /\ Unit(g, j) \subseteq j + 1 .. g.count + 1
           /\ Body(g, j) \subseteq j + 1 .. g.count + 1
  PROVE  LET unit == UnitOf(g, i)
         IN  /\ SpansAt(at, i)
                  = [unit |-> unit, body |-> unit \cup UNION {Body(g, e) : e \in unit}]
             /\ unit \subseteq i + 1 .. g.count + 1
<1> DEFINE N == Len(tokens)
           K(j) == IF j <= N THEN kinds[j] ELSE "end"
           U(j) == IF j <= N THEN at[j].unit ELSE {}
           B(j) == IF j <= N THEN at[j].body ELSE {}
           C(j, by) == {e + 1 : e \in {x \in {j} \cup B(j) : K(x) = by}}
           W(j, word) == UNION {U(e + 1) : e \in {x \in U(j) : K(x) = word}}
           names == Min({j \in i + 1 .. N + 1 : K(j) # "CHAIN"})
           inside == IF K(names) = "=>" THEN names + 1 ELSE i + 1
           imported == IF K(i + 2) # "as" THEN {i + 2}
                       ELSE IF K(i + 3) = "CHAIN" /\ Simple(i + 3) THEN {i + 4} ELSE {}
           unit ==
             CASE K(i) \in WordKinds       -> {i + 1}
               [] K(i) \in PrefixKinds    -> U(i + 1)
               [] K(i) = "CHAIN("      -> C(i + 1, ")")
               [] K(i) = "("           -> C(i + 1, ")")
               [] K(i) \in {"{", ":{"} -> C(inside, "}")
               [] K(i) = "then"        -> U(i + 1) \cup W(i + 1, "else")
               [] K(i) = "until"       -> U(i + 1) \cup W(i + 1, "do")
               [] K(i) \in {"else", "do"} -> U(i + 1)
               [] K(i) = "import" /\ K(i + 1) = "CHAIN" -> imported
               [] OTHER -> {}
<1>1. SpansAt(at, i) = [unit |-> unit, body |-> unit \cup UNION {B(e) : e \in unit}]
  BY Zenon DEF SpansAt
<1>2. g.count = N /\ N \in Nat /\ i \in Nat /\ i >= 1 /\ i <= N
  BY DEF OfTokens
<1>3. \A j \in Nat : j >= 1 => K(j) = Kind(g, j)
  BY <1>2 DEF Kind, OfTokens
<1>4. \A j \in Nat : j > i => /\ U(j) = Unit(g, j) /\ B(j) = Body(g, j)
                              /\ Unit(g, j) \subseteq j + 1 .. N + 1
                              /\ Body(g, j) \subseteq j + 1 .. N + 1
  <2>1. SUFFICES ASSUME NEW j \in Nat, j > i
                 PROVE  /\ U(j) = Unit(g, j) /\ B(j) = Body(g, j)
                        /\ Unit(g, j) \subseteq j + 1 .. N + 1
                        /\ Body(g, j) \subseteq j + 1 .. N + 1
    OBVIOUS
  <2>2. CASE j <= N
    <3>1. j \in i + 1 .. g.count /\ j \in 1 .. g.count
      BY <1>2, <2>1, <2>2
    <3>2. QED
      BY <1>2, <2>2, <3>1 DEF Unit, Body
  <2>3. CASE ~(j <= N)
    <3>1. j \notin 1 .. g.count
      BY <1>2, <2>1, <2>3
    <3>2. QED
      BY <1>2, <2>3, <3>1 DEF Unit, Body
  <2>4. QED
    BY <2>2, <2>3
<1> HIDE DEF K, U, B, C, W
<1>5. \A j \in Nat : j > i => \A by : C(j, by) = Closed(g, j, by)
  <2>1. SUFFICES ASSUME NEW j \in Nat, j > i, NEW by
                 PROVE  C(j, by) = Closed(g, j, by)
    OBVIOUS
  <2>2. B(j) = Body(g, j) /\ \A x \in {j} \cup B(j) : K(x) = Kind(g, x)
    BY <1>2, <1>3, <1>4, <2>1
  <2>3. QED
    BY <2>2 DEF C, Closed
<1>6. \A word : W(i + 1, word) = Then(g, i + 1, word)
  <2>1. SUFFICES ASSUME NEW word
                 PROVE  W(i + 1, word) = Then(g, i + 1, word)
    OBVIOUS
  <2>2. /\ U(i + 1) = Unit(g, i + 1)
        /\ \A x \in U(i + 1) : K(x) = Kind(g, x) /\ U(x + 1) = Unit(g, x + 1)
    <3>1. U(i + 1) = Unit(g, i + 1) /\ Unit(g, i + 1) \subseteq i + 2 .. N + 1
      BY <1>2, <1>4
    <3>2. \A x \in i + 2 .. N + 1 : x \in Nat /\ x >= 1 /\ x + 1 \in Nat /\ x + 1 > i
      BY <1>2
    <3>3. QED
      BY <1>3, <1>4, <3>1, <3>2
  <2>3. QED
    BY <2>2 DEF W, Then
<1>7. names = AfterNames(g, i + 1)
  <2>1. {j \in i + 1 .. N + 1 : K(j) # "CHAIN"} = {j \in i + 1 .. g.count + 1 : Kind(g, j) # "CHAIN"}
    BY <1>2, <1>3
  <2> QED BY <2>1 DEF AfterNames
<1>8. names \in i + 1 .. N + 1
  <2>1. i + 1 \in Places(g)
    BY <1>2 DEF Places
  <2>2. QED
    BY <1>2, <1>7, <2>1, AfterNamesIs
<1>9. inside = Inside(g, i) /\ inside \in Nat /\ inside > i
  <2> HIDE DEF names
  <2>1. K(names) = Kind(g, names)
    BY <1>2, <1>3, <1>8
  <2>2. QED
    BY <1>2, <1>7, <1>8, <2>1 DEF Inside
<1> HIDE DEF names, inside
<1>10. imported = IF Kind(g, i + 2) # "as" THEN {i + 2}
                  ELSE IF Kind(g, i + 3) = "CHAIN" /\ i + 3 \in g.simple THEN {i + 4} ELSE {}
  <2>1. K(i + 2) = Kind(g, i + 2) /\ K(i + 3) = Kind(g, i + 3)
    BY <1>2, <1>3
  <2>2. Kind(g, i + 3) = "CHAIN" => (Simple(i + 3) <=> i + 3 \in g.simple)
    BY <1>2 DEF Kind, OfTokens
  <2>3. QED
    BY <2>1, <2>2
<1> HIDE DEF imported
<1>11. unit = UnitOf(g, i)
  <2>1. K(i) = Kind(g, i) /\ K(i + 1) = Kind(g, i + 1) /\ U(i + 1) = Unit(g, i + 1)
    BY <1>2, <1>3, <1>4
  <2>2. \A by : C(i + 1, by) = Closed(g, i + 1, by)
    BY <1>2, <1>5
  <2>3. \A by : C(inside, by) = Closed(g, Inside(g, i), by)
    BY <1>5, <1>9
  <2> DEFINE Rules(k, k1, u, c, d, w1, w2) ==
               CASE k \in WordKinds       -> {i + 1}
                 [] k \in PrefixKinds    -> u
                 [] k = "CHAIN("      -> c
                 [] k = "("           -> c
                 [] k \in {"{", ":{"} -> d
                 [] k = "then"        -> u \cup w1
                 [] k = "until"       -> u \cup w2
                 [] k \in {"else", "do"} -> u
                 [] k = "import" /\ k1 = "CHAIN" -> imported
                 [] OTHER -> {}
             d1 == C(inside, "}")
             d2 == Closed(g, Inside(g, i), "}")
  <2>4. unit = Rules(K(i), K(i + 1), U(i + 1), C(i + 1, ")"), d1, W(i + 1, "else"), W(i + 1, "do"))
    BY Zenon
  <2>5. UnitOf(g, i)
          = Rules(Kind(g, i), Kind(g, i + 1), Unit(g, i + 1), Closed(g, i + 1, ")"), d2,
                  Then(g, i + 1, "else"), Then(g, i + 1, "do"))
    BY <1>10, Zenon DEF UnitOf
  <2>6. d1 = d2
    BY <2>3, Zenon
  <2>7. W(i + 1, "else") = Then(g, i + 1, "else") /\ W(i + 1, "do") = Then(g, i + 1, "do")
    BY <1>6
  <2>8. C(i + 1, ")") = Closed(g, i + 1, ")")
    BY <2>2
  <2> HIDE DEF Rules, d1, d2, unit
  <2>9. QED
    BY <2>1, <2>4, <2>5, <2>6, <2>7, <2>8
<1> HIDE DEF unit
<1>12. UnitOf(g, i) \subseteq i + 1 .. g.count + 1
  <2> DEFINE k == Kind(g, i)
             R == i + 1 .. g.count + 1
  <2>1. \A j \in Nat : \A by : j > i /\ by # "end" => Closed(g, j, by) \subseteq R
    <3>1. SUFFICES ASSUME NEW j \in Nat, NEW by, j > i, by # "end",
                          NEW x \in {j} \cup Body(g, j), Kind(g, x) = by
                   PROVE  x + 1 \in R
      BY DEF Closed
    <3>2. x \in 1 .. g.count
      BY <3>1 DEF Kind
    <3>3. x > i
      BY <1>2, <1>4, <3>1
    <3>4. QED
      BY <1>2, <3>2, <3>3
  <2>2. CloseBrace # "end" /\ ")" # "end"
    BY Zenon DEF CloseBrace
  <2>3. Unit(g, i + 1) \subseteq i + 2 .. g.count + 1
    BY <1>2, <1>4
  <2>4. Unit(g, i + 1) \subseteq R
    BY <1>2, <2>3
  <2>5. \A word : Then(g, i + 1, word) \subseteq R
    <3>1. SUFFICES ASSUME NEW x \in Unit(g, i + 1)
                   PROVE  Unit(g, x + 1) \subseteq R
      BY DEF Then
    <3>2. x \in Nat /\ x + 1 \in Nat /\ x + 1 > i
      BY <1>2, <2>3
    <3>3. Unit(g, x + 1) \subseteq x + 2 .. N + 1
      BY <1>2, <1>4, <3>2
    <3>4. QED
      BY <1>2, <3>2, <3>3
  <2>6. \A j \in Nat : Kind(g, j) # "end" => j <= g.count
    BY DEF Kind
  <2>7. i + 1 \in R
    BY <1>2
  <2>8. Kind(g, i + 1) = "CHAIN" => i + 2 \in R
    BY <1>2, <2>6
  <2>9. Kind(g, i + 3) = "CHAIN" => i + 4 \in R
    BY <1>2, <2>6
  <2>10. \/ k \in Literals \cup ChainKinds \/ k \in Braces
         \/ k \in {"CHAIN:", "CHAIN!"} \cup Prefixed \/ k \in {"CHAIN(", "("}
         \/ k = "then" \/ k = "until" \/ k \in {"else", "do"} \/ k = "import"
         \/ k \notin Literals \cup ChainKinds \cup Prefixed \cup OtherKinds
    <3> HIDE DEF k
    <3>1. QED
      BY Zenon DEF OtherKinds
  <2>11. CASE k \in Literals \cup ChainKinds
    <3>1. UnitOf(g, i) = {i + 1}
      BY <2>11, UnitOfCases
    <3>2. QED
      BY <2>7, <3>1
  <2>12. CASE k \in Braces
    <3>1. UnitOf(g, i) = Closed(g, Inside(g, i), CloseBrace)
      BY <2>12, UnitOfCases
    <3>2. QED
      BY <1>9, <2>1, <2>2, <3>1
  <2>13. CASE k \in {"CHAIN:", "CHAIN!"} \cup Prefixed
    <3>1. UnitOf(g, i) = Unit(g, i + 1)
      BY <2>13, UnitOfCases
    <3>2. QED
      BY <2>4, <3>1
  <2>14. CASE k \in {"CHAIN(", "("}
    <3>1. UnitOf(g, i) = Closed(g, i + 1, ")")
      BY <2>14, UnitOfCases
    <3>2. i + 1 \in Nat /\ i + 1 > i
      BY <1>2
    <3>3. Closed(g, i + 1, ")") \subseteq R
      <4> HIDE DEF R
      <4> QED BY <2>1, <2>2, <3>2
    <3>4. QED
      BY <3>1, <3>3
  <2>15. CASE k = "then"
    <3>1. UnitOf(g, i) = Unit(g, i + 1) \cup Then(g, i + 1, "else")
      BY <2>15, UnitOfCases
    <3>2. QED
      BY <2>4, <2>5, <3>1
  <2>16. CASE k = "until"
    <3>1. UnitOf(g, i) = Unit(g, i + 1) \cup Then(g, i + 1, "do")
      BY <2>16, UnitOfCases
    <3>2. QED
      BY <2>4, <2>5, <3>1
  <2>17. CASE k \in {"else", "do"}
    <3>1. UnitOf(g, i) = Unit(g, i + 1)
      BY <2>17, UnitOfCases
    <3>2. QED
      BY <2>4, <3>1
  <2>18. CASE k = "import"
    <3>1. UnitOf(g, i) = {q \in {IF Kind(g, i + 2) = "as" THEN i + 4 ELSE i + 2} :
                            /\ Kind(g, i + 1) = "CHAIN"
                            /\ Kind(g, i + 2) = "as" =>
                                 Kind(g, i + 3) = "CHAIN" /\ i + 3 \in g.simple}
      BY <2>18, UnitOfCases
    <3>2. QED
      BY <2>8, <2>9, <3>1
  <2>19. CASE k \notin Literals \cup ChainKinds \cup Prefixed \cup OtherKinds
    <3>1. UnitOf(g, i) = {}
      BY <2>19, UnitOfCases
    <3>2. QED
      BY <3>1
  <2> HIDE DEF k, R
  <2>20. UnitOf(g, i) \subseteq R
    BY <2>10, <2>11, <2>12, <2>13, <2>14, <2>15, <2>16, <2>17, <2>18, <2>19 DEF R
  <2>21. QED
    BY <2>20 DEF R
<1>13. \A e \in unit : B(e) = Body(g, e)
  <2>1. \A e \in i + 1 .. g.count + 1 : e \in Nat /\ e > i
    BY <1>2
  <2>2. QED
    BY <1>4, <1>11, <1>12, <2>1
<1>14. QED
  BY <1>1, <1>11, <1>12, <1>13

\* The rules of the grammar are those of the table.
LEMMA LanguageIs ==
  ASSUME Len(tokens) \in Nat
  PROVE  OfTokens(Language) /\ IsGrammar(Language)
<1> DEFINE g == Language
           N == Len(tokens)
           R(j) == j + 1 .. N + 1
<1>1. g.count = N /\ g.at = Spans /\ OfTokens(g)
  BY DEF Language, OfTokens
<1> HIDE DEF g
<1>2. PICK from : IsTable(from) /\ Spans = from[1]
  BY TableExists
<1>3. \A i \in 1 .. N : from[i] = Extend(from[i + 1], i)
  <2>1. \A i \in 1 .. N : i \in 1 .. N + 1 /\ ~(i > N)
    OBVIOUS
  <2>2. QED
    BY <1>2, <2>1 DEF IsTable
<1>4. \A i \in 1 .. N : \A j \in i .. N :
        from[i][j] = IF j = i THEN SpansAt(from[i + 1], i) ELSE from[i + 1][j]
  <2>1. ASSUME NEW i \in 1 .. N, NEW j \in i .. N
        PROVE  from[i][j] = IF j = i THEN SpansAt(from[i + 1], i) ELSE from[i + 1][j]
    <3>1. PICK row : row = from[i + 1]
      OBVIOUS
    <3>2. from[i] = [k \in i .. Len(tokens) |-> IF k = i THEN SpansAt(row, i) ELSE row[k]]
      BY <1>3, <3>1, Zenon DEF Extend
    <3>3. from[i][j] = IF j = i THEN SpansAt(row, i) ELSE row[j]
      BY <3>2, Zenon
    <3>4. QED
      BY <3>1, <3>3, Zenon
  <2>2. QED
    BY <2>1
\* A row of the table is that of the last to be filled.
<1>5. \A i \in 1 .. N : \A j \in 1 .. i : from[j][i] = from[i][i]
  <2>1. SUFFICES ASSUME NEW i \in 1 .. N
                 PROVE  \A j \in 1 .. i : from[j][i] = from[i][i]
    OBVIOUS
  <2> DEFINE T == {k \in Nat : k < i => from[i - k][i] = from[i][i]}
  <2>2. 0 \in T
    BY <2>1
  <2>3. ASSUME NEW k \in Nat, k \in T
        PROVE  k + 1 \in T
    <3>1. SUFFICES ASSUME k + 1 < i
                   PROVE  from[i - (k + 1)][i] = from[i][i]
      OBVIOUS
    <3> DEFINE j == i - (k + 1)
    <3>2. j \in 1 .. N /\ i \in j .. N /\ i # j /\ j + 1 = i - k
      BY <2>1, <3>1
    <3> HIDE DEF j
    <3>3. from[j][i] = from[j + 1][i]
      BY <1>4, <3>2
    <3>4. QED
      BY <2>3, <3>1, <3>2, <3>3 DEF j
  <2>4. Nat \subseteq T
    <3> HIDE DEF T
    <3> QED BY <2>2, <2>3, SetInduction
  <2>5. SUFFICES ASSUME NEW j \in 1 .. i
                 PROVE  from[j][i] = from[i][i]
    OBVIOUS
  <2>6. i - j \in Nat /\ i - j < i /\ i - (i - j) = j
    BY <2>1
  <2>7. QED
    BY <2>4, <2>6
<1>6. \A i \in 1 .. N : Spans[i] = from[i][i]
  <2>1. \A i \in 1 .. N : 1 \in 1 .. i
    OBVIOUS
  <2>2. QED
    BY <1>2, <1>5, <2>1
<1> DEFINE Rule(i) ==
             LET unit == UnitOf(g, i)
             IN  /\ g.at[i] = [unit |-> unit, body |-> unit \cup UNION {Body(g, e) : e \in unit}]
                 /\ unit \subseteq R(i)
           Onward(j) == Unit(g, j) \subseteq R(j) /\ Body(g, j) \subseteq R(j)
<1>7. ASSUME NEW i \in 1 .. N, \A j \in i + 1 .. N : Onward(j)
      PROVE  Rule(i) /\ Onward(i)
  <2> DEFINE at == from[i + 1]
  <2>1. \A j \in i + 1 .. N : Unit(g, j) = at[j].unit /\ Body(g, j) = at[j].body
    <3>1. SUFFICES ASSUME NEW j \in i + 1 .. N
                   PROVE  Unit(g, j) = at[j].unit /\ Body(g, j) = at[j].body
      OBVIOUS
    <3>2. j \in 1 .. N /\ i + 1 \in 1 .. j
      BY <1>7, <3>1
    <3>3. from[i + 1][j] = Spans[j]
      BY <1>5, <1>6, <3>2
    <3>4. QED
      BY <1>1, <3>2, <3>3 DEF Unit, Body
  <2>2. from[i][i] = SpansAt(at, i)
    <3>1. i \in i .. N
      BY <1>7
    <3>2. QED
      BY <1>4, <3>1
  <2> HIDE DEF at
  <2>3. \A j \in i + 1 .. g.count :
           /\ Unit(g, j) = at[j].unit /\ Body(g, j) = at[j].body
           /\ Unit(g, j) \subseteq j + 1 .. g.count + 1
           /\ Body(g, j) \subseteq j + 1 .. g.count + 1
    BY <1>1, <1>7, <2>1
  <2>4. i \in 1 .. g.count
    BY <1>1
  <2> DEFINE unit == UnitOf(g, i)
  <2>5. /\ SpansAt(at, i)
             = [unit |-> unit, body |-> unit \cup UNION {Body(g, e) : e \in unit}]
        /\ unit \subseteq i + 1 .. g.count + 1
    BY <1>1, <2>3, <2>4, SpansAtIs
  <2> HIDE DEF unit
  <2>6. g.at[i] = [unit |-> unit, body |-> unit \cup UNION {Body(g, e) : e \in unit}]
    BY <1>1, <1>6, <2>2, <2>5
  <2>7. unit \subseteq R(i)
    BY <1>1, <2>5
  <2>8. Unit(g, i) = unit /\ Body(g, i) = unit \cup UNION {Body(g, e) : e \in unit}
    BY <2>4, <2>6 DEF Unit, Body
  <2>9. \A e \in R(i) : Body(g, e) \subseteq R(i)
    <3>1. SUFFICES ASSUME NEW e \in R(i)
                   PROVE  Body(g, e) \subseteq R(i)
      OBVIOUS
    <3>2. CASE e \in i + 1 .. N
      <4>1. Body(g, e) \subseteq R(e)
        BY <1>7, <3>2
      <4>2. QED
        BY <1>7, <3>2, <4>1
    <3>3. CASE e \notin i + 1 .. N
      BY <1>1, <1>7, <3>1, <3>3 DEF Body
    <3>4. QED
      BY <3>2, <3>3
  <2> HIDE DEF R
  <2>10. Onward(i)
    BY <2>7, <2>8, <2>9
  <2>11. QED
    BY <2>6, <2>7, <2>10 DEF unit
<1> HIDE DEF Rule, Onward
<1> DEFINE T == {k \in Nat : \A i \in 1 .. N : i + k >= N => Onward(i)}
<1>8. 0 \in T
  <2>1. \A i \in 1 .. N : i + 0 >= N => \A j \in i + 1 .. N : Onward(j)
    OBVIOUS
  <2>2. QED
    BY <1>7, <2>1
<1>9. ASSUME NEW k \in Nat, k \in T
      PROVE  k + 1 \in T
  <2>1. SUFFICES ASSUME NEW i \in 1 .. N, i + (k + 1) >= N
                 PROVE  Onward(i)
    OBVIOUS
  <2>2. \A j \in i + 1 .. N : j \in 1 .. N /\ j + k >= N
    BY <2>1
  <2>3. \A j \in i + 1 .. N : Onward(j)
    BY <1>9, <2>2
  <2>4. QED
    BY <1>7, <2>3
<1>10. Nat \subseteq T
  <2> HIDE DEF T
  <2> QED BY <1>8, <1>9, SetInduction
<1>11. \A i \in 1 .. N : Onward(i)
  <2>1. N \in T
    BY <1>10
  <2>2. \A i \in 1 .. N : i + N >= N
    OBVIOUS
  <2>3. QED
    BY <2>1, <2>2
<1>12. \A i \in 1 .. N : Rule(i)
  <2>1. \A i \in 1 .. N : \A j \in i + 1 .. N : j \in 1 .. N
    OBVIOUS
  <2>2. QED
    BY <1>7, <1>11, <2>1
<1>13. IsGrammar(g)
  <2>1. SUFFICES ASSUME NEW i \in 1 .. N
                 PROVE  /\ Unit(g, i) = UnitOf(g, i)
                        /\ Body(g, i) = Unit(g, i) \cup UNION {Body(g, e) : e \in Unit(g, i)}
                        /\ Unit(g, i) \subseteq i + 1 .. N + 1
                        /\ Body(g, i) \subseteq i + 1 .. N + 1
    BY <1>1 DEF IsGrammar
  <2>2. Rule(i) /\ Onward(i)
    BY <1>11, <1>12
  <2> DEFINE unit == UnitOf(g, i)
  <2>3. g.at[i] = [unit |-> unit, body |-> unit \cup UNION {Body(g, e) : e \in unit}]
    BY <2>2 DEF Rule
  <2>4. i \in 1 .. g.count
    BY <1>1
  <2> HIDE DEF unit
  <2>5. Unit(g, i) = unit /\ Body(g, i) = unit \cup UNION {Body(g, e) : e \in unit}
    BY <2>3, <2>4 DEF Unit, Body
  <2>6. QED
    BY <2>2, <2>5 DEF Onward, unit
<1>14. QED
  BY <1>1, <1>13 DEF g

\* Nothing begins with a closing bracket, at the end, or with a token of no kind.
LEMMA UnitNone ==
  ASSUME NEW g, IsGrammar(g), NEW p, Kind(g, p) \in Enders \cup {"ERROR", "=>"}
  PROVE  Unit(g, p) = {} /\ Body(g, p) = {}
<1> DEFINE k == Kind(g, p)
<1>1. CASE p \in 1 .. g.count
  <2>1. Unit(g, p) = UnitOf(g, p) /\ Body(g, p) = Unit(g, p) \cup UNION {Body(g, e) : e \in Unit(g, p)}
    BY <1>1 DEF IsGrammar
  <2>2. /\ CloseBrace \notin Literals \cup ChainKinds \cup Prefixed \cup OtherKinds
        /\ \A w \in {")", "end", "ERROR", "=>"} :
             w \notin Literals \cup ChainKinds \cup Prefixed \cup OtherKinds
    BY Zenon DEF Literals, ChainKinds, Prefixed, OtherKinds, Operators, Specials, CloseBrace,
                 Braces
  <2>3. QED
    BY <2>1, <2>2, UnitOfCases DEF Enders, Brackets
<1>2. CASE p \notin 1 .. g.count
  BY <1>2 DEF Unit, Body
<1>3. QED
  BY <1>1, <1>2

\* No token without a kind is part of a unit.
Clean(g, a, b) == \A j \in a .. b - 1 : Kind(g, j) # "ERROR"

LEMMA CleanJoins ==
  ASSUME NEW g, NEW a \in Int, NEW b \in Int, NEW c \in Int, Clean(g, a, b), Clean(g, b, c)
  PROVE  Clean(g, a, c)
BY DEF Clean

LEMMA CleanOne ==
  ASSUME NEW g, NEW a \in Int, Kind(g, a) # "ERROR"
  PROVE  Clean(g, a, a + 1)
<1>1. \A j \in a .. (a + 1) - 1 : j = a
  OBVIOUS
<1>2. QED
  BY <1>1 DEF Clean

LEMMA UnitsClean ==
  ASSUME NEW g, IsGrammar(g)
  PROVE  \A p \in 1 .. g.count : /\ \A e \in Unit(g, p) : Clean(g, p, e)
                                 /\ \A e \in Body(g, p) : Clean(g, p, e)
<1> DEFINE N == g.count
           U(p) == \A e \in Unit(g, p) : Clean(g, p, e)
           B(p) == \A e \in Body(g, p) : Clean(g, p, e)
<1>1. N \in Nat
  BY DEF IsGrammar
<1>2. \A p \in 1 .. N : /\ Unit(g, p) \subseteq p + 1 .. N + 1
                        /\ Body(g, p) \subseteq p + 1 .. N + 1
  BY DEF IsGrammar
<1>3. ASSUME NEW p \in 1 .. N, \A j \in p + 1 .. N : U(j) /\ B(j)
      PROVE  U(p) /\ B(p)
  <2> DEFINE k == Kind(g, p)
  <2>1. \A j \in p + 1 .. N + 1 : U(j) /\ B(j)
    <3>1. \A j \in p + 1 .. N + 1 : j \in p + 1 .. N \/ j \notin 1 .. N
      BY <1>1
    <3>2. \A j : j \notin 1 .. N => U(j) /\ B(j)
      BY DEF Unit, Body
    <3>3. QED
      BY <1>3, <3>1, <3>2
  <2>2. \A j \in p + 1 .. N + 1 : Unit(g, j) \subseteq j + 1 .. N + 1 /\ Body(g, j) \subseteq j + 1 .. N + 1
    <3>1. \A j \in p + 1 .. N + 1 : j \in 1 .. N \/ j \notin 1 .. N
      OBVIOUS
    <3>2. \A j : j \notin 1 .. N => Unit(g, j) = {} /\ Body(g, j) = {}
      BY DEF Unit, Body
    <3>3. QED
      BY <1>2, <3>1, <3>2
  <2>3. \A j : Kind(g, j) # "end" => j \in 1 .. N
    BY DEF Kind
  <2> HIDE DEF U, B, N
  <2>4. ASSUME NEW e \in Unit(g, p)
        PROVE  Clean(g, p, e)
    <3>1. k # "ERROR"
      BY UnitNone DEF Enders
    <3>2. e \in p + 1 .. N + 1
      BY <1>2, <2>4
    <3>3. Clean(g, p, p + 1)
      BY <3>1, CleanOne
    <3>4. \A j \in p + 1 .. N + 1 : \A x \in Unit(g, j) \cup Body(g, j) : Clean(g, j, x)
      BY <2>1 DEF U, B
    <3>5. \A j \in p + 1 .. N + 1 : Clean(g, p, j) =>
            \A x \in {j} \cup Unit(g, j) \cup Body(g, j) : x \in p + 1 .. N + 1 /\ Clean(g, p, x)
      <4>1. SUFFICES ASSUME NEW j \in p + 1 .. N + 1, Clean(g, p, j),
                            NEW x \in Unit(g, j) \cup Body(g, j)
                     PROVE  x \in p + 1 .. N + 1 /\ Clean(g, p, x)
        OBVIOUS
      <4>2. x \in j + 1 .. N + 1 /\ Clean(g, j, x)
        BY <2>2, <3>4, <4>1
      <4>3. QED
        BY <1>1, <4>1, <4>2, CleanJoins
    <3>6. \A j \in p + 1 .. N + 1 : Clean(g, p, j) =>
            \A by : by # "end" /\ by # "ERROR" =>
              \A x \in Closed(g, j, by) : Clean(g, p, x)
      <4>1. SUFFICES ASSUME NEW j \in p + 1 .. N + 1, Clean(g, p, j), NEW by,
                            by # "end" /\ by # "ERROR",
                            NEW x \in {j} \cup Body(g, j), Kind(g, x) = by
                     PROVE  Clean(g, p, x + 1)
        BY DEF Closed
      <4>2. x \in p + 1 .. N + 1 /\ Clean(g, p, x)
        BY <3>5, <4>1
      <4>3. Clean(g, x, x + 1)
        BY <4>1, <4>2, CleanOne
      <4>4. QED
        BY <1>1, <4>2, <4>3, CleanJoins
    <3>7. p + 1 \in p + 1 .. N + 1
      BY <1>1
    <3>8. \A x \in Unit(g, p + 1) : Clean(g, p, x)
      BY <3>3, <3>5, <3>7
    <3>9. \A word \in {"else", "do"} : \A x \in Then(g, p + 1, word) : Clean(g, p, x)
      <4>1. SUFFICES ASSUME NEW word \in {"else", "do"}, NEW x \in Unit(g, p + 1),
                            Kind(g, x) = word, NEW y \in Unit(g, x + 1)
                     PROVE  Clean(g, p, y)
        BY DEF Then
      <4>2. x \in p + 1 .. N + 1 /\ Clean(g, p, x)
        BY <3>3, <3>5, <3>7
      <4>3. Clean(g, x, x + 1) /\ x \in 1 .. N
        BY <2>3, <4>1, <4>2, CleanOne
      <4>4. Clean(g, p, x + 1) /\ x + 1 \in p + 1 .. N + 1
        BY <1>1, <4>2, <4>3, CleanJoins
      <4>5. QED
        BY <3>5, <4>1, <4>4
    <3>10. k \in Braces => Inside(g, p) \in p + 1 .. N + 1 /\ Clean(g, p, Inside(g, p))
      <4> DEFINE a == AfterNames(g, p + 1)
      <4>1. /\ a \in p + 1 .. N + 1
            /\ \A j \in p + 1 .. a - 1 : Kind(g, j) = "CHAIN"
        BY <1>1, AfterNamesIs DEF Places, N
      <4> HIDE DEF a
      <4>2. Clean(g, p + 1, a)
        BY <4>1 DEF Clean
      <4>3. Clean(g, p, a)
        BY <1>1, <3>3, <4>1, <4>2, CleanJoins
      <4>4. CASE Kind(g, a) = "=>"
        <5>1. Clean(g, a, a + 1) /\ a \in 1 .. N
          BY <2>3, <4>1, <4>4, CleanOne
        <5>2. Inside(g, p) = a + 1
          BY <4>4 DEF Inside, a
        <5>3. Clean(g, p, a + 1)
          BY <1>1, <4>1, <4>3, <5>1, CleanJoins
        <5>4. a + 1 \in p + 1 .. N + 1
          BY <1>1, <4>1, <5>1
        <5>5. QED
          BY <5>2, <5>3, <5>4
      <4>5. CASE Kind(g, a) # "=>"
        <5>1. Inside(g, p) = p + 1
          BY <4>5 DEF Inside, a
        <5>2. QED
          BY <3>3, <3>7, <5>1
      <4>6. QED
        BY <4>4, <4>5
    <3>11. CloseBrace # "end" /\ ")" # "end" /\ CloseBrace # "ERROR" /\ ")" # "ERROR"
      BY Zenon DEF CloseBrace
    <3>12. p \in 1 .. g.count
      BY DEF N
    <3>13. CASE k \in Literals \cup ChainKinds
      BY <2>4, <3>3, <3>12, <3>13, UnitCases
    <3>14. CASE k \in Braces
      <4>1. e \in Closed(g, Inside(g, p), CloseBrace)
        BY <2>4, <3>12, <3>14, UnitCases
      <4>2. QED
        BY <3>6, <3>10, <3>11, <3>14, <4>1
    <3>15. CASE k \in {"CHAIN:", "CHAIN!"} \cup Prefixed \cup {"else", "do"}
      BY <2>4, <3>8, <3>12, <3>15, UnitCases
    <3>16. CASE k \in {"CHAIN(", "("}
      <4>1. e \in Closed(g, p + 1, ")")
        BY <2>4, <3>12, <3>16, UnitCases
      <4>2. QED
        BY <3>3, <3>6, <3>7, <3>11, <4>1
    <3>17. CASE k \in {"then", "until"}
      BY <2>4, <3>8, <3>9, <3>12, <3>17, UnitCases
    <3>18. CASE k = "import"
      <4>1. /\ Kind(g, p + 1) = "CHAIN"
            /\ Kind(g, p + 2) # "as" => e = p + 2
            /\ Kind(g, p + 2) = "as" => e = p + 4 /\ Kind(g, p + 3) = "CHAIN"
        BY <2>4, <3>12, <3>18, UnitCases
      <4>2. \A j \in p .. e - 1 : Kind(g, j) # "ERROR"
        <5>1. \A j \in p .. p + 3 : j = p \/ j = p + 1 \/ j = p + 2 \/ j = p + 3
          OBVIOUS
        <5>2. \A j \in p .. p + 1 : j = p \/ j = p + 1
          OBVIOUS
        <5>3. CASE Kind(g, p + 2) = "as"
          <6>1. \A j \in p .. e - 1 : j \in p .. p + 3
            BY <4>1, <5>3
          <6>2. QED
            BY <3>1, <4>1, <5>1, <5>3, <6>1
        <5>4. CASE Kind(g, p + 2) # "as"
          <6>1. \A j \in p .. e - 1 : j \in p .. p + 1
            BY <4>1, <5>4
          <6>2. QED
            BY <3>1, <4>1, <5>2, <5>4, <6>1
        <5>5. QED
          BY <5>3, <5>4
      <4>3. QED
        BY <4>2 DEF Clean
    <3>19. CASE k \notin Literals \cup ChainKinds \cup Prefixed \cup OtherKinds
      BY <2>4, <3>12, <3>19, UnitCases
    <3> HIDE DEF k
    <3>20. QED
      BY <3>13, <3>14, <3>15, <3>16, <3>17, <3>18, <3>19, Zenon DEF OtherKinds
  <2>5. U(p)
    BY <2>4 DEF U
  <2>6. B(p)
    <3>1. SUFFICES ASSUME NEW e \in Unit(g, p), NEW x \in Body(g, e)
                   PROVE  Clean(g, p, x)
      BY <2>4 DEF B, IsGrammar, N
    <3>2. e \in p + 1 .. N + 1 /\ Clean(g, p, e)
      BY <1>2, <2>4
    <3>3. x \in e + 1 .. N + 1 /\ Clean(g, e, x)
      BY <2>1, <2>2, <3>2 DEF B
    <3>4. QED
      BY <1>1, <3>2, <3>3, CleanJoins
  <2>7. QED
    BY <2>5, <2>6
<1> HIDE DEF U, B, N
<1> DEFINE T == {k \in Nat : \A i \in 1 .. N : i + k >= N => U(i) /\ B(i)}
<1>4. 0 \in T
  <2>1. \A i \in 1 .. N : i + 0 >= N => \A j \in i + 1 .. N : U(j) /\ B(j)
    BY <1>1
  <2>2. QED
    BY <1>3, <2>1
<1>5. ASSUME NEW k \in Nat, k \in T
      PROVE  k + 1 \in T
  <2>1. SUFFICES ASSUME NEW i \in 1 .. N, i + (k + 1) >= N
                 PROVE  U(i) /\ B(i)
    OBVIOUS
  <2>2. \A j \in i + 1 .. N : j \in 1 .. N /\ j + k >= N
    BY <1>1, <2>1
  <2>3. \A j \in i + 1 .. N : U(j) /\ B(j)
    BY <1>5, <2>2
  <2>4. QED
    BY <1>3, <2>3
<1>6. Nat \subseteq T
  <2> HIDE DEF T
  <2> QED BY <1>4, <1>5, SetInduction
<1>7. \A i \in 1 .. N : U(i) /\ B(i)
  <2>1. N \in T
    BY <1>1, <1>6
  <2>2. \A i \in 1 .. N : i + N >= N
    BY <1>1
  <2>3. QED
    BY <2>1, <2>2
<1>8. QED
  BY <1>7 DEF U, B, N

-----------------------------------------------------------------------------
(* Chains: a token that has the form of one is cut into symbols.           *)

Cut(w, b) == Min({i \in b .. Len(w) : i = Len(w) \/ CharAt(w, i) = "."})

LEMMA CutIs ==
  ASSUME NEW w, Len(w) \in Nat, NEW b \in 0 .. Len(w)
  PROVE  /\ Cut(w, b) \in b .. Len(w)
         /\ Cut(w, b) = Len(w) \/ CharAt(w, Cut(w, b)) = "."
         /\ \A i \in b .. Cut(w, b) - 1 : CharAt(w, i) # "."
<1> DEFINE S == {i \in b .. Len(w) : i = Len(w) \/ CharAt(w, i) = "."}
<1>1. S \in SUBSET Nat /\ S # {}
  OBVIOUS
<1>2. Cut(w, b) = Min(S)
  BY DEF Cut
<1> HIDE DEF S
<1>3. Min(S) \in S /\ \A y \in S : Min(S) <= y
  BY <1>1, MinIs
<1>4. QED
  BY <1>2, <1>3 DEF S

IsCutting(from, w) ==
  from = [b \in 0 .. Len(w) + 1 |->
            IF b > Len(w) THEN <<>>
            ELSE <<SubSeq(w, b + 1, Cut(w, b))>> \o from[Cut(w, b) + 1]]

LEMMA CuttingExists ==
  ASSUME NEW w, Len(w) \in Nat
  PROVE  \E from : /\ IsCutting(from, w)
                   /\ ChainElems(w) = IF CharAt(w, 0) = "." THEN <<CharAt(w, 0)>> \o from[1]
                                      ELSE from[0]
<1> DEFINE N == Len(w)
           S == 0 .. N + 1
           R == {SubSeq(w, b + 1, e) : b \in 0 .. N, e \in 0 .. N}
           V == Seq(R)
           v(g, b) == IF b > N THEN <<>> ELSE <<SubSeq(w, b + 1, Cut(w, b))>> \o g[Cut(w, b) + 1]
           G == [g \in [S -> V] |-> [b \in S |-> v(g, b)]]
           m == [b \in S |-> N + 1 - b]
<1>1. m \in [S -> Nat]
  OBVIOUS
<1>2. \A b \in S : ~(b > N) => /\ Cut(w, b) + 1 \in S /\ m[Cut(w, b) + 1] < m[b]
                               /\ SubSeq(w, b + 1, Cut(w, b)) \in R
  <2>1. SUFFICES ASSUME NEW b \in S, ~(b > N)
                 PROVE  /\ Cut(w, b) + 1 \in S /\ m[Cut(w, b) + 1] < m[b]
                        /\ SubSeq(w, b + 1, Cut(w, b)) \in R
    OBVIOUS
  <2>2. b \in 0 .. N
    BY <2>1
  <2>3. Cut(w, b) \in b .. N
    BY <2>2, CutIs
  <2>4. Cut(w, b) \in 0 .. N
    BY <2>2, <2>3
  <2>5. QED
    BY <2>2, <2>3, <2>4
<1>3. ASSUME NEW g \in [S -> V], NEW b \in S
      PROVE  v(g, b) \in V
  <2>1. CASE b > N
    BY <2>1
  <2>2. CASE ~(b > N)
    <3> DEFINE x == SubSeq(w, b + 1, Cut(w, b))
               r == g[Cut(w, b) + 1]
    <3>1. x \in R /\ r \in V
      <4> HIDE DEF S, V, R, m
      <4> QED BY <1>2, <2>2
    <3> HIDE DEF x, r, R
    <3>2. <<x>> \o r \in V
      BY <3>1
    <3>3. QED
      BY <2>2, <3>2 DEF x, r
  <2>3. QED
    BY <2>1, <2>2
<1>4. G \in [[S -> V] -> [S -> V]]
  <2> HIDE DEF v, V, S
  <2> QED BY <1>3
<1>5. ASSUME NEW g \in [S -> V], NEW h \in [S -> V], NEW b \in S,
             \A c \in S : m[c] < m[b] => g[c] = h[c]
      PROVE  G[g][b] = G[h][b]
  <2>1. ~(b > N) => g[Cut(w, b) + 1] = h[Cut(w, b) + 1]
    <3> HIDE DEF S, m, V, R
    <3> QED BY <1>2, <1>5
  <2>2. v(g, b) = v(h, b)
    BY <2>1
  <2> HIDE DEF v, S, V
  <2>3. QED
    BY <2>2
<1>6. Recursive(G, S, V, m)
  <2> HIDE DEF G, m, S, V
  <2> QED BY <1>1, <1>4, <1>5 DEF Recursive
<1>7. \E f : IsCutting(f, w)
  <2>1. V # {}
    <3>1. <<>> \in V
      <4> HIDE DEF R
      <4> QED BY EmptySeq
    <3> HIDE DEF V
    <3>2. QED
      BY <3>1
  <2>2. PICK f \in [S -> V] : f = G[f]
    <3> HIDE DEF G, m, S, V
    <3> QED BY <1>6, <2>1, RecursionTheorem
  <2>3. f = [b \in S |-> v(f, b)]
    <3> HIDE DEF v, S, V
    <3> QED BY <2>2
  <2>4. IsCutting(f, w)
    <3> HIDE DEF V
    <3> QED BY <2>3, Zenon DEF IsCutting
  <2>5. QED
    BY <2>4
<1> DEFINE from == CHOOSE f : IsCutting(f, w)
           start == IF CharAt(w, 0) = "." THEN 1 ELSE 0
<1>8. IsCutting(from, w)
  BY <1>7
<1>9. ChainElems(w) = IF start = 1 THEN <<CharAt(w, 0)>> \o from[start] ELSE from[start]
  BY Zenon DEF ChainElems, IsCutting, Cut
<1> HIDE DEF from
<1>10. ChainElems(w) = IF CharAt(w, 0) = "." THEN <<CharAt(w, 0)>> \o from[1] ELSE from[0]
  BY <1>9
<1>11. QED
  BY <1>8, <1>10

\* The symbols of a chain: none is empty, and there is one if it has no dot.
LEMMA ChainIs ==
  ASSUME NEW w, Len(w) \in Nat, IsChain(w)
  PROVE  /\ ChainParses(w)
         /\ Len(ChainElems(w)) = 1 <=> "." \notin CharsOf(w)
<1> DEFINE N == Len(w)
           Begins(b) == b = N + 1 \/ (b \in 0 .. N - 1 /\ CharAt(w, b) # ".")
           Good(s) == /\ \E R : s \in Seq(R)
                      /\ \A i \in 1 .. Len(s) : Len(s[i]) > 0
<1>1. PICK from : /\ IsCutting(from, w)
                  /\ ChainElems(w) = IF CharAt(w, 0) = "." THEN <<CharAt(w, 0)>> \o from[1]
                                     ELSE from[0]
  BY CuttingExists
<1> DEFINE Elem(b) == <<SubSeq(w, b + 1, Cut(w, b))>>
           Rest(b) == from[Cut(w, b) + 1]
<1>2. from[N + 1] = <<>> /\ \A b \in 0 .. N : from[b] = Elem(b) \o Rest(b)
  <2>1. \A b \in 0 .. N + 1 : from[b] = IF b > N THEN <<>> ELSE Elem(b) \o Rest(b)
    <3> HIDE DEF Elem, Rest
    <3>1. from = [b \in 0 .. N + 1 |-> IF b > N THEN <<>> ELSE Elem(b) \o Rest(b)]
      BY <1>1, Zenon DEF IsCutting, Elem, Rest
    <3>2. QED
      BY <3>1
  <2>2. N + 1 \in 0 .. N + 1 /\ N + 1 > N
    OBVIOUS
  <2>3. \A b \in 0 .. N : b \in 0 .. N + 1 /\ ~(b > N)
    OBVIOUS
  <2> HIDE DEF Elem, Rest, N
  <2>4. QED
    BY <2>1, <2>2, <2>3
<1>3. /\ N > 0 /\ CharAt(w, N - 1) # "."
      /\ \A i \in 1 .. N - 1 : CharAt(w, i - 1) = "." => CharAt(w, i) # "."
  BY DEF IsChain, LastOf
<1>4. ASSUME NEW x, Len(x) > 0, NEW s, Good(s)
      PROVE  Good(<<x>> \o s) /\ Len(<<x>> \o s) = Len(s) + 1
  <2>1. PICK R : s \in Seq(R)
    BY <1>4
  <2>2. s \in Seq(R \cup {x}) /\ <<x>> \in Seq(R \cup {x})
    <3>1. s \in Seq(R \cup {x})
      BY <2>1, SeqMonotonic
    <3>2. QED
      BY <3>1
  <2> DEFINE t == <<x>> \o s
  <2>3. /\ t \in Seq(R \cup {x}) /\ Len(t) = Len(s) + 1 /\ Len(s) \in Nat
        /\ \A i \in 1 .. Len(s) + 1 : t[i] = IF i = 1 THEN x ELSE s[i - 1]
    BY <2>2, ConcatProperties
  <2>4. \A i \in 1 .. Len(s) + 1 : i = 1 \/ i - 1 \in 1 .. Len(s)
    BY <2>3
  <2> HIDE DEF t
  <2>5. Good(t)
    BY <1>4, <2>3, <2>4
  <2>6. QED
    BY <2>3, <2>5 DEF t
<1>5. ASSUME NEW b \in 0 .. N - 1, CharAt(w, b) # "."
      PROVE  /\ Cut(w, b) \in b + 1 .. N /\ Begins(Cut(w, b) + 1)
             /\ Len(SubSeq(w, b + 1, Cut(w, b))) > 0
             /\ Cut(w, b) # N => CharAt(w, Cut(w, b)) = "."
             /\ \A i \in b .. Cut(w, b) - 1 : CharAt(w, i) # "."
  <2>1. /\ Cut(w, b) \in b .. N
        /\ Cut(w, b) = N \/ CharAt(w, Cut(w, b)) = "."
        /\ \A i \in b .. Cut(w, b) - 1 : CharAt(w, i) # "."
    BY CutIs
  <2>2. Cut(w, b) # b
    BY <1>5, <2>1
  <2>3. Cut(w, b) \in b + 1 .. N
    BY <2>1, <2>2
  <2>4. Begins(Cut(w, b) + 1)
    <3>1. CASE Cut(w, b) = N
      BY <3>1
    <3>2. CASE Cut(w, b) # N
      <4>1. Cut(w, b) # N - 1
        BY <1>3, <2>1, <3>2
      <4> DEFINE i == Cut(w, b) + 1
      <4>2. i \in 1 .. N - 1 /\ i - 1 = Cut(w, b)
        BY <2>3, <3>2, <4>1
      <4>3. CharAt(w, i) # "."
        BY <1>3, <2>1, <3>2, <4>2
      <4> HIDE DEF i
      <4>4. QED
        BY <4>2, <4>3 DEF i
    <3>3. QED
      BY <3>1, <3>2
  <2>5. Len(SubSeq(w, b + 1, Cut(w, b))) > 0
    BY <2>3
  <2>6. QED
    BY <2>1, <2>3, <2>4, <2>5
<1> DEFINE T == {k \in Nat : \A b \in 0 .. N + 1 : b + k >= N + 1 /\ Begins(b) => Good(from[b])}
<1>6. from[N + 1] = <<>>
  <2> HIDE DEF Elem, Rest
  <2> QED BY <1>2
<1>7. Good(<<>>)
  OBVIOUS
<1>8. 0 \in T
  <2>1. \A b \in 0 .. N + 1 : b + 0 >= N + 1 => b = N + 1
    OBVIOUS
  <2> HIDE DEF Good, Begins
  <2>2. QED
    BY <1>6, <1>7, <2>1
<1> HIDE DEF Good
<1>9. ASSUME NEW k \in Nat, k \in T
      PROVE  k + 1 \in T
  <2>1. SUFFICES ASSUME NEW b \in 0 .. N + 1, b + (k + 1) >= N + 1, Begins(b)
                 PROVE  Good(from[b])
    OBVIOUS
  <2>2. CASE b = N + 1
    BY <1>6, <1>7, <2>2
  <2>3. CASE b # N + 1
    <3> DEFINE c == Cut(w, b) + 1
               x == SubSeq(w, b + 1, Cut(w, b))
    <3>1. b \in 0 .. N - 1 /\ CharAt(w, b) # "."
      BY <2>1, <2>3
    <3>2. Cut(w, b) \in b + 1 .. N /\ Begins(c) /\ Len(x) > 0
      BY <1>5, <3>1
    <3>3. c \in 0 .. N + 1 /\ c + k >= N + 1
      BY <2>1, <3>2
    <3>4. from[b] = <<x>> \o from[c]
      <4>1. b \in 0 .. N
        BY <3>1
      <4>2. from[b] = Elem(b) \o Rest(b)
        BY <1>2, <4>1
      <4>3. QED
        BY <4>2, Zenon
    <3> HIDE DEF c, x, Begins
    <3>5. Good(from[c])
      BY <1>9, <3>2, <3>3
    <3>6. QED
      BY <1>4, <3>2, <3>4, <3>5
  <2>4. QED
    BY <2>2, <2>3
<1>10. Nat \subseteq T
  <2> HIDE DEF T
  <2> QED BY <1>8, <1>9, SetInduction
<1>11. \A b \in 0 .. N + 1 : Begins(b) => Good(from[b])
  <2>1. N + 1 \in T
    <3> HIDE DEF T
    <3> QED BY <1>10
  <2>2. \A b \in 0 .. N + 1 : b + (N + 1) >= N + 1
    OBVIOUS
  <2> HIDE DEF Begins
  <2>3. QED
    BY <2>1, <2>2
<1>12. \A b \in 0 .. N + 1 : Good(from[b]) => Len(from[b]) \in Nat
  BY DEF Good
<1>13. \A i \in 0 .. N - 1 : CharAt(w, i) \in CharsOf(w)
  BY DEF CharsOf
<1>14. CASE CharAt(w, 0) = "."
  <2>1. N # 1 /\ 1 \in 1 .. N - 1 /\ 1 \in 0 .. N - 1 /\ 1 - 1 = 0 /\ 1 \in 0 .. N
    <3>1. N = 1 => N - 1 = 0
      OBVIOUS
    <3>2. N # 1
      BY <1>3, <1>14, <3>1
    <3>3. N \in Nat /\ N > 0
      BY <1>3
    <3> HIDE DEF N
    <3>4. QED
      BY <3>2, <3>3
  <2>2. CharAt(w, 1) # "."
    BY <1>3, <1>14, <2>1
  <2>3. Begins(1) /\ Good(from[1])
    BY <1>11, <2>1, <2>2
  <2>4. Len(CharAt(w, 0)) > 0
    BY <1>3 DEF CharAt
  <2> DEFINE x == CharAt(w, 0)
  <2>5. Good(<<x>> \o from[1]) /\ Len(<<x>> \o from[1]) = Len(from[1]) + 1
    BY <1>4, <2>3, <2>4
  <2>6. Len(from[1]) \in Nat /\ Len(from[1]) # 0
    <3>1. from[1] = <<SubSeq(w, 2, Cut(w, 1))>> \o from[Cut(w, 1) + 1]
      <4>1. from[1] = Elem(1) \o Rest(1)
        <5> HIDE DEF Elem, Rest
        <5> QED BY <1>2, <2>1
      <4>2. 1 + 1 = 2
        OBVIOUS
      <4>3. QED
        BY <4>1, <4>2, Zenon
    <3>2. /\ Cut(w, 1) \in 2 .. N /\ Begins(Cut(w, 1) + 1)
          /\ Len(SubSeq(w, 2, Cut(w, 1))) > 0
      BY <1>5, <2>1, <2>2
    <3> DEFINE y == SubSeq(w, 2, Cut(w, 1))
               s == from[Cut(w, 1) + 1]
    <3>3. Good(s) /\ Len(s) \in Nat
      BY <1>11, <1>12, <3>2
    <3> HIDE DEF y, s
    <3>4. Len(<<y>> \o s) = Len(s) + 1
      BY <1>4, <3>2, <3>3 DEF y
    <3>5. QED
      BY <3>1, <3>3, <3>4 DEF y, s
  <2>7. ChainElems(w) = <<x>> \o from[1] /\ "." \in CharsOf(w)
    BY <1>1, <1>3, <1>13, <1>14
  <2> HIDE DEF x
  <2>8. QED
    BY <2>5, <2>6, <2>7 DEF ChainParses, Good
<1>15. CASE CharAt(w, 0) # "."
  <2>1. ChainElems(w) = from[0]
    BY <1>1, <1>15
  <2>2. 0 \in 0 .. N - 1 /\ Begins(0) /\ Good(from[0])
    BY <1>3, <1>11, <1>15
  <2> DEFINE c == Cut(w, 0)
             y == SubSeq(w, 1, c)
             s == from[c + 1]
  <2>3. from[0] = <<y>> \o s
    <3>1. 0 \in 0 .. N /\ 0 + 1 = 1
      OBVIOUS
    <3>2. from[0] = Elem(0) \o Rest(0)
      BY <1>2, <3>1
    <3>3. QED
      BY <3>1, <3>2, Zenon
  <2>4. /\ c \in 1 .. N /\ Begins(c + 1) /\ Len(y) > 0
        /\ c # N => CharAt(w, c) = "."
        /\ \A i \in 0 .. c - 1 : CharAt(w, i) # "."
    BY <1>5, <1>15, <2>2
  <2>5. Good(s) /\ Len(s) \in Nat
    BY <1>11, <1>12, <2>4
  <2>6. Len(from[0]) = Len(s) + 1
    <3> HIDE DEF y, s
    <3> QED BY <1>4, <2>3, <2>4, <2>5
  <2>7. c = N => s = <<>>
    BY <1>6
  <2>8. c # N => Len(s) # 0
    <3>1. SUFFICES ASSUME c # N
                   PROVE  Len(s) # 0
      OBVIOUS
    <3> DEFINE d == c + 1
               z == SubSeq(w, d + 1, Cut(w, d))
               r == from[Cut(w, d) + 1]
    <3>2. d \in 0 .. N - 1 /\ CharAt(w, d) # "."
      BY <2>4, <3>1
    <3>3. Cut(w, d) \in d + 1 .. N /\ Begins(Cut(w, d) + 1) /\ Len(z) > 0
      BY <1>5, <3>2
    <3>4. Good(r) /\ Len(r) \in Nat
      <4>1. PICK e : e = Cut(w, d) + 1 /\ e \in 0 .. N + 1 /\ Begins(e)
        BY <3>2, <3>3
      <4>2. Good(from[e]) /\ Len(from[e]) \in Nat
        BY <1>11, <1>12, <4>1
      <4>3. QED
        BY <4>1, <4>2
    <3>5. s = <<z>> \o r
      <4>1. d \in 0 .. N
        BY <3>2
      <4>2. from[d] = Elem(d) \o Rest(d)
        BY <1>2, <4>1
      <4>3. QED
        BY <4>2, Zenon
    <3> HIDE DEF z, r, s
    <3>6. QED
      BY <1>4, <3>3, <3>4, <3>5
  <2>9. c = N <=> "." \notin CharsOf(w)
    BY <1>13, <2>4 DEF CharsOf
  <2>10. Len(ChainElems(w)) = 1 <=> "." \notin CharsOf(w)
    <3>1. c = N => Len(s) = 0
      BY <2>7
    <3> HIDE DEF s, c
    <3>2. QED
      BY <2>1, <2>5, <2>6, <2>8, <2>9, <3>1
  <2>11. ChainParses(w)
    BY <2>1, <2>2 DEF ChainParses, Good
  <2>12. QED
    BY <2>10, <2>11
<1>16. QED
  BY <1>14, <1>15

\* The kinds of tokens that have the form of a chain, but for their margins.
LEMMA KindOfIs ==
  ASSUME NEW w
  PROVE  LET stem == SubSeq(w, 1, Len(w) - 1)
         IN  /\ KindOf(w) = "CHAIN" => IsChain(w)
             /\ KindOf(w) \in {"$CHAIN", ">CHAIN", "?CHAIN", "&CHAIN"} => IsChain(From(w, 1))
             /\ KindOf(w) = ">>CHAIN" => IsChain(From(w, 2))
             /\ KindOf(w) \in {"CHAIN:", "CHAIN(", "CHAIN!"} => IsChain(stem)
<1> DEFINE stem == SubSeq(w, 1, Len(w) - 1)
           first == CharAt(w, 0)
           Names == {"CHAIN", "$CHAIN", ">CHAIN", ">>CHAIN", "?CHAIN", "&CHAIN",
                     "CHAIN:", "CHAIN(", "CHAIN!"}
           k == KindOf(w)
<1>1. \A x \in Keywords \cup Punctuation : x \notin Names
  BY Zenon DEF Keywords, Punctuation
<1>2. \A c \in DOMAIN IdentKinds : IdentKinds[c] \notin Names
  <2>1. \A c \in DOMAIN IdentKinds : IdentKinds[c] \in {"#IDENT", "@IDENT", "\\IDENT"}
    BY Zenon DEF IdentKinds
  <2>2. \A x \in {"#IDENT", "@IDENT", "\\IDENT"} : x \notin Names
    BY Zenon
  <2>3. QED
    BY <2>1, <2>2, Zenon
<1>3. \A c \in DOMAIN PrefixChain : PrefixChain[c] \in {"$CHAIN", ">CHAIN", "?CHAIN", "&CHAIN"}
  BY DEF PrefixChain
<1>4. \A c \in DOMAIN ChainSuffix : ChainSuffix[c] \in {"CHAIN:", "CHAIN(", "CHAIN!"}
  BY DEF ChainSuffix
<1> HIDE DEF stem, first
<1>5. \/ k = "NUMBER"
      \/ k \in Keywords \cup Punctuation
      \/ k = "DOTS"
      \/ k = "CHAIN" /\ IsChain(w)
      \/ k = "STRING"
      \/ \E c \in DOMAIN IdentKinds : k = IdentKinds[c]
      \/ k \in {"$CHAIN", ">CHAIN", "?CHAIN", "&CHAIN"} /\ IsChain(From(w, 1))
      \/ k = ">>CHAIN" /\ IsChain(From(w, 2))
      \/ k \in {"CHAIN:", "CHAIN(", "CHAIN!"} /\ IsChain(stem)
      \/ k = "ERROR"
  BY <1>3, <1>4, Zenon DEF KindOf, stem, first
<1> HIDE DEF k
<1>6. /\ k = "CHAIN" => IsChain(w)
      /\ k \in {"$CHAIN", ">CHAIN", "?CHAIN", "&CHAIN"} => IsChain(From(w, 1))
      /\ k = ">>CHAIN" => IsChain(From(w, 2))
      /\ k \in {"CHAIN:", "CHAIN(", "CHAIN!"} => IsChain(stem)
  BY <1>1, <1>2, <1>5, Zenon
<1>7. QED
  BY <1>6 DEF k, stem

LEMMA ChainTextIs ==
  ASSUME NEW w, Len(w) \in Nat, Len(w) > 0, KindOf(w) \in DOMAIN ChainMargins
  PROVE  LET text == ChainText(KindOf(w), w)
         IN  Len(text) \in Nat /\ IsChain(text)
<1> DEFINE k == KindOf(w)
           stem == SubSeq(w, 1, Len(w) - 1)
<1>1. /\ ChainMargins["CHAIN"] = <<0, 0>> /\ ChainMargins[">>CHAIN"] = <<2, 0>>
      /\ \A x \in {"CHAIN:", "CHAIN(", "CHAIN!"} : ChainMargins[x] = <<0, 1>>
      /\ \A x \in {"$CHAIN", ">CHAIN", "?CHAIN", "&CHAIN"} : ChainMargins[x] = <<1, 0>>
      /\ DOMAIN ChainMargins = {"CHAIN", ">>CHAIN"} \cup {"CHAIN:", "CHAIN(", "CHAIN!"}
                                 \cup {"$CHAIN", ">CHAIN", "?CHAIN", "&CHAIN"}
  BY DEF ChainMargins
<1>2. /\ k = "CHAIN" => IsChain(w)
      /\ k \in {"$CHAIN", ">CHAIN", "?CHAIN", "&CHAIN"} => IsChain(From(w, 1))
      /\ k = ">>CHAIN" => IsChain(From(w, 2))
      /\ k \in {"CHAIN:", "CHAIN(", "CHAIN!"} => IsChain(stem)
  BY KindOfIs
<1> HIDE DEF k
<1>3. CASE k = "CHAIN"
  <2>1. IsChain(w)
    BY <1>2, <1>3
  <2>2. ChainText(k, w) = SubSeq(w, 1, Len(w))
    BY <1>1, <1>3 DEF ChainText
  <2> DEFINE t == SubSeq(w, 1, Len(w))
  <2>3. /\ Len(t) = Len(w)
        /\ \A i \in 1 .. Len(w) : SubSeq(t, i, i) = SubSeq(w, i, i)
    BY <2>1
  <2>4. IsChain(t)
    <3>1. \A i \in 0 .. Len(w) - 1 : CharAt(t, i) = CharAt(w, i)
      <4>1. \A i \in 0 .. Len(w) - 1 : i + 1 \in 1 .. Len(w) /\ i < Len(w)
        OBVIOUS
      <4> HIDE DEF t
      <4>2. QED
        BY <2>3, <4>1 DEF CharAt
    <3>2. /\ CharAt(t, Len(w) - 1) = CharAt(w, Len(w) - 1)
          /\ \A i \in 0 .. Len(w) - 1 : i # 0 => CharAt(t, i - 1) = CharAt(w, i - 1)
      <4>1. \A i \in 0 .. Len(w) - 1 : i # 0 => i - 1 \in 0 .. Len(w) - 1
        OBVIOUS
      <4>2. Len(w) - 1 \in 0 .. Len(w) - 1
        OBVIOUS
      <4> HIDE DEF t
      <4>3. QED
        BY <3>1, <4>1, <4>2
    <3> HIDE DEF t
    <3>3. QED
      BY <2>1, <2>3, <3>1, <3>2 DEF IsChain, LastOf
  <2>5. QED
    BY <2>2, <2>3, <2>4 DEF k
<1>4. CASE k \in {"$CHAIN", ">CHAIN", "?CHAIN", "&CHAIN"}
  <2>1. ChainText(k, w) = From(w, 1)
    <3>1. ChainText(k, w) = SubSeq(w, 2, Len(w))
      BY <1>1, <1>4 DEF ChainText
    <3>2. QED
      BY <3>1 DEF From
  <2>2. Len(From(w, 1)) \in Nat
    BY DEF From
  <2>3. QED
    BY <1>2, <1>4, <2>1, <2>2 DEF k
<1>5. CASE k = ">>CHAIN"
  <2>1. ChainText(k, w) = From(w, 2)
    <3>1. ChainText(k, w) = SubSeq(w, 3, Len(w))
      BY <1>1, <1>5 DEF ChainText
    <3>2. QED
      BY <3>1 DEF From
  <2>2. Len(From(w, 2)) \in Nat
    BY DEF From
  <2>3. QED
    BY <1>2, <1>5, <2>1, <2>2 DEF k
<1>6. CASE k \in {"CHAIN:", "CHAIN(", "CHAIN!"}
  <2>1. ChainText(k, w) = stem
    BY <1>1, <1>6 DEF ChainText
  <2>2. Len(stem) \in Nat
    OBVIOUS
  <2>3. QED
    BY <1>2, <1>6, <2>1, <2>2 DEF k
<1>7. k \in DOMAIN ChainMargins
  BY DEF k
<1>8. QED
  BY <1>1, <1>3, <1>4, <1>5, <1>6, <1>7

LEMMA ChainTextWhole ==
  ASSUME NEW s, NEW a \in Nat, NEW b \in Nat, a <= b
  PROVE  LET w == SubSeq(s, a + 1, b) IN ChainText("CHAIN", w) = w
<1> DEFINE w == SubSeq(s, a + 1, b)
<1>1. w \in Seq({s[i] : i \in a + 1 .. b}) /\ Len(w) = b - a /\ b - a \in Nat
  OBVIOUS
<1>2. ChainMargins["CHAIN"] = <<0, 0>>
  BY DEF ChainMargins
<1> HIDE DEF w
<1>3. ChainText("CHAIN", w) = SubSeq(w, 1, Len(w))
  BY <1>1, <1>2 DEF ChainText
<1>4. SubSeq(w, 1, Len(w)) = w
  BY <1>1
<1>5. QED
  BY <1>3, <1>4 DEF w

-----------------------------------------------------------------------------
(* The shapes of what a call has left to do.                               *)

LEMMA StepsApart ==
  /\ CloseBrace \notin {"chain", "sig", "body", "binds", "sub", "alt", "else", "do", "next",
                        "path", "checkPath", "as", "name", "checkName", "unexpected", "none",
                        ")", "=>", "CHAIN", "ERROR", "end"}
  /\ Brackets \subseteq Closing /\ CloseBrace \in Brackets /\ ")" \in Brackets
  /\ Closing \subseteq StepNames
BY Zenon DEF CloseBrace, Brackets, Closing, StepNames

LEMMA ShapedTail ==
  ASSUME NEW todo \in Seq(StepNames), todo # <<>>, Shaped(todo)
  PROVE  LET rest == Tail(todo)
         IN  /\ rest \in Seq(StepNames) /\ Len(rest) = Len(todo) - 1
             /\ \A j \in 1 .. Len(rest) : rest[j] = todo[j + 1]
             /\ Shaped(rest)
             /\ \A step : Has(rest, step) => Has(todo, step)
             /\ Has(todo, Head(todo))
<1> DEFINE rest == Tail(todo)
<1>1. /\ rest \in Seq(StepNames) /\ Len(todo) \in Nat /\ Len(rest) = Len(todo) - 1
      /\ Len(rest) \in Nat
      /\ \A j \in 1 .. Len(rest) : rest[j] = todo[j + 1]
      /\ Head(todo) = todo[1]
  BY HeadTailProperties, LenProperties
<1> HIDE DEF rest
<1>2. \A j \in 1 .. Len(rest) : j + 1 \in 1 .. Len(todo)
  BY <1>1
<1>3. Shaped(rest)
  <2> SUFFICES ASSUME NEW j \in 1 .. Len(rest)
               PROVE  /\ rest[j] \in Calls \cup {"else", "do", "as"} =>
                           \A i \in j + 1 .. Len(rest) : rest[i] \in Closing
                      /\ rest[j] = "next" => j = Len(rest)
                      /\ rest[j] = "body" =>
                           \/ j + 1 <= Len(rest) /\ rest[j + 1] \in Brackets
                           \/ /\ j + 2 <= Len(rest) /\ rest[j + 1] = "binds"
                              /\ rest[j + 2] \in Brackets
                      /\ j < Len(rest) =>
                           /\ rest[j] = "path" <=> rest[j + 1] = "checkPath"
                           /\ rest[j] = "checkPath" <=> rest[j + 1] = "as"
                           /\ rest[j] = "name" <=> rest[j + 1] = "checkName"
                           /\ rest[j + 1] \notin {"path", "name"}
                      /\ rest[j] \in {"path", "name"} => j < Len(rest)
    BY DEF Shaped
  <2> DEFINE i == j + 1
  <2>1. i \in 1 .. Len(todo) /\ rest[j] = todo[i]
    BY <1>1, <1>2
  <2>2. /\ todo[i] \in Calls \cup {"else", "do", "as"} =>
             \A h \in i + 1 .. Len(todo) : todo[h] \in Closing
        /\ todo[i] = "next" => i = Len(todo)
        /\ todo[i] = "body" =>
             \/ i + 1 <= Len(todo) /\ todo[i + 1] \in Brackets
             \/ i + 2 <= Len(todo) /\ todo[i + 1] = "binds" /\ todo[i + 2] \in Brackets
        /\ i < Len(todo) =>
             /\ todo[i] = "path" <=> todo[i + 1] = "checkPath"
             /\ todo[i] = "checkPath" <=> todo[i + 1] = "as"
             /\ todo[i] = "name" <=> todo[i + 1] = "checkName"
             /\ todo[i + 1] \notin {"path", "name"}
        /\ todo[i] \in {"path", "name"} => i < Len(todo)
    BY <2>1 DEF Shaped
  <2>3. \A h \in j + 1 .. Len(rest) : h + 1 \in i + 1 .. Len(todo) /\ rest[h] = todo[h + 1]
    BY <1>1
  <2>4. j + 1 <= Len(rest) => i + 1 <= Len(todo) /\ rest[j + 1] = todo[i + 1]
    BY <1>1
  <2>5. j + 2 <= Len(rest) => i + 2 <= Len(todo) /\ rest[j + 2] = todo[i + 2]
    BY <1>1
  <2>6. /\ j + 1 <= Len(rest) <=> i + 1 <= Len(todo)
        /\ j + 2 <= Len(rest) <=> i + 2 <= Len(todo)
        /\ j < Len(rest) <=> i < Len(todo)
        /\ j = Len(rest) <=> i = Len(todo)
    BY <1>1
  <2>7. j < Len(rest) => j + 1 <= Len(rest)
    BY <1>1
  <2> HIDE DEF i
  <2>8. rest[j] \in Calls \cup {"else", "do", "as"} =>
          \A h \in j + 1 .. Len(rest) : rest[h] \in Closing
    BY <2>1, <2>2, <2>3
  <2>9. /\ rest[j] = "next" => j = Len(rest)
        /\ rest[j] \in {"path", "name"} => j < Len(rest)
    BY <2>1, <2>2, <2>6
  <2>10. rest[j] = "body" =>
           \/ j + 1 <= Len(rest) /\ rest[j + 1] \in Brackets
           \/ j + 2 <= Len(rest) /\ rest[j + 1] = "binds" /\ rest[j + 2] \in Brackets
    BY <2>1, <2>2, <2>4, <2>5, <2>6
  <2>11. j < Len(rest) =>
           /\ rest[j] = "path" <=> rest[j + 1] = "checkPath"
           /\ rest[j] = "checkPath" <=> rest[j + 1] = "as"
           /\ rest[j] = "name" <=> rest[j + 1] = "checkName"
           /\ rest[j + 1] \notin {"path", "name"}
    BY <2>1, <2>2, <2>4, <2>6, <2>7
  <2>12. QED
    BY <2>8, <2>9, <2>10, <2>11
<1>4. \A step : Has(rest, step) => Has(todo, step)
  BY <1>1, <1>2 DEF Has
<1>5. Has(todo, Head(todo))
  BY <1>1, EmptySeq DEF Has
<1>6. QED
  BY <1>1, <1>3, <1>4, <1>5 DEF rest

\* What follows a step.
LEMMA StepsFollow ==
  ASSUME NEW todo \in Seq(StepNames), todo # <<>>, Shaped(todo)
  PROVE  LET rest == Tail(todo)
         IN  /\ Head(todo) \notin {"path", "checkPath", "name"} =>
                  StepOf(rest) \notin {"path", "checkPath", "as", "name", "checkName"}
             /\ Head(todo) = "path" => rest # <<>> /\ StepOf(rest) = "checkPath"
             /\ Head(todo) = "name" => rest # <<>> /\ StepOf(rest) = "checkName"
             /\ Head(todo) = "checkPath" =>
                  StepOf(rest) \notin {"path", "checkPath", "name", "checkName"}
             /\ Head(todo) \in Calls \cup {"else", "do", "as"} =>
                  \A j \in 1 .. Len(rest) : rest[j] \in Closing
             /\ Head(todo) = "next" => rest = <<>>
             /\ Head(todo) = "body" =>
                  /\ rest # <<>>
                  /\ \/ Head(rest) \in Brackets
                     \/ /\ Head(rest) = "binds" /\ Tail(rest) # <<>>
                        /\ Head(Tail(rest)) \in Brackets
<1> DEFINE rest == Tail(todo)
<1>1. /\ rest \in Seq(StepNames) /\ Len(todo) \in Nat \ {0} /\ Len(rest) = Len(todo) - 1
      /\ Len(rest) \in Nat
      /\ \A j \in 1 .. Len(rest) : rest[j] = todo[j + 1]
      /\ Head(todo) = todo[1]
  BY HeadTailProperties, LenProperties, EmptySeq
<1>2. rest = <<>> \/ (rest # <<>> /\ Len(rest) >= 1 /\ Head(rest) = rest[1])
  <2> HIDE DEF rest
  <2> QED BY <1>1, EmptySeq, HeadTailProperties
<1>3. rest # <<>> => StepOf(rest) = rest[1]
  BY DEF StepOf
<1>4. rest = <<>> => StepOf(rest) = "none" /\ Len(rest) = 0
  BY EmptySeq DEF StepOf
<1>5. rest # <<>> => 1 < Len(todo) /\ rest[1] = todo[2]
  <2> HIDE DEF rest
  <2> QED BY <1>1, <1>2
<1> HIDE DEF rest
<1>6. /\ todo[1] \in Calls \cup {"else", "do", "as"} =>
           \A i \in 2 .. Len(todo) : todo[i] \in Closing
      /\ todo[1] = "next" => 1 = Len(todo)
      /\ todo[1] = "body" =>
           \/ 2 <= Len(todo) /\ todo[2] \in Brackets
           \/ 3 <= Len(todo) /\ todo[2] = "binds" /\ todo[3] \in Brackets
      /\ 1 < Len(todo) =>
           /\ todo[1] = "path" <=> todo[2] = "checkPath"
           /\ todo[1] = "checkPath" <=> todo[2] = "as"
           /\ todo[1] = "name" <=> todo[2] = "checkName"
           /\ todo[2] \notin {"path", "name"}
      /\ todo[1] \in {"path", "name"} => 1 < Len(todo)
  <2>1. 1 \in 1 .. Len(todo) /\ 1 + 1 = 2 /\ 1 + 2 = 3
    BY <1>1
  <2>2. QED
    BY <2>1 DEF Shaped
<1>7. /\ Head(todo) \notin {"path", "checkPath", "name"} =>
           StepOf(rest) \notin {"path", "checkPath", "as", "name", "checkName"}
      /\ Head(todo) = "path" => rest # <<>> /\ StepOf(rest) = "checkPath"
      /\ Head(todo) = "name" => rest # <<>> /\ StepOf(rest) = "checkName"
      /\ Head(todo) = "checkPath" =>
           StepOf(rest) \notin {"path", "checkPath", "name", "checkName"}
  <2>1. CASE rest = <<>>
    <3>1. Len(rest) = 0
      BY <1>4, <2>1
    <3>2. ~(1 < Len(todo))
      BY <1>1, <3>1
    <3>3. QED
      BY <1>1, <1>4, <1>6, <2>1, <3>2
  <2>2. CASE rest # <<>>
    BY <1>1, <1>3, <1>5, <1>6, <2>2
  <2>3. QED
    BY <2>1, <2>2
<1>8. Head(todo) \in Calls \cup {"else", "do", "as"} =>
        \A j \in 1 .. Len(rest) : rest[j] \in Closing
  <2>1. \A j \in 1 .. Len(rest) : j + 1 \in 2 .. Len(todo)
    BY <1>1
  <2>2. QED
    BY <1>1, <1>6, <2>1
<1>9. Head(todo) = "next" => rest = <<>>
  BY <1>1, <1>5, <1>6
<1>10. Head(todo) = "body" =>
         /\ rest # <<>>
         /\ \/ Head(rest) \in Brackets
            \/ /\ Head(rest) = "binds" /\ Tail(rest) # <<>>
               /\ Head(Tail(rest)) \in Brackets
  <2> SUFFICES ASSUME todo[1] = "body"
               PROVE  /\ rest # <<>>
                      /\ \/ Head(rest) \in Brackets
                         \/ /\ Head(rest) = "binds" /\ Tail(rest) # <<>>
                            /\ Head(Tail(rest)) \in Brackets
    BY <1>1
  <2>1. 2 <= Len(todo) /\ rest # <<>>
    BY <1>1, <1>4, <1>6
  <2>2. Head(rest) = todo[2]
    BY <1>2, <1>5, <2>1
  <2>3. ASSUME 3 <= Len(todo), todo[3] \in Brackets
        PROVE  Tail(rest) # <<>> /\ Head(Tail(rest)) \in Brackets
    <3> DEFINE r == Tail(rest)
    <3>1. r \in Seq(StepNames) /\ Len(r) = Len(rest) - 1 /\ \A j \in 1 .. Len(r) : r[j] = rest[j + 1]
      BY <1>1, <2>1, HeadTailProperties
    <3>2. Len(r) >= 1 /\ r[1] = rest[2] /\ rest[2] = todo[3]
      BY <1>1, <2>3, <3>1
    <3> HIDE DEF r
    <3>3. r # <<>> /\ Head(r) = r[1]
      BY <3>1, <3>2, EmptySeq, HeadTailProperties
    <3>4. QED
      BY <2>3, <3>2, <3>3 DEF r
  <2>4. QED
    BY <1>6, <2>1, <2>2, <2>3
<1>11. QED
  BY <1>7, <1>8, <1>9, <1>10 DEF rest

LEMMA ShapedNew ==
  ASSUME NEW rest \in Seq(StepNames), Shaped(rest), \A j \in 1 .. Len(rest) : rest[j] \in Closing
  PROVE  LET one == <<"alt">> \o rest
             two == <<"name", "checkName">> \o rest
         IN  /\ one \in Seq(StepNames) /\ Shaped(one) /\ one # <<>> /\ StepOf(one) = "alt"
             /\ Has(one, "next") => Has(rest, "next")
             /\ ~Has(one, "chain")
             /\ two \in Seq(StepNames) /\ Shaped(two) /\ two # <<>> /\ StepOf(two) = "name"
             /\ Has(two, "next") => Has(rest, "next")
             /\ ~Has(two, "chain")
<1> DEFINE one == <<"alt">> \o rest
           two == <<"name", "checkName">> \o rest
           N == Len(rest)
<1>1. N \in Nat /\ "alt" \in StepNames /\ "name" \in StepNames /\ "checkName" \in StepNames
  BY LenProperties DEF StepNames
<1>2. <<"alt">> \in Seq(StepNames) /\ <<"name", "checkName">> \in Seq(StepNames)
  BY <1>1
<1>3. /\ one \in Seq(StepNames) /\ Len(one) = N + 1 /\ one[1] = "alt"
      /\ \A j \in 2 .. N + 1 : one[j] = rest[j - 1]
  BY <1>1, <1>2, ConcatProperties
<1>4. /\ two \in Seq(StepNames) /\ Len(two) = N + 2 /\ two[1] = "name" /\ two[2] = "checkName"
      /\ \A j \in 3 .. N + 2 : two[j] = rest[j - 2]
  BY <1>1, <1>2, ConcatProperties
<1>5. Closing \cap {"alt", "name", "path", "checkPath", "checkName", "as", "chain", "body",
                    "sub"} = {}
  <2>1. CloseBrace \notin {"alt", "name", "path", "checkPath", "checkName", "as", "chain",
                           "body", "sub"}
    BY StepsApart
  <2>2. QED
    BY <2>1 DEF Closing, Brackets
<1>6. \A j \in 1 .. N : rest[j] = "next" => j = N
  BY DEF Shaped
<1> HIDE DEF one, two
<1>7. one # <<>> /\ StepOf(one) = "alt" /\ two # <<>> /\ StepOf(two) = "name"
  <2>1. one # <<>> /\ two # <<>>
    BY <1>1, <1>3, <1>4, EmptySeq
  <2>2. QED
    BY <1>3, <1>4, <2>1 DEF StepOf
<1>8. (Has(one, "next") => Has(rest, "next")) /\ ~Has(one, "chain")
  <2>1. \A j \in 1 .. N + 1 : j = 1 \/ (j \in 2 .. N + 1 /\ j - 1 \in 1 .. N)
    BY <1>1
  <2>2. QED
    BY <1>3, <1>5, <2>1 DEF Has
<1>9. (Has(two, "next") => Has(rest, "next")) /\ ~Has(two, "chain")
  <2>1. \A j \in 1 .. N + 2 : j = 1 \/ j = 2 \/ (j \in 3 .. N + 2 /\ j - 2 \in 1 .. N)
    BY <1>1
  <2>2. QED
    BY <1>4, <1>5, <2>1 DEF Has
<1>10. Shaped(one)
  <2> SUFFICES ASSUME NEW j \in 1 .. N + 1
               PROVE  /\ one[j] \in Calls \cup {"else", "do", "as"} =>
                           \A i \in j + 1 .. N + 1 : one[i] \in Closing
                      /\ one[j] = "next" => j = N + 1
                      /\ one[j] # "body"
                      /\ j < N + 1 =>
                           /\ one[j] \notin {"path", "checkPath", "name"}
                           /\ one[j + 1] \notin {"path", "checkPath", "as", "name", "checkName"}
                      /\ one[j] \notin {"path", "name"}
    BY <1>3 DEF Shaped
  <2>1. \A i \in 2 .. N + 1 : one[i] \in Closing /\ (one[i] = "next" => i = N + 1)
    <3>1. \A i \in 2 .. N + 1 : i - 1 \in 1 .. N /\ (i - 1 = N => i = N + 1)
      BY <1>1
    <3>2. QED
      BY <1>3, <1>6, <3>1
  <2>2. j = 1 \/ j \in 2 .. N + 1
    BY <1>1
  <2>3. \A i \in j + 1 .. N + 1 : i \in 2 .. N + 1
    BY <1>1
  <2>4. j < N + 1 => j + 1 \in 2 .. N + 1
    BY <1>1
  <2>5. QED
    BY <1>3, <1>5, <2>1, <2>2, <2>3, <2>4
<1>11. Shaped(two)
  <2> SUFFICES ASSUME NEW j \in 1 .. N + 2
               PROVE  /\ two[j] \in Calls \cup {"else", "do", "as"} =>
                           \A i \in j + 1 .. N + 2 : two[i] \in Closing
                      /\ two[j] = "next" => j = N + 2
                      /\ two[j] # "body"
                      /\ j < N + 2 =>
                           /\ two[j] \notin {"path", "checkPath"}
                           /\ two[j] = "name" <=> two[j + 1] = "checkName"
                           /\ two[j + 1] \notin {"path", "checkPath", "as", "name"}
                      /\ two[j] \in {"path", "name"} => j < N + 2
    BY <1>4 DEF Shaped
  <2>1. \A i \in 3 .. N + 2 : two[i] \in Closing /\ (two[i] = "next" => i = N + 2)
    <3>1. \A i \in 3 .. N + 2 : i - 2 \in 1 .. N /\ (i - 2 = N => i = N + 2)
      BY <1>1
    <3>2. QED
      BY <1>4, <1>6, <3>1
  <2>2. CASE j = 1
    <3>1. two[j] = "name" /\ two[j + 1] = "checkName" /\ j < N + 2
      BY <1>1, <1>4, <2>2
    <3>2. QED
      BY <3>1 DEF Calls
  <2>3. CASE j = 2
    <3>1. two[j] = "checkName"
      BY <1>4, <2>3
    <3>2. j < N + 2 => two[j + 1] \in Closing
      BY <1>1, <2>1, <2>3
    <3>3. QED
      BY <1>5, <3>1, <3>2 DEF Calls
  <2>4. CASE j \in 3 .. N + 2
    <3>1. \A i \in j + 1 .. N + 2 : i \in 3 .. N + 2
      BY <1>1, <2>4
    <3>2. j < N + 2 => j + 1 \in 3 .. N + 2
      BY <1>1, <2>4
    <3>3. QED
      BY <1>5, <2>1, <2>4, <3>1, <3>2
  <2>5. QED
    BY <1>1, <2>2, <2>3, <2>4
<1>12. QED
  BY <1>3, <1>4, <1>7, <1>8, <1>9, <1>10, <1>11 DEF one, two

LEMMA ShapedThen ==
  ASSUME NEW s \in Seq(StepNames), Shaped(s), ~Has(s, "next"),
         s # <<>> => s[Len(s)] # "checkPath"
  PROVE  LET t == s \o <<"next">>
         IN  /\ t \in Seq(StepNames) /\ Shaped(t)
             /\ s # <<>> => StepOf(t) = StepOf(s)
             /\ s = <<>> => StepOf(t) = "next"
             /\ Has(t, "chain") => Has(s, "chain")
<1> DEFINE t == s \o <<"next">>
           N == Len(s)
<1>1. N \in Nat /\ "next" \in StepNames
  BY LenProperties DEF StepNames
<1>2. <<"next">> \in Seq(StepNames) /\ Len(<<"next">>) = 1 /\ <<"next">>[1] = "next"
  BY <1>1
<1>3. /\ t \in Seq(StepNames) /\ Len(t) = N + 1 /\ t[N + 1] = "next"
      /\ \A j \in 1 .. N : t[j] = s[j]
  BY <1>1, <1>2, ConcatProperties
<1>4. "next" \in Closing /\ "next" \notin Brackets
  BY StepsApart DEF Closing, Brackets
<1> HIDE DEF t
<1>5. Shaped(t)
  <2> SUFFICES ASSUME NEW j \in 1 .. N + 1
               PROVE  /\ t[j] \in Calls \cup {"else", "do", "as"} =>
                           \A i \in j + 1 .. N + 1 : t[i] \in Closing
                      /\ t[j] = "next" => j = N + 1
                      /\ t[j] = "body" =>
                           \/ j + 1 <= N + 1 /\ t[j + 1] \in Brackets
                           \/ j + 2 <= N + 1 /\ t[j + 1] = "binds" /\ t[j + 2] \in Brackets
                      /\ j < N + 1 =>
                           /\ t[j] = "path" <=> t[j + 1] = "checkPath"
                           /\ t[j] = "checkPath" <=> t[j + 1] = "as"
                           /\ t[j] = "name" <=> t[j + 1] = "checkName"
                           /\ t[j + 1] \notin {"path", "name"}
                      /\ t[j] \in {"path", "name"} => j < N + 1
    BY <1>3 DEF Shaped
  <2>1. CASE j = N + 1
    <3>1. t[j] = "next" /\ ~(j < N + 1) /\ \A i \in j + 1 .. N + 1 : FALSE
      BY <1>1, <1>3, <2>1
    <3>2. QED
      BY <2>1, <3>1 DEF Calls
  <2>2. CASE j \in 1 .. N
    <3>1. /\ s[j] \in Calls \cup {"else", "do", "as"} =>
               \A i \in j + 1 .. N : s[i] \in Closing
          /\ s[j] = "body" =>
               \/ j + 1 <= N /\ s[j + 1] \in Brackets
               \/ j + 2 <= N /\ s[j + 1] = "binds" /\ s[j + 2] \in Brackets
          /\ j < N =>
               /\ s[j] = "path" <=> s[j + 1] = "checkPath"
               /\ s[j] = "checkPath" <=> s[j + 1] = "as"
               /\ s[j] = "name" <=> s[j + 1] = "checkName"
               /\ s[j + 1] \notin {"path", "name"}
          /\ s[j] \in {"path", "name"} => j < N
      BY <2>2 DEF Shaped
    <3>2. t[j] = s[j] /\ s[j] # "next" /\ j < N + 1
      BY <1>1, <1>3, <2>2 DEF Has
    <3>3. \A i \in j + 1 .. N + 1 : i = N + 1 \/ (i \in j + 1 .. N /\ t[i] = s[i])
      BY <1>1, <1>3, <2>2
    <3>4. t[j] \in Calls \cup {"else", "do", "as"} => \A i \in j + 1 .. N + 1 : t[i] \in Closing
      BY <1>3, <1>4, <3>1, <3>2, <3>3
    <3>5. /\ j + 1 <= N => t[j + 1] = s[j + 1] /\ j + 1 <= N + 1
          /\ j + 2 <= N => t[j + 2] = s[j + 2] /\ j + 2 <= N + 1
          /\ j + 2 <= N => j + 1 <= N
      BY <1>1, <1>3, <2>2
    <3>6. t[j] = "body" =>
            \/ j + 1 <= N + 1 /\ t[j + 1] \in Brackets
            \/ j + 2 <= N + 1 /\ t[j + 1] = "binds" /\ t[j + 2] \in Brackets
      BY <3>1, <3>2, <3>5
    <3>7. /\ t[j] = "path" <=> t[j + 1] = "checkPath"
          /\ t[j] = "checkPath" <=> t[j + 1] = "as"
          /\ t[j] = "name" <=> t[j + 1] = "checkName"
          /\ t[j + 1] \notin {"path", "name"}
      <4>1. CASE j = N
        <5>1. t[j + 1] = "next" /\ s[j] # "checkPath" /\ ~(j < N)
          BY <1>1, <1>3, <4>1, EmptySeq
        <5>2. QED
          BY <3>1, <3>2, <5>1
      <4>2. CASE j < N
        <5>1. t[j + 1] = s[j + 1]
          BY <1>1, <2>2, <3>5, <4>2
        <5>2. QED
          BY <3>1, <3>2, <4>2, <5>1
      <4>3. QED
        BY <1>1, <2>2, <4>1, <4>2
    <3>8. QED
      BY <3>2, <3>4, <3>6, <3>7
  <2>3. QED
    BY <1>1, <2>1, <2>2
<1>6. /\ s # <<>> => StepOf(t) = StepOf(s)
      /\ s = <<>> => StepOf(t) = "next"
  <2>1. t # <<>>
    BY <1>1, <1>3, EmptySeq
  <2>2. s # <<>> => t[1] = s[1]
    BY <1>1, <1>3, EmptySeq
  <2>3. s = <<>> => t[1] = "next"
    <3>1. s = <<>> => N = 0
      BY EmptySeq
    <3>2. QED
      BY <1>3, <3>1
  <2>4. QED
    BY <2>1, <2>2, <2>3 DEF StepOf
<1>7. Has(t, "chain") => Has(s, "chain")
  <2>1. \A j \in 1 .. N + 1 : j = N + 1 \/ j \in 1 .. N
    BY <1>1
  <2>2. QED
    BY <1>3, <2>1 DEF Has
<1>8. QED
  BY <1>3, <1>5, <1>6, <1>7 DEF t

Scripted(k, s) ==
  /\ s \in Seq(StepNames) /\ Shaped(s) /\ ~Has(s, "next")
  /\ s # <<>> => s[Len(s)] # "checkPath"
  /\ StepOf(s) \notin {"checkPath", "as", "name", "checkName"}
  /\ StepOf(s) = "path" => k = "import"
  /\ Has(s, "chain") => k \in DOMAIN ChainMargins

LEMMA ScriptShaped ==
  ASSUME NEW k
  PROVE  Scripted(k, Script(k))
<1>1. DOMAIN ChainMargins = ChainKinds \cup {"CHAIN:", "CHAIN(", "CHAIN!"}
  BY DEF ChainMargins, ChainKinds
<1>2. ASSUME NEW a \in StepNames \ {"next", "body", "path", "name", "checkPath", "checkName", "as"}
      PROVE  /\ <<a>> \in Seq(StepNames) /\ Shaped(<<a>>) /\ ~Has(<<a>>, "next")
             /\ <<a>>[Len(<<a>>)] # "checkPath"
             /\ StepOf(<<a>>) = a
             /\ Has(<<a>>, "chain") => a = "chain"
  <2>1. <<a>> \in Seq(StepNames) /\ Len(<<a>>) = 1 /\ <<a>>[1] = a /\ <<a>> # <<>>
    OBVIOUS
  <2> DEFINE s == <<a>>
  <2> HIDE DEF s
  <2>2. Shaped(s) /\ ~Has(s, "next") /\ StepOf(s) = a /\ (Has(s, "chain") => a = "chain")
    BY <2>1 DEF Shaped, Has, StepOf, s
  <2>3. QED
    BY <2>1, <2>2 DEF s
<1>3. ASSUME NEW a \in {"chain", "sub"}, NEW b \in {"sub", "else", "do"},
             a = "chain" => b = "sub", a = "sub" => b # "sub"
      PROVE  LET s == <<a, b>>
             IN /\ s \in Seq(StepNames) /\ Shaped(s) /\ ~Has(s, "next")
                /\ s[Len(s)] # "checkPath"
                /\ StepOf(s) = a
                /\ Has(s, "chain") => a = "chain"
  <2> DEFINE s == <<a, b>>
  <2>1. a \in StepNames /\ b \in StepNames
    BY DEF StepNames
  <2>2. s \in Seq(StepNames) /\ Len(s) = 2 /\ s[1] = a /\ s[2] = b /\ s # <<>>
    BY <2>1
  <2> HIDE DEF s
  <2>3. Shaped(s)
    <3>1. a = "sub" => b \in Closing
      BY <1>3 DEF Closing
    <3>2. /\ a \notin {"alt", "body", "next", "else", "do", "as", "path", "checkPath", "name"}
          /\ b \notin {"body", "next", "as", "path", "checkPath", "name", "checkName"}
      OBVIOUS
    <3>3. \A j \in 1 .. Len(s) : j = 1 \/ j = 2
      BY <2>2
    <3>4. \A i \in 2 .. 2 : s[i] = b
      BY <2>2
    <3>5. QED
      BY <2>2, <3>1, <3>2, <3>3, <3>4 DEF Shaped, Calls
  <2>4. ~Has(s, "next") /\ StepOf(s) = a /\ (Has(s, "chain") => a = "chain")
    BY <2>2 DEF Has, StepOf
  <2>5. QED
    BY <2>2, <2>3, <2>4 DEF s
<1>4. LET s == <<"body", ")">>
      IN  s \in Seq(StepNames) /\ Shaped(s) /\ ~Has(s, "next") /\ ~Has(s, "chain")
            /\ s[Len(s)] # "checkPath" /\ StepOf(s) = "body"
  <2> DEFINE s == <<"body", ")">>
  <2>1. "body" \in StepNames /\ ")" \in StepNames
    BY StepsApart DEF StepNames
  <2>2. s \in Seq(StepNames) /\ Len(s) = 2 /\ s[1] = "body" /\ s[2] = ")" /\ s # <<>>
    BY <2>1
  <2> HIDE DEF s
  <2>3. Shaped(s)
    BY <2>2, StepsApart DEF Shaped, Calls
  <2>4. ~Has(s, "next") /\ StepOf(s) = "body" /\ ~Has(s, "chain")
    BY <2>2 DEF Has, StepOf
  <2>5. QED
    BY <2>2, <2>3, <2>4 DEF s
<1>5. LET s == <<"chain", "body", ")">>
      IN  s \in Seq(StepNames) /\ Shaped(s) /\ ~Has(s, "next")
            /\ s[Len(s)] # "checkPath" /\ StepOf(s) = "chain"
  <2> DEFINE s == <<"chain", "body", ")">>
  <2>1. "body" \in StepNames /\ ")" \in StepNames /\ "chain" \in StepNames
    BY StepsApart DEF StepNames
  <2>2. /\ s \in Seq(StepNames) /\ Len(s) = 3 /\ s # <<>>
        /\ s[1] = "chain" /\ s[2] = "body" /\ s[3] = ")"
    BY <2>1
  <2> HIDE DEF s
  <2>3. Shaped(s)
    BY <2>2, StepsApart DEF Shaped, Calls
  <2>4. ~Has(s, "next") /\ StepOf(s) = "chain"
    BY <2>2 DEF Has, StepOf
  <2>5. QED
    BY <2>2, <2>3, <2>4 DEF s
<1>6. LET s == <<"path", "checkPath", "as">>
      IN  s \in Seq(StepNames) /\ Shaped(s) /\ ~Has(s, "next") /\ ~Has(s, "chain")
            /\ s[Len(s)] # "checkPath" /\ StepOf(s) = "path"
  <2> DEFINE s == <<"path", "checkPath", "as">>
  <2>1. "path" \in StepNames /\ "checkPath" \in StepNames /\ "as" \in StepNames
    BY DEF StepNames
  <2>2. /\ s \in Seq(StepNames) /\ Len(s) = 3 /\ s # <<>>
        /\ s[1] = "path" /\ s[2] = "checkPath" /\ s[3] = "as"
    BY <2>1
  <2> HIDE DEF s
  <2>3. Shaped(s)
    BY <2>2 DEF Shaped, Calls
  <2>4. ~Has(s, "next") /\ ~Has(s, "chain") /\ StepOf(s) = "path"
    BY <2>2 DEF Has, StepOf
  <2>5. QED
    BY <2>2, <2>3, <2>4 DEF s
<1>7. LET s == <<"sig", "body", "binds", CloseBrace>>
      IN  s \in Seq(StepNames) /\ Shaped(s) /\ ~Has(s, "next") /\ ~Has(s, "chain")
            /\ s[Len(s)] # "checkPath" /\ StepOf(s) = "sig"
  <2> DEFINE s == <<"sig", "body", "binds", CloseBrace>>
  <2>1. /\ "sig" \in StepNames /\ "body" \in StepNames /\ "binds" \in StepNames
        /\ CloseBrace \in StepNames
    BY StepsApart DEF StepNames
  <2>2. /\ s \in Seq(StepNames) /\ Len(s) = 4 /\ s # <<>>
        /\ s[1] = "sig" /\ s[2] = "body" /\ s[3] = "binds" /\ s[4] = CloseBrace
    BY <2>1
  <2> HIDE DEF s
  <2>3. "binds" \in Closing /\ CloseBrace \in Closing
    BY StepsApart DEF Closing
  <2>4. Shaped(s)
    BY <2>2, <2>3, StepsApart DEF Shaped, Calls
  <2>5. ~Has(s, "next") /\ ~Has(s, "chain") /\ StepOf(s) = "sig"
    BY <2>2, StepsApart DEF Has, StepOf
  <2>6. QED
    BY <2>2, <2>4, <2>5, StepsApart DEF s
<1>8. <<>> \in Seq(StepNames) /\ Shaped(<<>>) /\ (\A step : ~Has(<<>>, step)) /\ StepOf(<<>>) = "none"
  <2>1. Len(<<>>) = 0
    OBVIOUS
  <2>2. QED
    BY <2>1 DEF Shaped, Has, StepOf
<1>9. {"chain", "sub", "alt", "unexpected"} \subseteq
        StepNames \ {"next", "body", "path", "name", "checkPath", "checkName", "as"}
  BY DEF StepNames
<1>10. CASE k \in Literals
  BY <1>8, <1>10, ScriptCases DEF Scripted
<1>11. CASE k \in ChainKinds
  BY <1>1, <1>2, <1>9, <1>11, ScriptCases DEF Scripted
<1>12. CASE k \in Prefixed
  BY <1>2, <1>9, <1>12, ScriptCases DEF Scripted
<1>13. CASE k \in Braces
  BY <1>7, <1>13, ScriptCases DEF Scripted
<1>14. CASE k \in {"CHAIN:", "CHAIN!"}
  BY <1>1, <1>3, <1>14, ScriptCases DEF Scripted
<1>15. CASE k \in {"CHAIN(", "("}
  BY <1>1, <1>4, <1>5, <1>15, ScriptCases DEF Scripted
<1>16. CASE k \in {"then", "until"}
  BY <1>3, <1>16, ScriptCases DEF Scripted
<1>17. CASE k \in {"else", "do"}
  BY <1>2, <1>9, <1>17, ScriptCases DEF Scripted
<1>18. CASE k = "import"
  BY <1>6, <1>18, ScriptCases DEF Scripted
<1>19. CASE k \notin Literals \cup ChainKinds \cup Prefixed \cup OtherKinds
  BY <1>2, <1>9, <1>19, ScriptCases DEF Scripted
<1>20. QED
  BY <1>10, <1>11, <1>12, <1>13, <1>14, <1>15, <1>16, <1>17, <1>18, <1>19 DEF OtherKinds

-----------------------------------------------------------------------------
(* An else or a do that comes first belongs to the innermost call that     *)
(* waits for one: a program that leaves it to a later call has a reading   *)
(* that does not.                                                          *)

Dangles(g, Z, p) == p \in Z => Unit(g, p + 1) \cap Z # {}

LEMMA DangleStep ==
  ASSUME NEW g, IsGrammar(g), NEW p \in Places(g), Kind(g, p) \in {"else", "do"},
         NEW Z, Dangles(g, Z, p), NEW n, NEW s \in Closing,
         s = "next" => \A q \in Z : Kind(g, q) \in Enders
  PROVE  Dangles(g, Before(g, s, n, Z), p)
<1> SUFFICES ASSUME p \in Before(g, s, n, Z)
             PROVE  Unit(g, p + 1) \cap Before(g, s, n, Z) # {}
  BY DEF Dangles
<1>1. /\ Unit(g, p + 1) \subseteq Places(g)
      /\ Kind(g, p) \notin Enders /\ p \in 1 .. g.count /\ g.count \in Nat
  <2>1. {"else", "do"} \cap Enders = {}
    BY StepsApart DEF Enders, Brackets
  <2>2. g.count \in Nat /\ p \in 1 .. g.count
    BY <2>1 DEF IsGrammar, Kind, Enders
  <2>3. p + 1 \in 1 .. g.count => Unit(g, p + 1) \subseteq p + 1 + 1 .. g.count + 1
    BY <2>2 DEF IsGrammar
  <2>4. p + 1 \notin 1 .. g.count => Unit(g, p + 1) = {}
    BY DEF Unit
  <2>5. QED
    BY <2>1, <2>2, <2>3, <2>4 DEF Places
<1>2. CASE s \in Brackets
  <2>1. \A r \in Brackets :
          p \in Before(g, r, n, Z) <=> Kind(g, p) = r /\ p + 1 \in Z
    BY BeforeCases
  <2>2. QED
    BY <1>1, <1>2, <2>1 DEF Enders
<1>3. CASE s \in {"else", "do"}
  <2>1. \A q \in Places(g) \cap Z : q \in Before(g, s, n, Z)
    BY <1>3, BeforeCases
  <2>2. p \in Z \/ Unit(g, p + 1) \cap Z # {}
    BY <1>3, BeforeCases
  <2>3. PICK q \in Unit(g, p + 1) : q \in Z
    BY <2>2 DEF Dangles
  <2>4. QED
    BY <1>1, <2>1, <2>3
<1>4. CASE s = "binds"
  <2>1. \A q \in Places(g) : q \in Before(g, s, n, Z) <=> q \in Z
    BY <1>4, BeforeCases
  <2>2. PICK q \in Unit(g, p + 1) : q \in Z
    BY <2>1 DEF Dangles
  <2>3. QED
    BY <1>1, <2>1, <2>2
<1>5. CASE s = "next"
  <2>1. \A q \in Places(g) : q \in Before(g, s, n, Z) <=> q \in Z \/ Body(g, q) \cap Z # {}
    BY <1>5, BeforeCases
  <2>2. p \notin Z
    BY <1>1, <1>5
  <2>3. PICK x \in Body(g, p) : x \in Z
    BY <2>1, <2>2
  <2>4. Unit(g, p) = Unit(g, p + 1)
    BY <1>1, UnitCases
  <2>5. Body(g, p) = Unit(g, p) \cup UNION {Body(g, e) : e \in Unit(g, p)}
    BY <1>1 DEF IsGrammar
  <2>6. CASE x \in Unit(g, p)
    BY <1>1, <2>1, <2>3, <2>4, <2>6
  <2>7. CASE x \in UNION {Body(g, e) : e \in Unit(g, p)}
    <3>1. PICK e \in Unit(g, p) : x \in Body(g, e)
      BY <2>7
    <3>2. e \in Before(g, s, n, Z)
      BY <1>1, <2>1, <2>3, <2>4, <3>1
    <3>3. QED
      BY <2>4, <3>2
  <2>8. QED
    BY <2>3, <2>5, <2>6, <2>7
<1>6. QED
  BY <1>2, <1>3, <1>4, <1>5 DEF Closing

LEMMA ClosingDangles ==
  ASSUME NEW g, IsGrammar(g), NEW p \in Places(g), Kind(g, p) \in {"else", "do"},
         NEW todo, Len(todo) \in Nat, \A j \in 1 .. Len(todo) : todo[j] \in Closing,
         \A j \in 1 .. Len(todo) : todo[j] = "next" => j = Len(todo),
         NEW n, NEW X, Dangles(g, X, p),
         Has(todo, "next") => \A q \in X : Kind(g, q) \in Enders
  PROVE  Dangles(g, Left(g, todo, n, X), p)
<1> DEFINE N == Len(todo)
<1>1. PICK f : IsLeft(f, g, todo, n, X) /\ Left(g, todo, n, X) = f[N]
  BY LeftIs
<1>2. f[0] = X /\ \A k \in 1 .. N : f[k] = Before(g, todo[N + 1 - k], n, f[k - 1])
  BY <1>1 DEF IsLeft
<1> DEFINE T == {k \in Nat : k <= N => Dangles(g, f[k], p)}
<1>3. 0 \in T
  BY <1>2
<1>4. ASSUME NEW k \in Nat, k \in T
      PROVE  k + 1 \in T
  <2> SUFFICES ASSUME k + 1 <= N
               PROVE  Dangles(g, f[k + 1], p)
    OBVIOUS
  <2> DEFINE s == todo[N - k]
  <2>1. /\ k + 1 \in 1 .. N /\ (k + 1) - 1 = k /\ N + 1 - (k + 1) = N - k
        /\ N - k \in 1 .. N
    OBVIOUS
  <2>2. f[k + 1] = Before(g, s, n, f[k])
    BY <1>2, <2>1
  <2>3. Dangles(g, f[k], p)
    BY <1>4
  <2>4. s = "next" => \A q \in f[k] : Kind(g, q) \in Enders
    <3>1. s = "next" => N - k = N
      BY <2>1
    <3>2. N - k = N => k = 0
      BY <2>1
    <3>3. s = "next" => Has(todo, "next")
      BY <2>1 DEF Has
    <3>4. QED
      BY <1>2, <3>1, <3>2, <3>3
  <2>5. s \in Closing
    BY <2>1
  <2> HIDE DEF s
  <2>6. QED
    BY <2>2, <2>3, <2>4, <2>5, DangleStep
<1>5. Nat \subseteq T
  <2> HIDE DEF T
  <2> QED BY <1>3, <1>4, SetInduction
<1>6. QED
  BY <1>1, <1>5

-----------------------------------------------------------------------------
(* What holds while fpParse has found no error: the program is one of the  *)
(* grammar (P) just when what is left can be read from the next token.     *)

Intos == {"root", "sub", "alt", "next"}
Call  == [node : Nat, into : Intos, sigBegin : Nat, sigEnd : Nat,
          todo : Seq(StepNames)]

Worded ==
  \A i \in 1 .. Len(tokens) :
    LET w == Lexeme(i)
    IN  Len(w) \in Nat /\ Len(w) > 0 /\ kinds[i] = KindOf(w) /\ ChainText("CHAIN", w) = w

Noded == /\ DOMAIN nodes = 1 .. Len(tokens)
         /\ \A i \in 1 .. Len(tokens) :
              DOMAIN nodes[i] = {"kind", "sub", "alt", "next", "chain"}

Held(g, P, G) ==
  /\ IsGrammar(g) /\ OfTokens(g) /\ Worded /\ Noded
  /\ nextToken \in Places(g)
  /\ frames \in Seq(Call)
  /\ Framing
  /\ Tracks(g, G)
  /\ P <=> nextToken \in G[Len(frames)]

LEMMA KindIs ==
  ASSUME NEW g, OfTokens(g), Len(tokens) \in Nat
  PROVE  /\ g.count = Len(tokens) /\ g.count \in Nat
         /\ \A i \in 1 .. g.count : Kind(g, i) = kinds[i]
         /\ \A i : Kind(g, i) # "end" => i \in 1 .. g.count
         /\ \A i \in 1 .. g.count : i \in g.simple <=> Simple(i)
BY DEF OfTokens, Kind

LEMMA FramesDangle ==
  ASSUME NEW g, NEW P, NEW G, Held(g, P, G), Kind(g, nextToken) \in {"else", "do"},
         frames # <<>>, ~Leaf(Len(frames))
  PROVE  \A k \in 0 .. Len(frames) - 1 : Dangles(g, G[k], nextToken)
<1> DEFINE L == Len(frames)
           p == nextToken
<1>1. /\ L \in Nat \ {0} /\ g.count \in Nat /\ g.count = Len(tokens) /\ IsGrammar(g)
      /\ p \in Places(g) /\ frames \in Seq(Call)
  BY LenProperties, EmptySeq DEF Held, OfTokens, IsGrammar
<1>2. /\ \A i \in 1 .. g.count : Kind(g, i) = kinds[i]
      /\ \A i : Kind(g, i) # "end" => i \in 1 .. g.count
  BY <1>1, KindIs DEF Held
<1>3. /\ G[0] = {g.count + 1}
      /\ \A k \in 1 .. L :
           /\ G[k] = Left(g, frames[k].todo, frames[k].node, G[k - 1])
           /\ Has(frames[k].todo, "next") => \A q \in G[k - 1] : Kind(g, q) \in Enders
  BY DEF Held, Tracks
<1>4. \A k \in 1 .. L - 1 : Framed(k) /\ CallerOf(k)
  BY <1>1 DEF Held, Framing
<1>5. \A k \in 1 .. L : frames[k].todo \in Seq(StepNames)
  <2>1. \A k \in 1 .. L : frames[k] \in Call
    BY <1>1, ElementOfSeq
  <2>2. QED
    BY <2>1 DEF Call
<1> DEFINE T == {k \in Nat : k <= L - 1 => Dangles(g, G[k], p)}
<1>6. 0 \in T
  <2>1. p # g.count + 1
    BY <1>1, <1>2
  <2>2. QED
    BY <1>3, <2>1 DEF Dangles
<1>7. ASSUME NEW k \in Nat, k \in T
      PROVE  k + 1 \in T
  <2> SUFFICES ASSUME k + 1 <= L - 1
               PROVE  Dangles(g, G[k + 1], p)
    OBVIOUS
  <2> DEFINE j == k + 1
             f == frames[j]
             todo == f.todo
  <2>1. j \in 1 .. L - 1 /\ j \in 1 .. L /\ j - 1 = k /\ j + 1 \in 1 .. L
    BY <1>1
  <2>2. /\ G[j] = Left(g, todo, f.node, G[k])
        /\ Has(todo, "next") => \A q \in G[k] : Kind(g, q) \in Enders
    BY <1>3, <2>1
  <2>3. Dangles(g, G[k], p)
    BY <1>1, <1>7
  <2>4. todo \in Seq(StepNames) /\ Len(todo) \in Nat /\ Shaped(todo)
    BY <1>4, <1>5, <2>1, LenProperties DEF Framed
  <2>5. CASE StepOf(todo) \in {"checkPath", "checkName"}
    <3>1. kinds[Looked(f)] # "CHAIN"
      BY <1>4, <2>1, <2>5 DEF CallerOf, Leaf
    <3>2. Kind(g, Looked(f)) # "CHAIN"
      BY <1>2, <3>1
    <3>3. todo # <<>> /\ Head(todo) = StepOf(todo)
      BY <2>4, <2>5, HeadTailProperties DEF StepOf
    <3> DEFINE Z == Left(g, Tail(todo), f.node, G[k])
    <3>4. G[j] = Before(g, StepOf(todo), f.node, Z)
      <4> HIDE DEF todo
      <4> QED BY <2>2, <2>4, <3>3, LeftCons
    <3> HIDE DEF Z, j
    <3>5. p \notin Before(g, StepOf(todo), f.node, Z)
      <4>1. CASE StepOf(todo) = "checkPath"
        <5>1. Looked(f) = f.node + 1
          BY <4>1 DEF Looked
        <5>2. QED
          BY <1>1, <3>2, <4>1, <5>1, BeforeCases
      <4>2. CASE StepOf(todo) = "checkName"
        <5>1. Looked(f) = f.node + 3
          BY <4>2 DEF Looked
        <5>2. QED
          BY <1>1, <3>2, <4>2, <5>1, BeforeCases
      <4>3. QED
        BY <2>5, <4>1, <4>2
    <3>6. QED
      BY <3>4, <3>5 DEF Dangles, j
  <2>6. CASE StepOf(todo) \notin {"checkPath", "checkName"}
    <3>1. \A i \in 1 .. Len(todo) : todo[i] \in Closing
      BY <1>4, <2>1, <2>6 DEF CallerOf
    <3>2. \A i \in 1 .. Len(todo) : todo[i] = "next" => i = Len(todo)
      BY <2>4 DEF Shaped
    <3> HIDE DEF todo, p
    <3>3. Dangles(g, Left(g, todo, f.node, G[k]), p)
      BY <1>1, <2>2, <2>3, <2>4, <3>1, <3>2, ClosingDangles DEF p
    <3>4. QED
      BY <2>2, <3>3
  <2>7. QED
    BY <2>5, <2>6
<1>8. Nat \subseteq T
  <2> HIDE DEF T
  <2> QED BY <1>6, <1>7, SetInduction
<1>9. QED
  BY <1>1, <1>8

LEMMA SameText ==
  ASSUME UNCHANGED <<source, tokens, kinds>>, NEW g
  PROVE  /\ OfTokens(g)' <=> OfTokens(g)
         /\ Worded' <=> Worded
         /\ \A i : Lexeme(i)' = Lexeme(i)
<1>1. \A i : Lexeme(i)' = Lexeme(i)
  BY DEF Lexeme
<1>2. \A i : Simple(i)' <=> Simple(i)
  BY <1>1 DEF Simple
<1>3. QED
  BY <1>1, <1>2 DEF OfTokens, Worded

LEMMA HeldIs ==
  ASSUME NEW g, NEW P, NEW G, Held(g, P, G), frames # <<>>
  PROVE  LET L == Len(frames)
         IN  /\ L \in Nat \ {0} /\ Top = frames[L] /\ Top \in Call
             /\ \A k \in 1 .. L : frames[k] \in Call /\ frames[k].node <= Top.node
             /\ g.count \in Nat /\ g.count = Len(tokens)
             /\ Framed(L) /\ TopPlaced
             /\ Top.node \in 1 .. g.count /\ Top.todo \in Seq(StepNames) /\ Shaped(Top.todo)
             /\ G[L] = Left(g, Top.todo, Top.node, G[L - 1])
             /\ nextToken \in Places(g) /\ nextToken \in Nat
             /\ P <=> nextToken \in G[L]
<1> DEFINE L == Len(frames)
<1>1. /\ L \in Nat \ {0} /\ g.count \in Nat /\ g.count = Len(tokens)
      /\ nextToken \in Places(g) /\ frames \in Seq(Call) /\ (P <=> nextToken \in G[L])
  BY LenProperties, EmptySeq DEF Held, OfTokens, IsGrammar
<1>2. Top = frames[L] /\ \A k \in 1 .. L : frames[k] \in Call
  BY <1>1, ElementOfSeq DEF Top, Last
<1>3. Framed(L) /\ TopPlaced
  BY <1>1 DEF Held, Framing
<1>4. /\ Top \in Call /\ Top.todo \in Seq(StepNames) /\ Top.node \in 1 .. g.count
      /\ Shaped(Top.todo)
  BY <1>1, <1>2, <1>3 DEF Framed, Call
<1>5. G[L] = Left(g, Top.todo, Top.node, G[L - 1])
  BY <1>1, <1>2 DEF Held, Tracks
<1>6. nextToken \in Nat
  BY <1>1 DEF Places
<1> DEFINE T == {d \in Nat : d < L => frames[L - d].node <= Top.node}
<1>7. 0 \in T
  BY <1>1, <1>2, <1>4
<1>8. ASSUME NEW d \in Nat, d \in T
      PROVE  d + 1 \in T
  <2> SUFFICES ASSUME d + 1 < L
               PROVE  frames[L - (d + 1)].node <= Top.node
    OBVIOUS
  <2> DEFINE k == L - (d + 1)
  <2>1. k \in 1 .. L - 1 /\ k + 1 = L - d /\ k \in 1 .. L /\ k + 1 \in 1 .. L
    BY <1>1
  <2>2. frames[k + 1].node <= Top.node
    BY <1>1, <1>8, <2>1
  <2>3. frames[k].node < frames[k + 1].node
    BY <1>1, <2>1 DEF Held, Framing, CallerOf
  <2>4. frames[k].node \in Nat /\ frames[k + 1].node \in Nat /\ Top.node \in Nat
    BY <1>2, <1>4, <2>1 DEF Call
  <2> HIDE DEF k
  <2>5. frames[k].node <= Top.node
    BY <2>2, <2>3, <2>4
  <2>6. QED
    BY <2>5 DEF k
<1>9. Nat \subseteq T
  <2> HIDE DEF T
  <2> QED BY <1>7, <1>8, SetInduction
<1>10. \A k \in 1 .. L : frames[k].node <= Top.node
  <2>1. \A k \in 1 .. L : L - k \in Nat /\ L - k < L /\ L - (L - k) = k
    BY <1>1
  <2>2. QED
    BY <1>9, <2>1
<1>11. QED
  BY <1>1, <1>2, <1>3, <1>4, <1>5, <1>6, <1>10

LEMMA Stays ==
  ASSUME NEW g, NEW P, NEW G, Held(g, P, G), frames # <<>>,
         UNCHANGED <<source, tokens, kinds>>, Noded',
         NEW f \in Call, f.node = Top.node, f.into = Top.into,
         frames' = ReplaceAt(frames, Len(frames), f),
         nextToken' \in Places(g), nextToken' >= nextToken,
         \A i \in 1 .. Top.node : nodes'[i].kind = nodes[i].kind,
         Shaped(f.todo),
         Has(f.todo, "chain") => Has(Top.todo, "chain"),
         Has(f.todo, "next") => Has(Top.todo, "next"),
         f.sigBegin > f.node \/ f.sigEnd <= f.sigBegin,
         kinds[Top.node] = "CHAIN" /\ Leaf(Len(frames)) => Leaf(Len(frames))', TopPlaced',
         nextToken' \in Left(g, f.todo, f.node, G[Len(frames) - 1])
           <=> nextToken \in G[Len(frames)]
  PROVE  \E H : Held(g, P, H)'
<1> DEFINE L == Len(frames)
           Y == Left(g, f.todo, f.node, G[L - 1])
<1>1. /\ L \in Nat \ {0} /\ Top = frames[L] /\ g.count \in Nat /\ g.count = Len(tokens)
      /\ \A k \in 1 .. L : frames[k] \in Call /\ frames[k].node <= Top.node
      /\ Top.node \in Nat /\ nextToken \in Nat /\ nextToken' \in Nat
  BY HeldIs DEF Places
<1>2. OfTokens(g)' /\ Worded' /\ tokens' = tokens /\ kinds' = kinds /\ IsGrammar(g)
  BY SameText DEF Held
<1>3. /\ frames' \in Seq(Call) /\ Len(frames') = L /\ frames'[L] = f
      /\ \A k \in 1 .. L - 1 : frames'[k] = frames[k]
  <2>1. L \in 1 .. L /\ frames \in Seq(Call)
    BY <1>1 DEF Held
  <2>2. QED
    BY <1>1, <2>1, ExceptSeq, LenProperties DEF ReplaceAt
<1>4. \A k \in 1 .. L : Framed(k)'
  <2> SUFFICES ASSUME NEW k \in 1 .. L
               PROVE  Framed(k)'
    OBVIOUS
  <2>1. Framed(k)
    BY DEF Held, Framing
  <2>2. frames[k].node \in 1 .. Top.node
    BY <1>1, <2>1 DEF Framed, Call
  <2>3. CASE k = L
    BY <1>1, <1>2, <1>3, <2>1, <2>2, <2>3 DEF Framed
  <2>4. CASE k # L
    <3>1. k \in 1 .. L - 1 /\ frames'[k] = frames[k]
      BY <1>1, <1>3, <2>4
    <3>2. frames[k].node < nextToken'
      BY <1>1, <2>1, <2>2 DEF Framed
    <3>3. QED
      BY <1>2, <2>1, <2>2, <3>1, <3>2 DEF Framed
  <2>5. QED
    BY <2>3, <2>4
<1>5. \A k \in 1 .. L - 1 : CallerOf(k)'
  <2> SUFFICES ASSUME NEW k \in 1 .. L - 1
               PROVE  CallerOf(k)'
    OBVIOUS
  <2>1. CallerOf(k)
    BY DEF Held, Framing
  <2>2. frames'[k] = frames[k]
    BY <1>3
  <2>3. frames'[k + 1].node = frames[k + 1].node /\ frames'[k + 1].into = frames[k + 1].into
    <3>1. k + 1 = L \/ k + 1 \in 1 .. L - 1
      BY <1>1
    <3>2. QED
      BY <1>1, <1>3, <3>1
  <2>4. kinds[frames[k + 1].node] = "CHAIN" /\ Leaf(k + 1) => Leaf(k + 1)'
    <3>1. Leaf(k + 1) => k + 1 = L /\ Leaf(L)
      BY DEF Leaf
    <3>2. Leaf(L)' /\ k + 1 = L => Leaf(k + 1)'
      BY <1>3 DEF Leaf
    <3>3. QED
      BY <1>1, <3>1, <3>2
  <2>5. Looked(frames'[k]) = Looked(frames[k])
    BY <2>2
  <2>6. QED
    BY <1>2, <2>1, <2>2, <2>3, <2>4, <2>5 DEF CallerOf
<1> HIDE DEF Y
<1>0. PICK H : H = [k \in 0 .. L |-> IF k = L THEN Y ELSE G[k]]
  OBVIOUS
<1>6. Tracks(g, H)'
  <2>1. H[0] = {g.count + 1}
    BY <1>0, <1>1 DEF Held, Tracks
  <2>2. ASSUME NEW k \in 1 .. L
        PROVE  /\ H[k] = Left(g, frames'[k].todo, frames'[k].node, H[k - 1])
               /\ Has(frames'[k].todo, "next") => \A q \in H[k - 1] : Kind(g, q) \in Enders
    <3>1. H[k - 1] = G[k - 1]
      BY <1>0, <1>1
    <3>2. /\ G[k] = Left(g, frames[k].todo, frames[k].node, G[k - 1])
          /\ Has(frames[k].todo, "next") => \A q \in G[k - 1] : Kind(g, q) \in Enders
      BY DEF Held, Tracks
    <3>3. CASE k = L
      <4>1. H[k] = Y
        BY <1>0, <1>1, <3>3
      <4>2. QED
        BY <1>1, <1>3, <3>1, <3>2, <3>3, <4>1 DEF Y
    <3>4. CASE k # L
      <4>1. H[k] = G[k] /\ frames'[k] = frames[k]
        BY <1>0, <1>1, <1>3, <3>4
      <4>2. QED
        BY <3>1, <3>2, <4>1
    <3>5. QED
      BY <3>3, <3>4
  <2>3. QED
    BY <1>3, <2>1, <2>2 DEF Tracks
<1>7. P <=> nextToken' \in H[Len(frames')]
  BY <1>0, <1>1, <1>3, HeldIs DEF Y
<1>8. Framing'
  BY <1>3, <1>4, <1>5 DEF Framing
<1>9. Held(g, P, H)'
  BY <1>2, <1>3, <1>6, <1>7, <1>8 DEF Held
<1>10. QED
  BY <1>9

LEMMA FrameIs ==
  ASSUME NEW i \in Nat, NEW single, NEW into \in Intos
  PROVE  LET f == Frame(i, single, into)
         IN  /\ f \in Call /\ f.node = i /\ f.into = into /\ f.sigEnd <= f.sigBegin
             /\ Shaped(f.todo)
             /\ StepOf(f.todo) \notin {"checkPath", "as", "name", "checkName"}
             /\ Has(f.todo, "chain") => kinds[i] \in DOMAIN ChainMargins
             /\ single => ~Has(f.todo, "next") /\ f.todo = Script(kinds[i])
             /\ ~single => f.todo = Script(kinds[i]) \o <<"next">>
             /\ single /\ kinds[i] = "CHAIN" => f.todo = <<"chain">>
<1> DEFINE s == Script(kinds[i])
           f == Frame(i, single, into)
           t == s \o (IF single THEN <<>> ELSE <<"next">>)
<1>1. Scripted(kinds[i], s)
  BY ScriptShaped
<1>2. s \in Seq(StepNames) /\ s \o <<>> = s
  BY <1>1, ConcatEmptySeq DEF Scripted
<1>3. kinds[i] = "CHAIN" => s = <<"chain">>
  BY ScriptCases DEF ChainKinds
<1>4. f = [node |-> i, into |-> into, sigBegin |-> i, sigEnd |-> i, todo |-> t]
  BY DEF Frame
<1> HIDE DEF s, f
<1>5. /\ t \in Seq(StepNames) /\ Shaped(t)
      /\ StepOf(t) \notin {"checkPath", "as", "name", "checkName"}
      /\ Has(t, "chain") => kinds[i] \in DOMAIN ChainMargins
  <2>1. CASE single
    <3>1. t = s
      BY <1>2, <2>1
    <3> HIDE DEF t
    <3>2. QED
      BY <1>1, <3>1 DEF Scripted
  <2>2. CASE ~single
    <3> DEFINE u == s \o <<"next">>
    <3>1. t = u
      BY <2>2
    <3>2. /\ u \in Seq(StepNames) /\ Shaped(u)
          /\ s # <<>> => StepOf(u) = StepOf(s)
          /\ s = <<>> => StepOf(u) = "next"
          /\ Has(u, "chain") => Has(s, "chain")
      BY <1>1, ShapedThen DEF Scripted
    <3> HIDE DEF t, u
    <3>3. QED
      BY <1>1, <3>1, <3>2 DEF Scripted
  <2>3. QED
    BY <2>1, <2>2
<1>6. single => t = s /\ ~Has(t, "next")
  BY <1>1, <1>2 DEF Scripted
<1>7. ~single => t = s \o <<"next">>
  OBVIOUS
<1> HIDE DEF t
<1>8. f \in Call /\ f.node = i /\ f.into = into /\ f.sigEnd <= f.sigBegin /\ f.todo = t
  BY <1>4, <1>5 DEF Call
<1>9. QED
  BY <1>3, <1>5, <1>6, <1>7, <1>8 DEF f, s

LEMMA DoneIs ==
  ASSUME NEW g, NEW P, NEW G, Held(g, P, G), frames # <<>>, Top.todo # <<>>
  PROVE  LET rest == Tail(Top.todo)
             L == Len(frames)
         IN  /\ Done \in Call /\ Done.node = Top.node /\ Done.into = Top.into
             /\ Done.sigBegin = Top.sigBegin /\ Done.sigEnd = Top.sigEnd
             /\ Done.todo = rest /\ rest \in Seq(StepNames) /\ Shaped(rest)
             /\ \A step : Has(rest, step) => Has(Top.todo, step)
             /\ G[L] = Before(g, Head(Top.todo), Top.node, Left(g, rest, Top.node, G[L - 1]))
             /\ Head(Top.todo) \notin {"chain"} => ~Leaf(L)
             /\ StepOf(Top.todo) = Head(Top.todo)
<1> DEFINE rest == Tail(Top.todo)
           L == Len(frames)
<1>1. /\ Top = frames[L] /\ Top \in Call /\ Top.todo \in Seq(StepNames) /\ Shaped(Top.todo)
      /\ G[L] = Left(g, Top.todo, Top.node, G[L - 1])
  BY HeldIs
<1>2. /\ rest \in Seq(StepNames) /\ Shaped(rest)
      /\ \A step : Has(rest, step) => Has(Top.todo, step)
  BY <1>1, ShapedTail
<1>3. G[L] = Before(g, Head(Top.todo), Top.node, Left(g, rest, Top.node, G[L - 1]))
  BY <1>1, LeftCons
<1>4. Head(Top.todo) # "chain" => ~Leaf(L)
  BY <1>1, HeadTailProperties DEF Leaf
<1>5. Done = [Top EXCEPT !.todo = rest]
  BY DEF Done
<1>6. StepOf(Top.todo) = Head(Top.todo)
  BY <1>1, HeadTailProperties DEF StepOf
<1> HIDE DEF rest
<1>7. /\ Done \in Call /\ Done.node = Top.node /\ Done.into = Top.into
      /\ Done.sigBegin = Top.sigBegin /\ Done.sigEnd = Top.sigEnd
      /\ Done.todo = rest
  BY <1>1, <1>2, <1>5 DEF Call
<1>8. QED
  BY <1>2, <1>3, <1>4, <1>6, <1>7 DEF rest

LEMMA Pushes ==
  ASSUME NEW g, NEW P, NEW G, Held(g, P, G), frames # <<>>, Top.todo # <<>>,
         UNCHANGED <<source, tokens, kinds>>, ~AtEnd, ~Leaf(Len(frames)),
         NEW single, NEW into \in {"sub", "alt", "next"},
         frames' = Append(Skip, Frame(nextToken, single, into)),
         nodes' = [nodes EXCEPT ![nextToken] = NewNode(kinds[nextToken])],
         nextToken' = nextToken + 1,
         NEW Y, Y = Left(g, Tail(Top.todo), Top.node, G[Len(frames) - 1]),
         ~single => \A q \in Y : Kind(g, q) \in Enders,
         IF StepOf(Tail(Top.todo)) \in {"checkPath", "checkName"}
         THEN nextToken = Looked(Done) /\ into = "sub" /\ single
         ELSE \A j \in 1 .. Len(Tail(Top.todo)) : Tail(Top.todo)[j] \in Closing,
         nextToken + 1 \in Left(g, Frame(nextToken, single, into).todo, nextToken, Y)
           <=> nextToken \in G[Len(frames)]
  PROVE  \E H : Held(g, P, H)'
<1> DEFINE L == Len(frames)
           rest == Tail(Top.todo)
           f == Frame(nextToken, single, into)
           X == G[L - 1]
           Z == Left(g, f.todo, nextToken, Y)
<1>1. /\ L \in Nat \ {0} /\ Top = frames[L] /\ g.count \in Nat /\ g.count = Len(tokens)
      /\ \A k \in 1 .. L : frames[k] \in Call /\ frames[k].node <= Top.node
      /\ Top.node \in 1 .. g.count /\ nextToken \in Nat /\ nextToken \in Places(g)
      /\ Framed(L) /\ (P <=> nextToken \in G[L])
  BY HeldIs
<1>2. OfTokens(g)' /\ Worded' /\ tokens' = tokens /\ kinds' = kinds /\ IsGrammar(g)
  BY SameText DEF Held
<1>3. /\ Done \in Call /\ Done.node = Top.node /\ Done.into = Top.into
      /\ Done.sigBegin = Top.sigBegin /\ Done.sigEnd = Top.sigEnd
      /\ Done.todo = rest /\ rest \in Seq(StepNames) /\ Shaped(rest)
      /\ \A step : Has(rest, step) => Has(Top.todo, step)
  BY DoneIs
<1>4. /\ f \in Call /\ f.node = nextToken /\ f.into = into /\ f.sigEnd <= f.sigBegin
      /\ Shaped(f.todo)
      /\ StepOf(f.todo) \notin {"checkPath", "as", "name", "checkName"}
      /\ Has(f.todo, "chain") => kinds[nextToken] \in DOMAIN ChainMargins
      /\ single => ~Has(f.todo, "next")
      /\ single /\ kinds[nextToken] = "CHAIN" => f.todo = <<"chain">>
  <2>1. into \in Intos /\ nextToken \in Nat
    BY <1>1 DEF Intos
  <2>2. /\ f \in Call /\ f.node = nextToken /\ f.into = into /\ f.sigEnd <= f.sigBegin
        /\ Shaped(f.todo)
        /\ StepOf(f.todo) \notin {"checkPath", "as", "name", "checkName"}
        /\ Has(f.todo, "chain") => kinds[nextToken] \in DOMAIN ChainMargins
        /\ single => ~Has(f.todo, "next") /\ f.todo = Script(kinds[nextToken])
        /\ ~single => f.todo = Script(kinds[nextToken]) \o <<"next">>
        /\ single /\ kinds[nextToken] = "CHAIN" => f.todo = <<"chain">>
    BY <2>1, FrameIs
  <2> HIDE DEF f
  <2>3. QED
    BY <2>2
<1> HIDE DEF f
<1>5. /\ frames' \in Seq(Call) /\ Len(frames') = L + 1
      /\ frames'[L] = Done /\ frames'[L + 1] = f
      /\ \A k \in 1 .. L - 1 : frames'[k] = frames[k]
  <2> DEFINE gs == ReplaceAt(frames, L, Done)
  <2>1. L \in 1 .. L /\ frames \in Seq(Call)
    BY <1>1 DEF Held
  <2>2. /\ gs \in Seq(Call) /\ Len(gs) = L
        /\ \A k \in 1 .. L : gs[k] = IF k = L THEN Done ELSE frames[k]
    BY <1>3, <2>1, ExceptSeq, LenProperties DEF ReplaceAt
  <2>3. frames' = Append(gs, f)
    BY DEF Skip, f
  <2> HIDE DEF gs
  <2>4. /\ frames' \in Seq(Call) /\ Len(frames') = L + 1 /\ frames'[L + 1] = f
        /\ \A k \in 1 .. L : frames'[k] = gs[k]
    BY <1>4, <2>2, <2>3, AppendProperties
  <2>5. QED
    BY <1>1, <2>2, <2>4
<1>6. nextToken \in 1 .. g.count
  BY <1>1 DEF AtEnd, Places
<1>7. /\ Noded' /\ nodes'[nextToken].kind = kinds[nextToken]
      /\ \A i \in 1 .. g.count : i # nextToken => nodes'[i] = nodes[i]
  <2> DEFINE node == NewNode(kinds[nextToken])
  <2>1. /\ DOMAIN node = {"kind", "sub", "alt", "next", "chain"}
        /\ node.kind = kinds[nextToken]
    BY DEF NewNode, NoNode
  <2> HIDE DEF node
  <2>2. Noded
    BY DEF Held
  <2>3. nodes' = [nodes EXCEPT ![nextToken] = node]
    BY DEF node
  <2>4. DOMAIN nodes' = DOMAIN nodes
    BY <2>3
  <2>5. /\ nodes'[nextToken] = node
        /\ \A i \in 1 .. g.count : i # nextToken => nodes'[i] = nodes[i]
    BY <1>1, <1>6, <2>2, <2>3 DEF Noded
  <2>6. Noded'
    BY <1>1, <1>2, <2>1, <2>2, <2>4, <2>5 DEF Noded
  <2>7. QED
    BY <2>1, <2>5, <2>6
<1>8. Top.node < nextToken
  BY <1>1 DEF Framed
<1>9. \A k \in 1 .. L + 1 : Framed(k)'
  <2> SUFFICES ASSUME NEW k \in 1 .. L + 1
               PROVE  Framed(k)'
    OBVIOUS
  <2>1. CASE k = L + 1
    <3>1. f.into # "root" /\ k # 1
      BY <1>1, <1>4, <2>1
    <3>2. QED
      BY <1>1, <1>2, <1>4, <1>5, <1>6, <1>7, <2>1, <3>1 DEF Framed
  <2>2. CASE k = L
    BY <1>1, <1>2, <1>3, <1>5, <1>7, <1>8, <2>2 DEF Framed
  <2>3. CASE k \in 1 .. L - 1
    <3>1. Framed(k) /\ frames'[k] = frames[k]
      BY <1>1, <1>5, <2>3 DEF Held, Framing
    <3>2. frames[k].node < nextToken /\ frames[k].node < nextToken' /\ frames[k].node \in 1 .. g.count
      BY <1>1, <2>3, <3>1 DEF Framed
    <3>3. nodes'[frames[k].node] = nodes[frames[k].node]
      BY <1>1, <1>7, <3>2
    <3>4. QED
      BY <1>2, <3>1, <3>2, <3>3 DEF Framed
  <2>4. QED
    BY <1>1, <2>1, <2>2, <2>3
<1>10. \A k \in 1 .. L : CallerOf(k)'
  <2> SUFFICES ASSUME NEW k \in 1 .. L
               PROVE  CallerOf(k)'
    OBVIOUS
  <2>1. CASE k = L
    <3>1. frames'[k] = Done /\ frames'[k + 1] = f
      BY <1>5, <2>1
    <3>2. Done.node < f.node
      BY <1>3, <1>4, <1>8
    <3>3. CASE StepOf(rest) \in {"checkPath", "checkName"}
      <4>1. nextToken = Looked(Done) /\ into = "sub" /\ single
        BY <3>3
      <4>2. kinds[nextToken] = "CHAIN" => Leaf(k + 1)'
        <5>1. kinds[nextToken] = "CHAIN" => f.todo = <<"chain">>
          BY <1>4, <4>1
        <5>2. nextToken' = f.node + 1 /\ k + 1 = Len(frames')
          BY <1>1, <1>4, <1>5, <2>1
        <5>3. QED
          BY <3>1, <5>1, <5>2 DEF Leaf
      <4>3. QED
        BY <1>2, <1>3, <1>4, <3>1, <3>2, <3>3, <4>1, <4>2 DEF CallerOf
    <3>4. CASE StepOf(rest) \notin {"checkPath", "checkName"}
      <4>1. \A j \in 1 .. Len(rest) : rest[j] \in Closing
        BY <3>4
      <4> HIDE DEF rest
      <4>2. QED
        BY <1>3, <3>1, <3>2, <3>4, <4>1 DEF CallerOf
    <3>5. QED
      BY <3>3, <3>4
  <2>2. CASE k \in 1 .. L - 1
    <3>1. CallerOf(k) /\ frames'[k] = frames[k]
      BY <1>1, <1>5, <2>2 DEF Held, Framing
    <3>2. frames'[k + 1].node = frames[k + 1].node /\ frames'[k + 1].into = frames[k + 1].into
      <4>1. k + 1 = L \/ k + 1 \in 1 .. L - 1
        BY <1>1, <2>2
      <4>2. QED
        BY <1>1, <1>3, <1>5, <4>1
    <3>3. ~Leaf(k + 1)
      BY DEF Leaf
    <3>4. QED
      BY <1>2, <3>1, <3>2, <3>3 DEF CallerOf, Looked
  <2>3. QED
    BY <1>1, <2>1, <2>2
<1>11. TopPlaced'
  <2>1. StepOf(f.todo) = "path" => nextToken' = Looked(f)
    BY <1>4 DEF Looked
  <2>2. QED
    BY <1>4, <1>5, <2>1 DEF TopPlaced
<1> HIDE DEF Z
<1>12. PICK H : H = [k \in 0 .. L + 1 |-> IF k = L + 1 THEN Z ELSE IF k = L THEN Y ELSE G[k]]
  OBVIOUS
<1>13. Tracks(g, H)'
  <2>1. H[0] = {g.count + 1}
    BY <1>1, <1>12 DEF Held, Tracks
  <2>2. ASSUME NEW k \in 1 .. L + 1
        PROVE  /\ H[k] = Left(g, frames'[k].todo, frames'[k].node, H[k - 1])
               /\ Has(frames'[k].todo, "next") => \A q \in H[k - 1] : Kind(g, q) \in Enders
    <3>1. CASE k = L + 1
      <4>1. H[k] = Z /\ H[k - 1] = Y /\ frames'[k] = f
        BY <1>1, <1>5, <1>12, <3>1
      <4>2. QED
        BY <1>4, <4>1 DEF Z
    <3>2. CASE k = L
      <4>1. H[k] = Y /\ H[k - 1] = X /\ frames'[k] = Done
        BY <1>1, <1>5, <1>12, <3>2
      <4>2. Has(Top.todo, "next") => \A q \in X : Kind(g, q) \in Enders
        BY <1>1 DEF Held, Tracks
      <4>3. QED
        BY <1>3, <4>1, <4>2
    <3>3. CASE k \in 1 .. L - 1
      <4>1. H[k] = G[k] /\ H[k - 1] = G[k - 1] /\ frames'[k] = frames[k]
        BY <1>1, <1>5, <1>12, <3>3
      <4>2. QED
        BY <1>1, <3>3, <4>1 DEF Held, Tracks
    <3>4. k = L + 1 \/ k = L \/ k \in 1 .. L - 1
      BY <1>1
    <3>5. QED
      BY <3>1, <3>2, <3>3, <3>4
  <2>3. QED
    BY <1>5, <2>1, <2>2 DEF Tracks
<1>14. P <=> nextToken' \in H[Len(frames')]
  <2>1. H[L + 1] = Z
    BY <1>1, <1>12
  <2>2. QED
    BY <1>1, <1>5, <2>1 DEF Z, f
<1>15. Framing'
  <2>1. Len(frames') - 1 = L
    BY <1>1, <1>5
  <2>2. QED
    BY <1>5, <1>9, <1>10, <1>11, <2>1 DEF Framing
<1>16. nextToken' \in Places(g)
  BY <1>1, <1>6 DEF Places
<1>17. Held(g, P, H)'
  BY <1>2, <1>5, <1>7, <1>13, <1>14, <1>15, <1>16 DEF Held
<1>18. QED
  BY <1>17

LEMMA ClosingSteps ==
  ASSUME NEW todo \in Seq(StepNames), \A j \in 1 .. Len(todo) : todo[j] \in Closing
  PROVE  StepOf(todo) \notin {"path", "checkPath", "as", "name", "checkName"}
<1>1. {"path", "checkPath", "as", "name", "checkName"} \cap Closing = {}
  <2>1. CloseBrace \notin {"path", "checkPath", "as", "name", "checkName"}
    BY StepsApart
  <2>2. QED
    BY <2>1 DEF Closing, Brackets
<1>2. todo # <<>> => todo[1] \in Closing
  <2>1. Len(todo) \in Nat /\ (todo # <<>> => Len(todo) # 0)
    BY EmptySeq, LenProperties
  <2>2. QED
    BY <2>1
<1>3. QED
  BY <1>1, <1>2 DEF StepOf

LEMMA Pops ==
  ASSUME NEW g, NEW P, NEW G, Held(g, P, G), frames # <<>>, Top.todo = <<>>,
         UNCHANGED <<source, tokens, kinds>>, ReturnWith(Top.node, nodes)
  PROVE  Held(g, P, G)'
<1> DEFINE L == Len(frames)
           c == frames[L - 1].node
<1>1. /\ L \in Nat \ {0} /\ Top = frames[L] /\ g.count \in Nat /\ g.count = Len(tokens)
      /\ \A k \in 1 .. L : frames[k] \in Call /\ frames[k].node <= Top.node
      /\ Top.node \in 1 .. g.count /\ Top \in Call /\ Framed(L)
      /\ G[L] = Left(g, Top.todo, Top.node, G[L - 1])
      /\ (P <=> nextToken \in G[L])
  BY HeldIs
<1>2. OfTokens(g)' /\ Worded' /\ tokens' = tokens /\ kinds' = kinds /\ IsGrammar(g)
  BY SameText DEF Held
<1>3. frames' = Front(frames) /\ nextToken' = nextToken
  BY DEF ReturnWith
<1>4. /\ frames' \in Seq(Call) /\ Len(frames') = L - 1
      /\ \A k \in 1 .. L - 1 : frames'[k] = frames[k]
  <2>1. \A k \in 1 .. L - 1 : k \in 1 .. L /\ frames[k] \in Call
    BY <1>1
  <2>2. L - 1 \in Nat /\ frames' = SubSeq(frames, 1, L - 1)
    BY <1>1, <1>3 DEF Front
  <2> HIDE DEF L
  <2>3. QED
    BY <2>1, <2>2, SubSeqProperties
<1>5. /\ Noded' /\ \A i \in 1 .. g.count : nodes'[i].kind = nodes[i].kind
      /\ L > 1 => /\ Top.into = "sub" => nodes'[c].sub = Top.node
                  /\ \A i \in 1 .. g.count : i # c => nodes'[i] = nodes[i]
  <2>1. CASE L = 1
    <3>1. nodes' = nodes
      BY <2>1 DEF ReturnWith
    <3>2. QED
      BY <1>2, <2>1, <3>1 DEF Held, Noded
  <2>2. CASE L # 1
    <3>1. L - 1 \in 1 .. L
      <4> HIDE DEF L
      <4> QED BY <1>1, <2>2
    <3>2. c \in 1 .. g.count
      BY <1>1, <3>1 DEF Held, Framing, Framed
    <3>3. Top.into \in {"sub", "alt", "next"}
      BY <1>1, <2>2 DEF Call, Intos, Framed
    <3>4. nodes' = CASE Top.into = "sub"  -> [nodes EXCEPT ![c].sub = Top.node]
                     [] Top.into = "alt"  -> [nodes EXCEPT ![c].alt = Top.node]
                     [] Top.into = "next" -> [nodes EXCEPT ![c].next = Top.node]
      BY <2>2 DEF ReturnWith
    <3>5. Noded
      BY DEF Held
    <3> HIDE DEF c
    <3>6. CASE Top.into = "sub"
      <4>1. nodes' = [nodes EXCEPT ![c].sub = Top.node]
        BY <3>4, <3>6
      <4>2. QED
        BY <1>1, <1>2, <3>2, <3>5, <4>1 DEF Noded
    <3>7. CASE Top.into = "alt"
      <4>1. nodes' = [nodes EXCEPT ![c].alt = Top.node]
        BY <3>4, <3>7
      <4>2. QED
        BY <1>1, <1>2, <3>2, <3>5, <3>7, <4>1 DEF Noded
    <3>8. CASE Top.into = "next"
      <4>1. nodes' = [nodes EXCEPT ![c].next = Top.node]
        BY <3>4, <3>8
      <4>2. QED
        BY <1>1, <1>2, <3>2, <3>5, <3>8, <4>1 DEF Noded
    <3>9. QED
      BY <3>3, <3>6, <3>7, <3>8
  <2>3. QED
    BY <2>1, <2>2
<1>6. \A k \in 1 .. L - 1 : Framed(k)'
  <2> SUFFICES ASSUME NEW k \in 1 .. L - 1
               PROVE  Framed(k)'
    OBVIOUS
  <2>1. Framed(k) /\ frames'[k] = frames[k]
    BY <1>1, <1>4 DEF Held, Framing
  <2>2. nodes'[frames[k].node].kind = nodes[frames[k].node].kind
    BY <1>1, <1>5, <2>1 DEF Framed
  <2>3. QED
    BY <1>2, <1>3, <2>1, <2>2 DEF Framed
<1>7. \A k \in 1 .. L - 2 : CallerOf(k)'
  <2> SUFFICES ASSUME NEW k \in 1 .. L - 2
               PROVE  CallerOf(k)'
    OBVIOUS
  <2>1. k \in 1 .. L - 1 /\ k + 1 \in 1 .. L - 1 /\ k + 1 # L
    BY <1>1
  <2>2. CallerOf(k) /\ frames'[k] = frames[k] /\ frames'[k + 1] = frames[k + 1]
    BY <1>4, <2>1 DEF Held, Framing
  <2>3. ~Leaf(k + 1)
    BY <2>1 DEF Leaf
  <2>4. QED
    BY <1>2, <2>2, <2>3 DEF CallerOf, Looked
<1>8. ASSUME L > 1
      PROVE  TopPlaced'
  <2>0. PICK f, at : f = frames[L - 1] /\ at = Looked(f)
    OBVIOUS
  <2>1. L - 1 \in 1 .. L /\ L - 1 \in 1 .. L - 1 /\ L - 1 + 1 = L
    BY <1>1, <1>8
  <2>2. CallerOf(L - 1) /\ frames'[L - 1] = f /\ f \in Call /\ Framed(L - 1)
    BY <1>1, <1>4, <2>0, <2>1 DEF Held, Framing
  <2>3. CASE StepOf(f.todo) \in {"checkPath", "checkName"}
    <3>1. /\ c < Top.node /\ Top.node = at /\ Top.into = "sub"
          /\ kinds[at] = "CHAIN" => Leaf(L)
      BY <1>1, <2>0, <2>1, <2>2, <2>3 DEF CallerOf
    <3>2. c \in 1 .. g.count /\ c # at
      BY <1>1, <2>0, <2>2, <3>1 DEF Framed
    <3>3. nodes'[c].sub = at /\ nodes'[at] = nodes[at]
      BY <1>1, <1>5, <1>8, <3>1, <3>2
    <3>4. at < nextToken /\ nodes[at].kind = kinds[at]
      BY <1>1, <3>1 DEF Framed
    <3>5. Leaf(L) => nextToken = at + 1 /\ nodes[at].chain = ChainElems(Lexeme(at))
      <4>1. Top.todo # <<"chain">>
        OBVIOUS
      <4>2. QED
        BY <1>1, <3>1, <4>1 DEF Leaf
    <3>6. Lexeme(at)' = Lexeme(at)
      BY SameText
    <3>7. /\ StepOf(f.todo) \notin {"path", "name", "as"}
          /\ frames'[Len(frames')] = f /\ f.node = c /\ Looked(f) = at
      BY <1>4, <2>0, <2>2, <2>3
    <3>8. QED
      BY <1>2, <1>3, <3>1, <3>3, <3>4, <3>5, <3>6, <3>7 DEF TopPlaced
  <2>4. CASE StepOf(f.todo) \notin {"checkPath", "checkName"}
    <3>1. \A j \in 1 .. Len(f.todo) : f.todo[j] \in Closing
      BY <2>0, <2>2, <2>4 DEF CallerOf
    <3>2. f.todo \in Seq(StepNames)
      BY <2>2 DEF Call
    <3>3. StepOf(f.todo) \notin {"path", "checkPath", "as", "name", "checkName"}
      BY <3>1, <3>2, ClosingSteps
    <3>4. frames'[Len(frames')] = f
      BY <1>4, <2>2
    <3>5. QED
      BY <3>3, <3>4 DEF TopPlaced
  <2>5. QED
    BY <2>3, <2>4
<1>9. Framing'
  <2>1. frames' # <<>> => L > 1
    BY <1>1, <1>4, EmptySeq
  <2>2. Len(frames') - 1 = L - 2
    BY <1>1, <1>4
  <2>3. QED
    BY <1>4, <1>6, <1>7, <1>8, <2>1, <2>2 DEF Framing
<1>10. Tracks(g, G)'
  <2>1. \A k \in 1 .. L - 1 : k \in 1 .. L /\ frames'[k] = frames[k]
    BY <1>1, <1>4
  <2>2. QED
    BY <1>4, <2>1 DEF Held, Tracks
<1>11. P <=> nextToken' \in G[Len(frames')]
  <2>1. G[L] = G[L - 1]
    BY <1>1, LeftNil
  <2>2. QED
    BY <1>1, <1>3, <1>4, <2>1
<1>12. nextToken' \in Places(g)
  BY <1>3 DEF Held
<1>13. QED
  BY <1>2, <1>4, <1>5, <1>9, <1>10, <1>11, <1>12 DEF Held

-----------------------------------------------------------------------------
(* Each step of fpParseBody: an error only when the program is not one of  *)
(* the grammar, and what is left stays readable, or unreadable.            *)

Goes(g, P) ==
  /\ errors' # <<>> => ~P
  /\ errors' = <<>> => \E H : Held(g, P, H)'

LEMMA Skips ==
  ASSUME NEW g, NEW P, NEW G, Held(g, P, G), frames # <<>>, Top.todo # <<>>,
         UNCHANGED <<source, tokens, kinds>>, errors = <<>>, errors' = errors,
         frames' = Skip, Noded',
         nextToken' \in Places(g), nextToken' >= nextToken,
         \A i \in 1 .. Top.node : nodes'[i].kind = nodes[i].kind,
         kinds[Top.node] = "CHAIN" /\ Leaf(Len(frames)) => Leaf(Len(frames))',
         Head(Top.todo) \in {"path", "checkPath", "name"} => TopPlaced',
         nextToken' \in Left(g, Tail(Top.todo), Top.node, G[Len(frames) - 1])
           <=> nextToken \in G[Len(frames)]
  PROVE  Goes(g, P)
<1> DEFINE rest == Tail(Top.todo)
           L == Len(frames)
<1>1. /\ L \in Nat \ {0} /\ Top = frames[L] /\ Framed(L) /\ TopPlaced
      /\ Top.todo \in Seq(StepNames) /\ Shaped(Top.todo) /\ Top \in Call
  BY HeldIs
<1>2. /\ Done \in Call /\ Done.node = Top.node /\ Done.into = Top.into
      /\ Done.sigBegin = Top.sigBegin /\ Done.sigEnd = Top.sigEnd
      /\ Done.todo = rest /\ rest \in Seq(StepNames) /\ Shaped(rest)
      /\ \A step : Has(rest, step) => Has(Top.todo, step)
  BY DoneIs
<1>3. Head(Top.todo) \notin {"path", "checkPath", "name"} =>
        StepOf(rest) \notin {"path", "checkPath", "as", "name", "checkName"}
  BY <1>1, StepsFollow
<1>4. frames' = ReplaceAt(frames, Len(frames), Done)
  BY DEF Skip
<1>5. frames'[Len(frames')] = Done
  <2>1. L \in 1 .. L /\ frames \in Seq(Call)
    BY <1>1 DEF Held
  <2>2. QED
    BY <1>2, <1>4, <2>1, ExceptSeq DEF ReplaceAt
<1>6. TopPlaced'
  <2>1. CASE Head(Top.todo) \notin {"path", "checkPath", "name"}
    <3>1. StepOf(Done.todo) \notin {"path", "checkPath", "as", "name", "checkName"}
      BY <1>2, <1>3, <2>1
    <3>2. QED
      BY <1>5, <3>1 DEF TopPlaced
  <2>2. QED
    BY <2>1
<1>7. /\ Done.sigBegin > Done.node \/ Done.sigEnd <= Done.sigBegin
      /\ Shaped(Done.todo) /\ (Has(Done.todo, "chain") => Has(Top.todo, "chain"))
      /\ Has(Done.todo, "next") => Has(Top.todo, "next")
      /\ nextToken' \in Left(g, Done.todo, Done.node, G[Len(frames) - 1])
           <=> nextToken \in G[Len(frames)]
  <2>1. Top.sigBegin > Top.node \/ Top.sigEnd <= Top.sigBegin
    BY <1>1 DEF Framed
  <2>2. nextToken' \in Left(g, Done.todo, Done.node, G[Len(frames) - 1])
           <=> nextToken \in G[Len(frames)]
    BY <1>2
  <2> HIDE DEF rest
  <2>3. QED
    BY <1>2, <2>1, <2>2
<1> HIDE DEF rest, L
<1>8. \E H : Held(g, P, H)'
  BY <1>2, <1>4, <1>6, <1>7, Stays
<1>9. QED
  BY <1>8 DEF Goes

LEMMA Fails ==
  ASSUME NEW g, NEW P, ~P, errors = <<>>, NEW message, NEW i,
         errors' = Append(errors, ErrorAt(message, i))
  PROVE  Goes(g, P)
<1>1. errors' # <<>>
  OBVIOUS
<1>2. QED
  BY <1>1 DEF Goes

LEMMA ChainGoes ==
  ASSUME NEW g, NEW P, NEW G, Held(g, P, G), frames # <<>>, errors = <<>>,
         UNCHANGED <<source, tokens, kinds>>, Chain
  PROVE  Goes(g, P)
<1> DEFINE n == Top.node
           L == Len(frames)
           text == ChainText(kinds[n], Lexeme(n))
<1>1. /\ Framed(L) /\ Top = frames[L] /\ L \in Nat \ {0} /\ nextToken \in Places(g)
      /\ Top.node \in 1 .. g.count /\ g.count = Len(tokens) /\ g.count \in Nat
      /\ Top.todo \in Seq(StepNames) /\ Shaped(Top.todo) /\ nextToken \in Nat
  BY HeldIs
<1>2. Top.todo # <<>> /\ Head(Top.todo) = "chain"
  BY DEF Chain, Doing
<1>3. kinds[n] \in DOMAIN ChainMargins
  BY <1>1, <1>2, ShapedTail DEF Framed
<1>4. /\ Len(Lexeme(n)) \in Nat /\ Len(Lexeme(n)) > 0 /\ kinds[n] = KindOf(Lexeme(n))
      /\ ChainText("CHAIN", Lexeme(n)) = Lexeme(n)
  BY <1>1 DEF Held, Worded
<1>5. ChainParses(text)
  <2> DEFINE w == Lexeme(n)
  <2>1. Len(ChainText(KindOf(w), w)) \in Nat /\ IsChain(ChainText(KindOf(w), w))
    <3> HIDE DEF w, n
    <3> QED BY <1>3, <1>4, ChainTextIs DEF w
  <2>2. Len(text) \in Nat /\ IsChain(text)
    BY <1>4, <2>1
  <2> HIDE DEF text
  <2>3. QED
    BY <2>2, ChainIs
<1>6. /\ nodes' = [nodes EXCEPT ![Top.node].chain = ChainElems(text)]
      /\ frames' = Skip /\ UNCHANGED <<nextToken, root, errors>>
  BY <1>5 DEF Chain
<1>7. Noded
  BY DEF Held
<1>8. /\ Noded' /\ \A i \in 1 .. n : nodes'[i].kind = nodes[i].kind
      /\ nodes'[n].chain = ChainElems(text)
  <2> HIDE DEF text
  <2>1. /\ Noded' /\ \A i \in 1 .. g.count : nodes'[i].kind = nodes[i].kind
        /\ nodes'[n].chain = ChainElems(text)
    BY <1>1, <1>6, <1>7 DEF Noded
  <2>2. \A i \in 1 .. n : i \in 1 .. g.count
    BY <1>1
  <2>3. QED
    BY <2>1, <2>2
<1>9. /\ Done.todo = Tail(Top.todo) /\ Done.node = n
      /\ G[L] = Before(g, Head(Top.todo), n, Left(g, Tail(Top.todo), n, G[L - 1]))
  BY <1>2, DoneIs
<1>10. frames'[L] = Done /\ Len(frames') = L
  <2>1. L \in 1 .. L /\ frames \in Seq(Call) /\ Done \in Call
    BY <1>1, <1>2, DoneIs DEF Held
  <2>2. QED
    BY <1>6, <2>1, ExceptSeq, LenProperties DEF ReplaceAt, Skip
<1>11. kinds[n] = "CHAIN" /\ Leaf(L) => Leaf(Len(frames))'
  <2> SUFFICES ASSUME kinds[n] = "CHAIN", Leaf(L)
               PROVE  Leaf(Len(frames))'
    OBVIOUS
  <2>1. Top.todo = <<"chain">> /\ nextToken = n + 1
    BY <1>1, <1>2 DEF Leaf
  <2>2. Tail(Top.todo) = <<>>
    BY <2>1
  <2>3. PICK m : m = n
    OBVIOUS
  <2>4. kinds[m] = "CHAIN" => nodes'[m].chain = ChainElems(Lexeme(m))
    BY <1>4, <1>8, <2>3
  <2>5. kinds[m] = "CHAIN"
    BY <2>3
  <2>6. Lexeme(m)' = Lexeme(m)
    BY SameText
  <2>7. QED
    BY <1>6, <1>9, <1>10, <2>1, <2>2, <2>3, <2>4, <2>5, <2>6 DEF Leaf
<1>12. nextToken' \in Left(g, Tail(Top.todo), n, G[L - 1]) <=> nextToken \in G[L]
  BY <1>1, <1>2, <1>6, <1>9, BeforeCases
<1>13. QED
  <2> HIDE DEF text, n, L
  <2>1. Head(Top.todo) \notin {"path", "checkPath", "name"}
    BY <1>2
  <2>2. QED
    BY <1>1, <1>2, <1>6, <1>8, <1>11, <1>12, <2>1, Skips DEF n, L

-----------------------------------------------------------------------------
(* The kinds a token may have.                                             *)

LEMMA NextKind ==
  ASSUME NEW g, OfTokens(g), Len(tokens) \in Nat, Worded, nextToken \in Places(g)
  PROVE  /\ AtEnd <=> Kind(g, nextToken) = "end"
         /\ AtEnd <=> nextToken = g.count + 1
         /\ ~AtEnd => nextToken \in 1 .. g.count /\ kinds[nextToken] = Kind(g, nextToken)
         /\ fpHasNextUnit <=> Kind(g, nextToken) \notin Enders
         /\ \A word : word # "end" => (NextIs(word) <=> Kind(g, nextToken) = word)
<1>1. /\ g.count = Len(tokens) /\ g.count \in Nat
      /\ \A i \in 1 .. g.count : Kind(g, i) = kinds[i]
      /\ \A i : Kind(g, i) # "end" => i \in 1 .. g.count
  BY KindIs
<1>2. \A i \in 1 .. g.count : kinds[i] # "end"
  BY <1>1, KindNamed DEF Worded
<1>3. AtEnd <=> nextToken = g.count + 1
  BY <1>1 DEF AtEnd, Places
<1>4. ~AtEnd => nextToken \in 1 .. g.count
  BY <1>1, <1>3 DEF Places
<1>5. AtEnd <=> Kind(g, nextToken) = "end"
  BY <1>1, <1>2, <1>3, <1>4
<1>6. fpHasNextUnit <=> ~AtEnd /\ kinds[nextToken] \notin Brackets
  BY Zenon DEF fpHasNextUnit, Brackets, CloseBrace
<1>7. fpHasNextUnit <=> Kind(g, nextToken) \notin Enders
  BY <1>1, <1>2, <1>4, <1>5, <1>6 DEF Enders
<1>8. QED
  BY <1>1, <1>3, <1>4, <1>5, <1>7 DEF NextIs

LEMMA SignatureGoes ==
  ASSUME NEW g, NEW P, NEW G, Held(g, P, G), frames # <<>>, errors = <<>>,
         UNCHANGED <<source, tokens, kinds>>, Signature
  PROVE  Goes(g, P)
<1> DEFINE n == Top.node
           L == Len(frames)
           p == nextToken
           after == Min({i \in p .. Len(tokens) : kinds[i] # "CHAIN"} \cup {Len(tokens) + 1})
           Z == Left(g, Tail(Top.todo), n, G[L - 1])
<1>1. /\ Framed(L) /\ Top = frames[L] /\ L \in Nat \ {0} /\ p \in Places(g) /\ Top \in Call
      /\ n \in 1 .. g.count /\ g.count = Len(tokens) /\ g.count \in Nat
      /\ Top.todo \in Seq(StepNames) /\ Shaped(Top.todo) /\ p \in Nat
  BY HeldIs
<1>2. Top.todo # <<>> /\ Head(Top.todo) = "sig"
  BY DEF Signature, Doing
<1>3. OfTokens(g) /\ Worded /\ Noded
  BY DEF Held
<1>4. /\ Done \in Call /\ Done.node = n /\ Done.into = Top.into
      /\ Done.sigBegin = Top.sigBegin /\ Done.sigEnd = Top.sigEnd
      /\ Done.todo = Tail(Top.todo) /\ Tail(Top.todo) \in Seq(StepNames)
      /\ Shaped(Tail(Top.todo))
      /\ \A step : Has(Tail(Top.todo), step) => Has(Top.todo, step)
      /\ G[L] = Before(g, "sig", n, Z)
      /\ ~Leaf(L)
  BY <1>2, DoneIs
<1>5. after = AfterNames(g, p)
  <2>1. \A i \in 1 .. g.count : Kind(g, i) = kinds[i]
    BY <1>1, <1>3, KindIs
  <2>2. Kind(g, g.count + 1) # "CHAIN"
    BY <1>1 DEF Kind
  <2>3. {i \in p .. Len(tokens) : kinds[i] # "CHAIN"} \cup {Len(tokens) + 1}
          = {j \in p .. g.count + 1 : Kind(g, j) # "CHAIN"}
    BY <1>1, <2>1, <2>2 DEF Places
  <2>4. QED
    BY <2>3 DEF AfterNames
<1>6. /\ after \in p .. g.count + 1
      /\ p < after => Kind(g, p) = "CHAIN"
  BY <1>1, <1>5, AfterNamesIs
<1>7. fpHasNextUnit <=> Kind(g, p) \notin Enders
  BY <1>1, <1>3, NextKind
<1> DEFINE Is == fpHasNextUnit /\ after <= Len(tokens) /\ kinds[after] = "=>"
<1>8. Is <=> Kind(g, after) = "=>"
  <2>1. /\ \A i \in 1 .. g.count : Kind(g, i) = kinds[i]
        /\ Kind(g, after) # "end" => after \in 1 .. g.count
    BY <1>1, <1>3, KindIs
  <2>2. Kind(g, after) = "=>" => after = p \/ Kind(g, p) = "CHAIN"
    BY <1>1, <1>6
  <2>3. "CHAIN" \notin Enders /\ "=>" \notin Enders
    BY StepsApart DEF Enders, Brackets
  <2>4. Kind(g, after) = "=>" => fpHasNextUnit
    BY <1>7, <2>2, <2>3
  <2>5. after <= Len(tokens) => after \in 1 .. g.count
    <3> HIDE DEF after
    <3> QED BY <1>1, <1>6 DEF Places
  <2> HIDE DEF after
  <2>6. QED
    BY <1>1, <2>1, <2>4, <2>5
<1>9. p \in G[L] <=> (IF Kind(g, after) = "=>" THEN after + 1 ELSE p) \in Z
  <2> HIDE DEF Z
  <2> QED BY <1>1, <1>4, <1>5, BeforeCases
<1>10. UNCHANGED <<nodes, root, errors>>
  BY DEF Signature
<1>11. Noded'
  BY <1>3, <1>10 DEF Noded
<1>12. CASE Is
  <2> DEFINE f == [Done EXCEPT !.sigBegin = p, !.sigEnd = after]
  <2>1. frames' = ReplaceAt(frames, Len(frames), f) /\ nextToken' = after + 1
    BY <1>12 DEF Signature
  <2>2. after <= g.count
    BY <1>1, <1>12
  <2>3. nextToken' \in Places(g) /\ nextToken' >= nextToken /\ after \in Nat
    <3> HIDE DEF after
    <3> QED BY <1>1, <1>6, <2>1, <2>2 DEF Places
  <2> HIDE DEF after
  <2>4. /\ f \in Call /\ f.node = n /\ f.into = Top.into /\ f.todo = Tail(Top.todo)
        /\ f.sigBegin = p
    BY <1>1, <1>4, <2>3 DEF Call
  <2> HIDE DEF f, Z
  <2>5. f.sigBegin > f.node
    BY <1>1, <2>4 DEF Framed
  <2>6. frames'[Len(frames')] = f
    <3>1. L \in 1 .. L /\ frames \in Seq(Call)
      BY <1>1 DEF Held
    <3>2. QED
      BY <2>1, <2>4, <3>1, ExceptSeq DEF ReplaceAt
  <2>7. TopPlaced'
    <3>1. StepOf(f.todo) \notin {"path", "checkPath", "as", "name", "checkName"}
      BY <1>1, <1>2, <2>4, StepsFollow
    <3>2. QED
      BY <2>6, <3>1 DEF TopPlaced
  <2>8. nextToken' \in Left(g, f.todo, f.node, G[L - 1]) <=> nextToken \in G[L]
    BY <1>8, <1>9, <1>12, <2>1, <2>4 DEF Z
  <2>9. /\ Shaped(f.todo) /\ (Has(f.todo, "chain") => Has(Top.todo, "chain"))
        /\ (Has(f.todo, "next") => Has(Top.todo, "next"))
    BY <1>4, <2>4
  <2>10. \A i \in 1 .. Top.node : nodes'[i].kind = nodes[i].kind
    BY <1>10
  <2> HIDE DEF n, L, p
  <2>11. \E H : Held(g, P, H)'
    BY <1>4, <1>11, <2>1, <2>3, <2>4, <2>5, <2>7, <2>8, <2>9, <2>10, Stays DEF n, L
  <2>12. QED
    BY <1>10, <2>11 DEF Goes
<1>13. CASE ~Is
  <2>1. frames' = Skip /\ nextToken' = nextToken
    BY <1>13 DEF Signature
  <2>2. nextToken' \in Z <=> nextToken \in G[L]
    <3> HIDE DEF Z, after
    <3> QED BY <1>8, <1>9, <1>13, <2>1
  <2>3. /\ nextToken' \in Places(g) /\ nextToken' >= nextToken
        /\ Head(Top.todo) \notin {"path", "checkPath", "name"}
        /\ \A i \in 1 .. Top.node : nodes'[i].kind = nodes[i].kind
    BY <1>1, <1>2, <1>10, <2>1
  <2>4. nextToken' \in Left(g, Tail(Top.todo), Top.node, G[Len(frames) - 1])
           <=> nextToken \in G[Len(frames)]
    BY <2>2
  <2> HIDE DEF n, L, p, Z
  <2>5. QED
    BY <1>2, <1>4, <1>10, <1>11, <2>1, <2>3, <2>4, Skips DEF L
<1>14. QED
  BY <1>12, <1>13

LEMMA SigBindsGoes ==
  ASSUME NEW g, NEW P, NEW G, Held(g, P, G), frames # <<>>, errors = <<>>,
         UNCHANGED <<source, tokens, kinds>>, SigBinds
  PROVE  Goes(g, P)
<1> DEFINE n == Top.node
           L == Len(frames)
           a == Top.sigBegin
           z == Top.sigEnd - 1
           Bind(i) == [NewNode("SIGBIND") EXCEPT
                         !.next = IF i = a THEN nodes[Top.node].sub ELSE i - 1]
           Z == Left(g, Tail(Top.todo), n, G[L - 1])
<1>1. /\ Framed(L) /\ Top = frames[L] /\ L \in Nat \ {0} /\ nextToken \in Places(g)
      /\ Top \in Call /\ n \in 1 .. g.count /\ g.count = Len(tokens) /\ g.count \in Nat
      /\ nextToken \in Nat
  BY HeldIs
<1>2. Top.todo # <<>> /\ Head(Top.todo) = "binds"
  BY DEF SigBinds, Doing
<1>3. G[L] = Before(g, "binds", n, Z) /\ ~Leaf(L)
  BY <1>2, DoneIs
<1>4. frames' = Skip /\ UNCHANGED <<nextToken, root, errors>>
  BY DEF SigBinds
<1>5. nodes' = [i \in DOMAIN nodes |->
                  CASE i \in a .. z -> Bind(i)
                    [] i = n /\ a <= z -> [nodes[i] EXCEPT !.sub = z]
                    [] OTHER -> nodes[i]]
  BY DEF SigBinds
<1>6. Noded
  BY DEF Held
<1>7. \A i : DOMAIN Bind(i) = {"kind", "sub", "alt", "next", "chain"}
  BY DEF NewNode, NoNode
<1>8. a \in Nat /\ z \in Int /\ (a > n \/ z < a)
  BY <1>1 DEF Framed, Call
<1> HIDE DEF Bind, a, z, n, L, Z
<1>9. \A i \in 1 .. n : i \notin a .. z
  BY <1>1, <1>8
<1>10. Noded' /\ \A i \in 1 .. n : nodes'[i].kind = nodes[i].kind
  <2>1. tokens' = tokens
    OBVIOUS
  <2>2. \A i \in 1 .. g.count :
          nodes'[i] = CASE i \in a .. z -> Bind(i)
                        [] i = n /\ a <= z -> [nodes[i] EXCEPT !.sub = z]
                        [] OTHER -> nodes[i]
    BY <1>1, <1>5, <1>6 DEF Noded
  <2>3. \A i \in 1 .. g.count : \/ nodes'[i] = Bind(i) /\ i \in a .. z
                                \/ nodes'[i] = [nodes[i] EXCEPT !.sub = z]
                                \/ nodes'[i] = nodes[i]
    BY <2>2
  <2>4. \A i \in 1 .. g.count : DOMAIN nodes'[i] = {"kind", "sub", "alt", "next", "chain"}
    BY <1>1, <1>6, <1>7, <2>3 DEF Noded
  <2>5. DOMAIN nodes' = DOMAIN nodes
    BY <1>5
  <2>6. Noded'
    BY <1>1, <1>6, <2>1, <2>4, <2>5 DEF Noded
  <2>7. \A i \in 1 .. n : i \in 1 .. g.count
    BY <1>1
  <2>8. \A i \in 1 .. g.count : [nodes[i] EXCEPT !.sub = z].kind = nodes[i].kind
    BY <1>1, <1>6 DEF Noded
  <2>9. QED
    BY <1>9, <2>3, <2>6, <2>7, <2>8
<1>11. nextToken' \in Z <=> nextToken \in G[L]
  BY <1>1, <1>3, <1>4, BeforeCases
<1>12. nextToken' \in Left(g, Tail(Top.todo), Top.node, G[Len(frames) - 1])
         <=> nextToken \in G[Len(frames)]
  BY <1>11 DEF Z, n, L
<1>13. /\ nextToken' \in Places(g) /\ nextToken' >= nextToken
       /\ Head(Top.todo) \notin {"path", "checkPath", "name"}
       /\ ~Leaf(Len(frames))
       /\ \A i \in 1 .. Top.node : nodes'[i].kind = nodes[i].kind
  BY <1>1, <1>2, <1>3, <1>4, <1>10 DEF n, L
<1>14. QED
  BY <1>2, <1>4, <1>10, <1>12, <1>13, Skips

LEMMA OpensUnit ==
  ASSUME NEW g, IsGrammar(g), OfTokens(g), Len(tokens) \in Nat, NEW p \in 1 .. g.count,
         NEW into \in Intos, NEW single, NEW Y
  PROVE  p + 1 \in Left(g, Frame(p, single, into).todo, p, Y)
           <=> (IF single THEN Unit(g, p) ELSE Body(g, p)) \cap Y # {}
<1>1. g.count \in Nat /\ p \in Nat /\ Kind(g, p) = kinds[p]
  BY KindIs
<1>2. /\ single => Frame(p, single, into).todo = Script(kinds[p])
      /\ ~single => Frame(p, single, into).todo = Script(kinds[p]) \o <<"next">>
  BY <1>1, FrameIs
<1>3. Script(kinds[p]) \in Seq(StepNames)
  BY ScriptShaped DEF Scripted
<1>4. CASE single
  <2>1. Script(kinds[p]) \o <<>> = Script(kinds[p])
    BY <1>3, ConcatEmptySeq
  <2>2. <<>> \in Seq(StepNames)
    BY EmptySeq
  <2>3. Y = Left(g, <<>>, p, Y)
    BY LeftNil
  <2>4. p + 1 \in Left(g, Script(Kind(g, p)) \o <<>>, p, Y) <=> Unit(g, p) \cap Y # {}
    BY <2>2, <2>3, ScriptIs
  <2>5. QED
    BY <1>1, <1>2, <1>4, <2>1, <2>4
<1>5. CASE ~single
  <2> DEFINE Z == Before(g, "next", p, Y)
  <2>1. <<"next">> \in Seq(StepNames) /\ <<"next">> \o <<>> = <<"next">>
    BY DEF StepNames
  <2>2. Z = Left(g, <<"next">>, p, Y)
    <3>1. PICK t : t = <<"next">>
      OBVIOUS
    <3>2. t \in Seq(StepNames) /\ t # <<>> /\ Head(t) = "next" /\ Tail(t) = <<>>
      BY <3>1, <2>1
    <3>3. Left(g, t, p, Y) = Before(g, Head(t), p, Left(g, Tail(t), p, Y))
      BY <3>2, LeftCons
    <3>4. Left(g, t, p, Y) = Before(g, "next", p, Left(g, <<>>, p, Y))
      BY <3>2, <3>3
    <3>5. QED
      BY <3>1, <3>4, LeftNil
  <2> HIDE DEF Z
  <2>3. p + 1 \in Left(g, Script(Kind(g, p)) \o <<"next">>, p, Y) <=> Unit(g, p) \cap Z # {}
    BY <2>1, <2>2, ScriptIs
  <2>4. Unit(g, p) \subseteq Places(g)
    BY <1>1 DEF IsGrammar, Places
  <2>5. \A q \in Places(g) : q \in Z <=> q \in Y \/ Body(g, q) \cap Y # {}
    BY BeforeCases DEF Z
  <2>6. Body(g, p) = Unit(g, p) \cup UNION {Body(g, e) : e \in Unit(g, p)}
    BY DEF IsGrammar
  <2>7. Unit(g, p) \cap Z # {} <=> Body(g, p) \cap Y # {}
    BY <2>4, <2>5, <2>6
  <2>8. QED
    BY <1>1, <1>2, <1>5, <2>3, <2>7
<1>6. QED
  BY <1>4, <1>5

LEMMA CallGoes ==
  ASSUME NEW g, NEW P, NEW G, Held(g, P, G), frames # <<>>, errors = <<>>, Top.todo # <<>>,
         UNCHANGED <<source, tokens, kinds>>, Head(Top.todo) # "chain",
         NEW single, NEW into \in {"sub", "alt", "next"},
         CallBody(Skip, single, into),
         NEW Y, Y = Left(g, Tail(Top.todo), Top.node, G[Len(frames) - 1]),
         ~single => \A q \in Y : Kind(g, q) \in Enders,
         IF StepOf(Tail(Top.todo)) \in {"checkPath", "checkName"}
         THEN nextToken = Looked(Done) /\ into = "sub" /\ single
         ELSE \A j \in 1 .. Len(Tail(Top.todo)) : Tail(Top.todo)[j] \in Closing,
         nextToken \in G[Len(frames)]
           <=> (IF single THEN Unit(g, nextToken) ELSE Body(g, nextToken)) \cap Y # {}
  PROVE  Goes(g, P)
<1>1. /\ nextToken \in Places(g) /\ g.count = Len(tokens) /\ g.count \in Nat
      /\ P <=> nextToken \in G[Len(frames)]
  BY HeldIs
<1>2. IsGrammar(g) /\ OfTokens(g) /\ Worded
  BY DEF Held
<1>3. CASE AtEnd
  <2>1. nextToken \notin 1 .. g.count
    BY <1>1, <1>3 DEF AtEnd
  <2>2. Unit(g, nextToken) = {} /\ Body(g, nextToken) = {}
    BY <2>1 DEF Unit, Body
  <2>3. ~P
    BY <1>1, <2>2
  <2>4. errors' = Append(errors, ErrorAt("unexpected end of input", nextToken - 1))
    BY <1>3 DEF CallBody
  <2>5. QED
    BY <2>3, <2>4, Fails
<1>4. CASE ~AtEnd
  <2>1. /\ frames' = Append(Skip, Frame(nextToken, single, into))
        /\ nodes' = [nodes EXCEPT ![nextToken] = NewNode(kinds[nextToken])]
        /\ nextToken' = nextToken + 1 /\ errors' = errors
    BY <1>4 DEF CallBody
  <2>2. nextToken \in 1 .. g.count
    BY <1>1, <1>2, <1>4, NextKind
  <2>3. into \in Intos
    BY DEF Intos
  <2>4. nextToken + 1 \in Left(g, Frame(nextToken, single, into).todo, nextToken, Y)
          <=> (IF single THEN Unit(g, nextToken) ELSE Body(g, nextToken)) \cap Y # {}
    BY <1>1, <1>2, <2>2, <2>3, OpensUnit
  <2>5. nextToken + 1 \in Left(g, Frame(nextToken, single, into).todo, nextToken, Y)
          <=> nextToken \in G[Len(frames)]
    BY <2>4
  <2>6. ~Leaf(Len(frames))
    BY DoneIs
  <2>7. \E H : Held(g, P, H)'
    BY <1>4, <2>1, <2>5, <2>6, Pushes
  <2>8. QED
    BY <2>1, <2>7 DEF Goes
<1>5. QED
  BY <1>3, <1>4

LEMMA MoreGoes ==
  ASSUME NEW g, NEW P, NEW G, Held(g, P, G), frames # <<>>, errors = <<>>, Top.todo # <<>>,
         UNCHANGED <<source, tokens, kinds>>, Head(Top.todo) \in {"body", "next"},
         NEW into \in {"sub", "alt", "next"},
         IF fpHasNextUnit
         THEN CallBody(Skip, FALSE, into)
         ELSE frames' = Skip /\ UNCHANGED <<nextToken, nodes, root, errors>>,
         NEW Y, Y = Left(g, Tail(Top.todo), Top.node, G[Len(frames) - 1]),
         \A q \in Y : Kind(g, q) \in Enders
  PROVE  Goes(g, P)
<1> DEFINE L == Len(frames)
           p == nextToken
           rest == Tail(Top.todo)
<1>1. /\ L \in Nat \ {0} /\ p \in Places(g) /\ g.count = Len(tokens) /\ g.count \in Nat
      /\ Top.todo \in Seq(StepNames) /\ Shaped(Top.todo) /\ p \in Nat
  BY HeldIs
<1>2. IsGrammar(g) /\ OfTokens(g) /\ Worded /\ Noded
  BY DEF Held
<1>3. G[L] = Before(g, Head(Top.todo), Top.node, Y) /\ ~Leaf(L) /\ rest \in Seq(StepNames)
  BY DoneIs
<1>4. p \in G[L] <=> p \in Y \/ Body(g, p) \cap Y # {}
  BY <1>1, <1>3, BeforeCases
<1>5. fpHasNextUnit <=> Kind(g, p) \notin Enders
  BY <1>1, <1>2, NextKind
<1>6. \A j \in 1 .. Len(rest) : rest[j] \in Closing
  BY <1>1, StepsFollow DEF Calls
<1>7. StepOf(rest) \notin {"checkPath", "checkName"}
  BY <1>3, <1>6, ClosingSteps
<1>8. CASE fpHasNextUnit
  <2>1. p \in G[L] <=> Body(g, p) \cap Y # {}
    BY <1>4, <1>5, <1>8
  <2>2. PICK single : single = FALSE
    OBVIOUS
  <2>3. /\ CallBody(Skip, single, into) /\ Head(Top.todo) # "chain"
        /\ p \in G[L] <=> (IF single THEN Unit(g, p) ELSE Body(g, p)) \cap Y # {}
    BY <1>8, <2>1, <2>2
  <2>4. /\ nextToken \in G[Len(frames)]
             <=> (IF single THEN Unit(g, nextToken) ELSE Body(g, nextToken)) \cap Y # {}
        /\ StepOf(Tail(Top.todo)) \notin {"checkPath", "checkName"}
        /\ \A j \in 1 .. Len(Tail(Top.todo)) : Tail(Top.todo)[j] \in Closing
    BY <1>6, <1>7, <2>3
  <2> HIDE DEF L, p, rest
  <2>5. QED
    BY <2>3, <2>4, CallGoes
<1>9. CASE ~fpHasNextUnit
  <2>1. Body(g, p) = {}
    BY <1>2, <1>5, <1>9, UnitNone
  <2>2. frames' = Skip /\ UNCHANGED <<nextToken, nodes, root, errors>>
    BY <1>9
  <2>3. Noded'
    BY <1>2, <2>2 DEF Noded
  <2>4. /\ nextToken' \in Places(g) /\ nextToken' >= nextToken
        /\ Head(Top.todo) \notin {"path", "checkPath", "name"}
        /\ ~Leaf(Len(frames))
        /\ \A i \in 1 .. Top.node : nodes'[i].kind = nodes[i].kind
        /\ nextToken' \in Left(g, Tail(Top.todo), Top.node, G[Len(frames) - 1])
             <=> nextToken \in G[Len(frames)]
    BY <1>1, <1>3, <1>4, <2>1, <2>2
  <2>5. QED
    BY <2>2, <2>3, <2>4, Skips
<1>10. QED
  BY <1>8, <1>9

LEMMA BracketNext ==
  ASSUME NEW g, NEW todo \in Seq(StepNames), todo # <<>>, NEW n, NEW X,
         \/ Head(todo) \in Brackets
         \/ Head(todo) = "binds" /\ Tail(todo) # <<>> /\ Head(Tail(todo)) \in Brackets
  PROVE  \A q \in Left(g, todo, n, X) : Kind(g, q) \in Brackets
<1> DEFINE Y == Left(g, todo, n, X)
           Z == Left(g, Tail(todo), n, X)
           r == Tail(todo)
<1>1. Y = Before(g, Head(todo), n, Z)
  BY LeftCons
<1>2. ASSUME NEW b \in Brackets, NEW m, NEW W, NEW q \in Before(g, b, m, W)
      PROVE  Kind(g, q) \in Brackets
  <2>1. q \in Places(g)
    BY DEF Before
  <2>2. \A s \in Brackets : q \in Before(g, s, m, W) <=> Kind(g, q) = s /\ q + 1 \in W
    BY <2>1, BeforeCases
  <2>3. QED
    BY <2>2
<1>3. CASE Head(todo) \in Brackets
  <2> HIDE DEF Y, Z
  <2>1. \A q \in Y : Kind(g, q) \in Brackets
    BY <1>1, <1>2, <1>3
  <2>2. QED
    BY <2>1 DEF Y
<1>4. CASE Head(todo) = "binds" /\ Tail(todo) # <<>> /\ Head(Tail(todo)) \in Brackets
  <2>1. r \in Seq(StepNames) /\ r # <<>> /\ Head(r) \in Brackets
    BY <1>4, HeadTailProperties
  <2> DEFINE V == Left(g, Tail(r), n, X)
  <2>2. Z = Before(g, Head(r), n, V)
    <3> HIDE DEF r
    <3> QED BY <2>1, LeftCons DEF r
  <2> HIDE DEF Y, Z, V, r
  <2>3. \A q \in Z : Kind(g, q) \in Brackets
    BY <1>2, <2>1, <2>2
  <2>4. Y \subseteq Places(g)
    BY <1>1 DEF Before
  <2>5. \A q \in Y : q \in Z
    BY <1>1, <1>4, <2>4, BeforeCases
  <2>6. QED
    BY <2>3, <2>5 DEF Y
<1>5. QED
  BY <1>3, <1>4

LEMMA UnitsGoes ==
  ASSUME NEW g, NEW P, NEW G, Held(g, P, G), frames # <<>>, errors = <<>>,
         UNCHANGED <<source, tokens, kinds>>, Units
  PROVE  Goes(g, P)
<1> DEFINE rest == Tail(Top.todo)
           X == G[Len(frames) - 1]
<1>1. Top.todo \in Seq(StepNames) /\ Shaped(Top.todo)
  BY HeldIs
<1>2. Top.todo # <<>> /\ Head(Top.todo) = "body"
  BY DEF Units, Doing
<1>3. /\ rest \in Seq(StepNames) /\ rest # <<>>
      /\ \/ Head(rest) \in Brackets
         \/ Head(rest) = "binds" /\ Tail(rest) # <<>> /\ Head(Tail(rest)) \in Brackets
  BY <1>1, <1>2, StepsFollow, HeadTailProperties
<1>4. PICK Y : Y = Left(g, Tail(Top.todo), Top.node, X)
  OBVIOUS
<1>5. PICK n : n = Top.node
  OBVIOUS
<1>6. \A q \in Left(g, rest, n, X) : Kind(g, q) \in Brackets
  <2> HIDE DEF rest, X
  <2> QED BY <1>3, BracketNext
<1>7. \A q \in Y : Kind(g, q) \in Enders
  BY <1>4, <1>5, <1>6 DEF Enders
<1>8. /\ "sub" \in {"sub", "alt", "next"}
      /\ IF fpHasNextUnit
         THEN CallBody(Skip, FALSE, "sub")
         ELSE frames' = Skip /\ UNCHANGED <<nextToken, nodes, root, errors>>
  BY DEF Units
<1>9. QED
  BY <1>2, <1>4, <1>7, <1>8, MoreGoes

LEMMA NextUnitGoes ==
  ASSUME NEW g, NEW P, NEW G, Held(g, P, G), frames # <<>>, errors = <<>>,
         UNCHANGED <<source, tokens, kinds>>, NextUnit
  PROVE  Goes(g, P)
<1> DEFINE X == G[Len(frames) - 1]
           L == Len(frames)
<1>1. /\ Top.todo \in Seq(StepNames) /\ Shaped(Top.todo) /\ L \in Nat \ {0}
      /\ Top = frames[L]
  BY HeldIs
<1>2. Top.todo # <<>> /\ Head(Top.todo) = "next"
  BY DEF NextUnit, Doing
<1>3. Tail(Top.todo) = <<>> /\ Has(Top.todo, "next")
  BY <1>1, <1>2, StepsFollow, ShapedTail
<1>4. PICK Y : Y = Left(g, Tail(Top.todo), Top.node, X)
  OBVIOUS
<1>5. Y = X
  BY <1>3, <1>4, LeftNil
<1>6. \A q \in Y : Kind(g, q) \in Enders
  BY <1>1, <1>3, <1>5 DEF Held, Tracks
<1>7. /\ "next" \in {"sub", "alt", "next"}
      /\ IF fpHasNextUnit
         THEN CallBody(Skip, FALSE, "next")
         ELSE frames' = Skip /\ UNCHANGED <<nextToken, nodes, root, errors>>
  BY DEF NextUnit
<1>8. QED
  BY <1>2, <1>4, <1>6, <1>7, MoreGoes

LEMMA BeforeBracket ==
  ASSUME NEW g, NEW n, NEW X, NEW p \in Places(g), NEW b \in Brackets
  PROVE  p \in Before(g, b, n, X) <=> Kind(g, p) = b /\ p + 1 \in X
<1>1. \A s \in Brackets : p \in Before(g, s, n, X) <=> Kind(g, p) = s /\ p + 1 \in X
  BY BeforeCases
<1>2. QED
  BY <1>1

LEMMA ExpectGoes ==
  ASSUME NEW g, NEW P, NEW G, Held(g, P, G), frames # <<>>, errors = <<>>,
         UNCHANGED <<source, tokens, kinds>>, Expect
  PROVE  Goes(g, P)
<1> DEFINE L == Len(frames)
           p == nextToken
           Z == Left(g, Tail(Top.todo), Top.node, G[L - 1])
<1>1. PICK b \in Brackets :
        /\ Doing(b)
        /\ IF NextIs(b)
           THEN /\ nextToken' = nextToken + 1
                /\ frames' = Skip
                /\ UNCHANGED <<nodes, root, errors>>
           ELSE Fail("expected token", IF AtEnd THEN Len(tokens) ELSE nextToken)
  BY Zenon DEF Expect, Brackets, CloseBrace
<1>2. Top.todo # <<>> /\ Head(Top.todo) = b
  BY <1>1 DEF Doing
<1>3. /\ L \in Nat \ {0} /\ p \in Places(g) /\ g.count = Len(tokens) /\ g.count \in Nat
      /\ p \in Nat /\ (P <=> p \in G[L])
  BY HeldIs
<1>4. OfTokens(g) /\ Worded /\ Noded
  BY DEF Held
<1>5. b \notin {"chain", "end", "path", "checkPath", "name"}
  BY StepsApart DEF Brackets
<1>6. G[L] = Before(g, b, Top.node, Z) /\ ~Leaf(L)
  BY <1>2, <1>5, DoneIs
<1>7. p \in G[L] <=> Kind(g, p) = b /\ p + 1 \in Z
  <2> HIDE DEF Z
  <2> QED BY <1>3, <1>6, BeforeBracket
<1>8. NextIs(b) <=> Kind(g, p) = b
  BY <1>3, <1>4, <1>5, NextKind
<1>9. CASE NextIs(b)
  <2>1. /\ nextToken' = nextToken + 1 /\ frames' = Skip
        /\ UNCHANGED <<nodes, root, errors>>
    BY <1>1, <1>9
  <2>2. Noded' /\ \A i \in 1 .. Top.node : nodes'[i].kind = nodes[i].kind
    BY <1>4, <2>1 DEF Noded
  <2>3. p \in 1 .. g.count
    BY <1>3, <1>4, <1>9, NextKind DEF NextIs
  <2>4. nextToken' \in Z <=> nextToken \in G[L]
    BY <1>7, <1>8, <1>9, <2>1
  <2>5. nextToken' \in Places(g) /\ nextToken' >= nextToken
    BY <1>3, <2>1, <2>3 DEF Places
  <2>6. /\ nextToken' \in Left(g, Tail(Top.todo), Top.node, G[Len(frames) - 1])
             <=> nextToken \in G[Len(frames)]
        /\ Head(Top.todo) \notin {"path", "checkPath", "name"}
        /\ ~Leaf(Len(frames))
    BY <1>2, <1>5, <1>6, <2>4
  <2> HIDE DEF Z, L, p
  <2>7. QED
    BY <1>2, <2>1, <2>2, <2>5, <2>6, Skips
<1>10. CASE ~NextIs(b)
  <2>1. ~P
    BY <1>3, <1>7, <1>8, <1>10
  <2>2. PICK i : errors' = Append(errors, ErrorAt("expected token", i))
    BY <1>1, <1>10 DEF Fail
  <2>3. QED
    BY <2>1, <2>2, Fails
<1>11. QED
  BY <1>9, <1>10

LEMMA UnexpectedGoes ==
  ASSUME NEW g, NEW P, NEW G, Held(g, P, G), frames # <<>>, errors = <<>>,
         UNCHANGED <<source, tokens, kinds>>, Unexpected
  PROVE  Goes(g, P)
<1> DEFINE L == Len(frames)
           Z == Left(g, Tail(Top.todo), Top.node, G[L - 1])
<1>1. Top.todo # <<>> /\ Head(Top.todo) = "unexpected"
  BY DEF Unexpected, Doing
<1>2. nextToken \in Places(g) /\ (P <=> nextToken \in G[L])
  BY HeldIs
<1>3. G[L] = Before(g, "unexpected", Top.node, Z)
  BY <1>1, DoneIs
<1> HIDE DEF Z
<1>4. ~P
  BY <1>2, <1>3, BeforeCases
<1>5. errors' = Append(errors, ErrorAt("unexpected token", Top.node))
  BY DEF Unexpected, Fail
<1>6. QED
  BY <1>4, <1>5, Fails

LEMMA ReturnGoes ==
  ASSUME NEW g, NEW P, NEW G, Held(g, P, G), frames # <<>>, errors = <<>>,
         UNCHANGED <<source, tokens, kinds>>, Return
  PROVE  Goes(g, P)
<1>1. Top.todo = <<>> /\ ReturnWith(Top.node, nodes) /\ UNCHANGED errors
  BY DEF Return
<1>2. Held(g, P, G)'
  BY <1>1, Pops
<1>3. QED
  BY <1>1, <1>2 DEF Goes

LEMMA OperandGoes ==
  ASSUME NEW g, NEW P, NEW G, Held(g, P, G), frames # <<>>, errors = <<>>,
         UNCHANGED <<source, tokens, kinds>>, Operand
  PROVE  Goes(g, P)
<1> DEFINE L == Len(frames)
           p == nextToken
           rest == Tail(Top.todo)
<1>1. PICK field \in {"sub", "alt"} : Doing(field) /\ CallBody(Skip, TRUE, field)
  BY DEF Operand
<1>2. Top.todo # <<>> /\ Head(Top.todo) = field
  BY <1>1 DEF Doing
<1>3. /\ p \in Places(g) /\ Top.todo \in Seq(StepNames) /\ Shaped(Top.todo)
  BY HeldIs
<1>4. PICK Y : Y = Left(g, Tail(Top.todo), Top.node, G[L - 1])
  OBVIOUS
<1>5. G[L] = Before(g, field, Top.node, Y) /\ rest \in Seq(StepNames)
  BY <1>2, <1>4, DoneIs
<1>6. p \in G[L] <=> Unit(g, p) \cap Y # {}
  <2>1. \A s \in {"sub", "alt"} :
          p \in Before(g, s, Top.node, Y) <=> Unit(g, p) \cap Y # {}
    BY <1>3, BeforeCases
  <2>2. QED
    BY <1>5, <2>1
<1>7. \A j \in 1 .. Len(rest) : rest[j] \in Closing
  BY <1>2, <1>3, StepsFollow DEF Calls
<1>8. StepOf(rest) \notin {"checkPath", "checkName"}
  BY <1>5, <1>7, ClosingSteps
<1>9. PICK single : single = TRUE
  OBVIOUS
<1>10. /\ CallBody(Skip, single, field) /\ Head(Top.todo) # "chain"
       /\ field \in {"sub", "alt", "next"}
       /\ ~single => \A q \in Y : Kind(g, q) \in Enders
       /\ nextToken \in G[Len(frames)]
            <=> (IF single THEN Unit(g, nextToken) ELSE Body(g, nextToken)) \cap Y # {}
       /\ StepOf(Tail(Top.todo)) \notin {"checkPath", "checkName"}
       /\ \A j \in 1 .. Len(Tail(Top.todo)) : Tail(Top.todo)[j] \in Closing
  BY <1>1, <1>2, <1>6, <1>7, <1>8, <1>9
<1> HIDE DEF p, rest
<1>11. QED
  BY <1>2, <1>4, <1>10, CallGoes

LEMMA ImportPathGoes ==
  ASSUME NEW g, NEW P, NEW G, Held(g, P, G), frames # <<>>, errors = <<>>,
         UNCHANGED <<source, tokens, kinds>>, ImportPath
  PROVE  Goes(g, P)
<1> DEFINE L == Len(frames)
           p == nextToken
           n == Top.node
           rest == Tail(Top.todo)
<1>1. PICK name \in {"path", "name"} : Doing(name) /\ CallBody(Skip, TRUE, "sub")
  BY DEF ImportPath
<1>2. Top.todo # <<>> /\ Head(Top.todo) = name
  BY <1>1 DEF Doing
<1>3. /\ p \in Places(g) /\ Top.todo \in Seq(StepNames) /\ Shaped(Top.todo)
      /\ TopPlaced /\ Top = frames[L] /\ n \in 1 .. g.count /\ g.count \in Nat
  BY HeldIs
<1>4. PICK Y : Y = Left(g, Tail(Top.todo), n, G[L - 1])
  OBVIOUS
<1>5. /\ G[L] = Before(g, name, n, Y) /\ rest \in Seq(StepNames)
      /\ Done.todo = rest /\ Done.node = n /\ StepOf(Top.todo) = name
  BY <1>2, <1>4, DoneIs
<1>6. /\ name = "path" => rest # <<>> /\ StepOf(rest) = "checkPath"
      /\ name = "name" => rest # <<>> /\ StepOf(rest) = "checkName"
  BY <1>2, <1>3, StepsFollow
<1>7. rest # <<>> /\ Head(rest) = StepOf(rest) /\ StepOf(rest) \in {"checkPath", "checkName"}
  BY <1>5, <1>6, HeadTailProperties DEF StepOf
<1>8. /\ name = "path" => p = n + 1
      /\ name = "name" => p = n + 3
      /\ p = Looked(Done)
  <2>1. p = Looked(Top)
    BY <1>3, <1>5 DEF TopPlaced
  <2>2. Looked(Top) = n + (IF name = "path" THEN 1 ELSE 3)
    BY <1>5 DEF Looked
  <2>3. Looked(Done) = n + (IF name = "path" THEN 1 ELSE 3)
    <3> HIDE DEF rest
    <3> QED BY <1>5, <1>6 DEF Looked
  <2>4. QED
    BY <2>1, <2>2, <2>3
<1>9. \A q \in Y : Kind(g, p) = "CHAIN"
  <2>0. PICK m : m = n
    OBVIOUS
  <2>1. PICK V : V = Left(g, Tail(rest), m, G[L - 1])
    OBVIOUS
  <2>2. Y = Before(g, StepOf(rest), m, V)
    <3> DEFINE X == G[L - 1]
    <3>1. Y = Left(g, rest, m, X)
      BY <1>4, <2>0
    <3> HIDE DEF rest, X
    <3>2. QED
      BY <1>5, <1>7, <2>1, <3>1, LeftCons DEF X
  <2>3. Y \subseteq Places(g)
    BY <2>2 DEF Before
  <2>4. ASSUME NEW q \in Y
        PROVE  Kind(g, p) = "CHAIN"
    <3> HIDE DEF rest, p, n
    <3>1. CASE name = "path"
      <4>1. q \in Before(g, "checkPath", m, V) /\ q \in Places(g)
        BY <1>6, <2>2, <2>3, <3>1
      <4>2. Kind(g, m + 1) = "CHAIN"
        BY <4>1, BeforeCases
      <4>3. QED
        BY <1>8, <2>0, <3>1, <4>2
    <3>2. CASE name = "name"
      <4>1. q \in Before(g, "checkName", m, V) /\ q \in Places(g)
        BY <1>6, <2>2, <2>3, <3>2
      <4>2. Kind(g, m + 3) = "CHAIN"
        BY <4>1, BeforeCases
      <4>3. QED
        BY <1>8, <2>0, <3>2, <4>2
    <3>3. QED
      BY <3>1, <3>2
  <2>5. QED
    BY <2>4
<1>10. p \in G[L] <=> Kind(g, p) = "CHAIN" /\ p + 1 \in Y
  <2>1. PICK q, m : q = p /\ m = n
    OBVIOUS
  <2>2. \A s \in {"path", "name"} :
          q \in Before(g, s, m, Y) <=> Kind(g, q) = "CHAIN" /\ q + 1 \in Y
    BY <1>3, <2>1, BeforeCases
  <2>3. QED
    BY <1>5, <2>1, <2>2
<1>11. Kind(g, p) = "CHAIN" => Unit(g, p) = {p + 1}
  <2>1. IsGrammar(g)
    BY DEF Held
  <2>2. Kind(g, p) = "CHAIN" => p \in 1 .. g.count
    BY DEF Kind
  <2>3. "CHAIN" \in Literals \cup ChainKinds
    BY DEF ChainKinds
  <2>4. QED
    BY <2>1, <2>2, <2>3, UnitCases
<1>12. p \in G[L] <=> Unit(g, p) \cap Y # {}
  BY <1>9, <1>10, <1>11
<1>13. PICK single, into : single = TRUE /\ into = "sub"
  OBVIOUS
<1>14. /\ CallBody(Skip, single, into) /\ Head(Top.todo) # "chain"
       /\ into \in {"sub", "alt", "next"}
       /\ ~single => \A q \in Y : Kind(g, q) \in Enders
       /\ nextToken \in G[Len(frames)]
            <=> (IF single THEN Unit(g, nextToken) ELSE Body(g, nextToken)) \cap Y # {}
       /\ IF StepOf(Tail(Top.todo)) \in {"checkPath", "checkName"}
          THEN nextToken = Looked(Done) /\ into = "sub" /\ single
          ELSE \A j \in 1 .. Len(Tail(Top.todo)) : Tail(Top.todo)[j] \in Closing
       /\ Y = Left(g, Tail(Top.todo), Top.node, G[Len(frames) - 1])
  BY <1>1, <1>2, <1>4, <1>7, <1>8, <1>12, <1>13
<1> HIDE DEF p, rest, n, L
<1>15. QED
  BY <1>2, <1>14, CallGoes

LEMMA CheckPathGoes ==
  ASSUME NEW g, NEW P, NEW G, Held(g, P, G), frames # <<>>, errors = <<>>,
         UNCHANGED <<source, tokens, kinds>>, CheckPath
  PROVE  Goes(g, P)
<1> DEFINE L == Len(frames)
           p == nextToken
           n == Top.node
           rest == Tail(Top.todo)
           Z == Left(g, rest, n, G[L - 1])
<1>1. Top.todo # <<>> /\ Head(Top.todo) = "checkPath"
  BY DEF CheckPath, Doing
<1>2. /\ p \in Places(g) /\ p \in Nat /\ Top.todo \in Seq(StepNames) /\ Shaped(Top.todo)
      /\ TopPlaced /\ Top = frames[L] /\ n \in 1 .. g.count /\ g.count \in Nat
      /\ L \in Nat \ {0} /\ g.count = Len(tokens) /\ (P <=> p \in G[L])
  BY HeldIs
<1>3. /\ G[L] = Before(g, "checkPath", n, Z) /\ rest \in Seq(StepNames)
      /\ Done \in Call /\ Done.todo = rest /\ Done.node = n /\ StepOf(Top.todo) = "checkPath"
      /\ ~Leaf(L)
  BY <1>1, DoneIs
<1>4. /\ nodes[n].sub = n + 1 /\ n + 1 \in 1 .. g.count
      /\ nodes[n + 1].kind = kinds[n + 1]
      /\ kinds[n + 1] = "CHAIN" => nextToken = n + 2
  <2>1. Looked(Top) = n + 1
    BY <1>3 DEF Looked
  <2>2. PICK at : at = Looked(Top)
    OBVIOUS
  <2>3. /\ nodes[n].sub = at /\ at < nextToken
        /\ nodes[at].kind = kinds[at]
        /\ kinds[at] = "CHAIN" => nextToken = at + 1
    BY <1>2, <1>3, <2>2 DEF TopPlaced
  <2>4. QED
    BY <1>2, <2>1, <2>2, <2>3 DEF Places
<1>5. Kind(g, n + 1) = kinds[n + 1]
  BY <1>2, <1>4, KindIs DEF Held
<1>6. p \in G[L] <=> kinds[n + 1] = "CHAIN" /\ p \in Z
  <2>1. PICK q, m : q = p /\ m = n
    OBVIOUS
  <2> HIDE DEF Z
  <2>2. q \in Before(g, "checkPath", m, Z) <=> Kind(g, m + 1) = "CHAIN" /\ q \in Z
    BY <1>2, <2>1, BeforeCases
  <2>3. QED
    BY <1>3, <1>5, <2>1, <2>2
<1>7. nodes[n].sub # 0
  BY <1>2, <1>4
<1>8. Noded
  BY DEF Held
<1>9. CASE kinds[n + 1] # "CHAIN"
  <2>1. Fail("expected chain after import", Top.node)
    BY <1>4, <1>7, <1>9 DEF CheckPath
  <2>2. errors' = Append(errors, ErrorAt("expected chain after import", Top.node))
    BY <2>1 DEF Fail
  <2>3. ~P
    BY <1>2, <1>6, <1>9
  <2>4. QED
    BY <2>2, <2>3, Fails
<1>10. CASE kinds[n + 1] = "CHAIN"
  <2>1. /\ nodes' = [nodes EXCEPT ![n].sub = 0, ![n].chain = nodes[n + 1].chain]
        /\ frames' = Skip
        /\ UNCHANGED <<nextToken, root, errors>>
    BY <1>4, <1>7, <1>10 DEF CheckPath
  <2>2. Noded' /\ \A i \in 1 .. n : nodes'[i].kind = nodes[i].kind
    <3> HIDE DEF n
    <3>1. Noded' /\ \A i \in 1 .. g.count : nodes'[i].kind = nodes[i].kind
      BY <1>2, <1>8, <2>1 DEF Noded
    <3>2. \A i \in 1 .. n : i \in 1 .. g.count
      BY <1>2
    <3>3. QED
      BY <3>1, <3>2
  <2>3. frames'[Len(frames')] = Done
    <3>1. L \in 1 .. L /\ frames \in Seq(Call) /\ Done \in Call
      BY <1>2, <1>3 DEF Held
    <3>2. QED
      BY <2>1, <3>1, ExceptSeq, LenProperties DEF ReplaceAt, Skip
  <2>4. TopPlaced'
    <3>1. StepOf(rest) \notin {"path", "checkPath", "name", "checkName"}
      BY <1>1, <1>2, StepsFollow
    <3>2. nextToken' = Done.node + 2
      BY <1>3, <1>4, <1>10, <2>1
    <3> HIDE DEF rest
    <3>3. QED
      BY <1>3, <2>3, <3>1, <3>2 DEF TopPlaced
  <2>5. nextToken' = nextToken
    BY <2>1
  <2>6. nextToken' \in Z <=> nextToken \in G[L]
    <3> HIDE DEF Z, L
    <3> QED BY <1>6, <1>10, <2>5
  <2>7. /\ nextToken' \in Left(g, Tail(Top.todo), Top.node, G[Len(frames) - 1])
             <=> nextToken \in G[Len(frames)]
        /\ ~Leaf(Len(frames))
    BY <1>3, <2>6
  <2>8. nextToken' \in Places(g) /\ nextToken' >= nextToken
    <3> HIDE DEF L, n
    <3> QED BY <1>2, <2>5
  <2>9. \A i \in 1 .. Top.node : nodes'[i].kind = nodes[i].kind
    BY <2>2
  <2>10. frames' = Skip /\ errors' = errors
    BY <2>1
  <2> HIDE DEF L, p, n, rest, Z
  <2>11. QED
    BY <1>1, <2>2, <2>4, <2>7, <2>8, <2>9, <2>10, Skips
<1>11. QED
  BY <1>9, <1>10

LEMMA CheckNameGoes ==
  ASSUME NEW g, NEW P, NEW G, Held(g, P, G), frames # <<>>, errors = <<>>,
         UNCHANGED <<source, tokens, kinds>>, CheckName
  PROVE  Goes(g, P)
<1> DEFINE L == Len(frames)
           p == nextToken
           n == Top.node
           rest == Tail(Top.todo)
           Z == Left(g, rest, n, G[L - 1])
<1>1. Top.todo # <<>> /\ Head(Top.todo) = "checkName"
  BY DEF CheckName, Doing
<1>2. /\ p \in Places(g) /\ p \in Nat /\ Top.todo \in Seq(StepNames) /\ Shaped(Top.todo)
      /\ TopPlaced /\ Top = frames[L] /\ n \in 1 .. g.count /\ g.count \in Nat
      /\ L \in Nat \ {0} /\ g.count = Len(tokens) /\ (P <=> p \in G[L])
  BY HeldIs
<1>3. /\ G[L] = Before(g, "checkName", n, Z) /\ StepOf(Top.todo) = "checkName" /\ ~Leaf(L)
  BY <1>1, DoneIs
<1>4. PICK at : at = n + 3
  OBVIOUS
<1>5. /\ nodes[n].sub = at /\ at \in 1 .. g.count /\ at # 0
      /\ nodes[at].kind = kinds[at]
      /\ kinds[at] = "CHAIN" => nodes[at].chain = ChainElems(Lexeme(at))
  <2>1. Looked(Top) = at
    BY <1>3, <1>4 DEF Looked
  <2>2. /\ nodes[n].sub = at /\ at < nextToken
        /\ nodes[at].kind = kinds[at]
        /\ kinds[at] = "CHAIN" => nodes[at].chain = ChainElems(Lexeme(at))
    BY <1>2, <1>3, <2>1 DEF TopPlaced
  <2>3. QED
    BY <1>2, <1>4, <2>2 DEF Places
<1>6. OfTokens(g) /\ Worded /\ Noded
  BY DEF Held
<1>7. Kind(g, at) = kinds[at] /\ (at \in g.simple <=> Simple(at))
  BY <1>2, <1>5, <1>6, KindIs
<1>8. kinds[at] = "CHAIN" => (Len(ChainElems(Lexeme(at))) = 1 <=> Simple(at))
  <2> SUFFICES ASSUME kinds[at] = "CHAIN"
               PROVE  Len(ChainElems(Lexeme(at))) = 1 <=> Simple(at)
    OBVIOUS
  <2>1. PICK w : w = Lexeme(at)
    OBVIOUS
  <2>2. Len(w) \in Nat /\ KindOf(w) = "CHAIN"
    BY <1>2, <1>5, <1>6, <2>1 DEF Worded
  <2>3. IsChain(w)
    BY <2>2, KindOfIs
  <2>4. Len(ChainElems(w)) = 1 <=> "." \notin CharsOf(w)
    BY <2>2, <2>3, ChainIs
  <2>5. QED
    BY <2>1, <2>4 DEF Simple
<1>9. p \in G[L] <=> kinds[at] = "CHAIN" /\ Simple(at) /\ p \in Z
  <2>1. PICK q, m : q = p /\ m = n
    OBVIOUS
  <2> HIDE DEF Z
  <2>2. q \in Before(g, "checkName", m, Z)
          <=> Kind(g, m + 3) = "CHAIN" /\ m + 3 \in g.simple /\ q \in Z
    BY <1>2, <2>1, BeforeCases
  <2>3. QED
    BY <1>3, <1>4, <1>7, <2>1, <2>2
<1>10. CASE kinds[at] # "CHAIN" \/ ~Simple(at)
  <2>1. Fail("expected identifier after import as", Top.node)
    BY <1>5, <1>8, <1>10 DEF CheckName
  <2>2. errors' = Append(errors, ErrorAt("expected identifier after import as", Top.node))
    BY <2>1 DEF Fail
  <2>3. ~P
    BY <1>2, <1>9, <1>10
  <2>4. QED
    BY <2>2, <2>3, Fails
<1>11. CASE kinds[at] = "CHAIN" /\ Simple(at)
  <2>1. frames' = Skip /\ UNCHANGED <<nextToken, nodes, root, errors>>
    BY <1>5, <1>8, <1>11 DEF CheckName
  <2>2. Noded' /\ \A i \in 1 .. Top.node : nodes'[i].kind = nodes[i].kind
    BY <1>6, <2>1 DEF Noded
  <2>3. nextToken' \in Z <=> nextToken \in G[L]
    <3> HIDE DEF Z, L
    <3> QED BY <1>9, <1>11, <2>1
  <2>4. /\ nextToken' \in Left(g, Tail(Top.todo), Top.node, G[Len(frames) - 1])
             <=> nextToken \in G[Len(frames)]
        /\ ~Leaf(Len(frames))
    BY <1>3, <2>3
  <2>5. nextToken' \in Places(g) /\ nextToken' >= nextToken
    <3> HIDE DEF L, n
    <3> QED BY <1>2, <2>1
  <2> HIDE DEF L, p, n, rest, Z
  <2>6. Head(Top.todo) \notin {"path", "checkPath", "name"}
    BY <1>1
  <2>7. QED
    BY <1>1, <2>1, <2>2, <2>4, <2>5, <2>6, Skips
<1>12. QED
  BY <1>10, <1>11

LEMMA OptionalGoes ==
  ASSUME NEW g, NEW P, NEW G, Held(g, P, G), frames # <<>>, errors = <<>>,
         UNCHANGED <<source, tokens, kinds>>, Optional
  PROVE  Goes(g, P)
<1> DEFINE L == Len(frames)
           p == nextToken
           n == Top.node
           rest == Tail(Top.todo)
           X == G[L - 1]
           Z == Left(g, rest, n, X)
<1>1. PICK word \in {"else", "do", "as"} :
        /\ Doing(word)
        /\ IF NextIs(word)
           THEN /\ nextToken' = nextToken + 1
                /\ frames' = ReplaceAt(frames, Len(frames),
                     [Done EXCEPT !.todo = (IF word = "as" THEN <<"name", "checkName">>
                                            ELSE <<"alt">>) \o @])
           ELSE frames' = Skip /\ UNCHANGED nextToken
  BY DEF Optional
<1>2. Top.todo # <<>> /\ Head(Top.todo) = word /\ UNCHANGED <<nodes, root, errors>>
  BY <1>1 DEF Doing, Optional
<1>3. /\ p \in Places(g) /\ p \in Nat /\ Top.todo \in Seq(StepNames) /\ Shaped(Top.todo)
      /\ TopPlaced /\ Top = frames[L] /\ n \in 1 .. g.count /\ g.count \in Nat
      /\ L \in Nat \ {0} /\ g.count = Len(tokens) /\ Framed(L)
  BY HeldIs
<1>4. /\ G[L] = Before(g, word, n, Z) /\ StepOf(Top.todo) = word /\ ~Leaf(L)
      /\ Done \in Call /\ Done.node = n /\ Done.into = Top.into
      /\ Done.sigBegin = Top.sigBegin /\ Done.sigEnd = Top.sigEnd
      /\ Done.todo = rest /\ rest \in Seq(StepNames) /\ Shaped(rest)
      /\ \A step : Has(rest, step) => Has(Top.todo, step)
  BY <1>2, DoneIs
<1>5. OfTokens(g) /\ Worded /\ Noded /\ IsGrammar(g)
  BY DEF Held
<1>6. Noded' /\ \A i \in 1 .. Top.node : nodes'[i].kind = nodes[i].kind
  BY <1>2, <1>5 DEF Noded
<1>7. NextIs(word) <=> Kind(g, p) = word
  BY <1>3, <1>5, NextKind
<1>8. \A j \in 1 .. Len(rest) : rest[j] \in Closing
  BY <1>2, <1>3, StepsFollow
<1>9. /\ word \in {"else", "do"} =>
           (p \in G[L] <=> p \in Z \/ (Kind(g, p) = word /\ Unit(g, p + 1) \cap Z # {}))
      /\ word = "as" =>
           (p \in G[L] <=> IF Kind(g, p) = "as"
                           THEN Kind(g, p + 1) = "CHAIN" /\ p + 1 \in g.simple /\ p + 2 \in Z
                           ELSE p \in Z)
  <2>1. PICK q, m : q = p /\ m = n
    OBVIOUS
  <2> HIDE DEF Z
  <2>2. /\ \A s \in {"else", "do"} :
             q \in Before(g, s, m, Z) <=>
               q \in Z \/ (Kind(g, q) = s /\ Unit(g, q + 1) \cap Z # {})
        /\ q \in Before(g, "as", m, Z) <=>
             IF Kind(g, q) = "as"
             THEN Kind(g, q + 1) = "CHAIN" /\ q + 1 \in g.simple /\ q + 2 \in Z
             ELSE q \in Z
    <3>1. q \in Places(g)
      BY <1>3, <2>1
    <3>2. QED
      BY ONLY <3>1, OptionCases, Zenon
  <2>3. QED
    BY <1>4, <2>1, <2>2
<1>10. CASE ~NextIs(word)
  <2>1. frames' = Skip /\ nextToken' = nextToken
    BY <1>1, <1>10
  <2>2. nextToken' \in Z <=> nextToken \in G[L]
    <3> HIDE DEF Z, L
    <3> QED BY <1>7, <1>9, <1>10, <2>1
  <2>3. /\ nextToken' \in Left(g, Tail(Top.todo), Top.node, G[Len(frames) - 1])
             <=> nextToken \in G[Len(frames)]
        /\ ~Leaf(Len(frames))
    BY <1>4, <2>2
  <2>4. nextToken' \in Places(g) /\ nextToken' >= nextToken
    <3> HIDE DEF L, n
    <3> QED BY <1>3, <2>1
  <2> HIDE DEF L, p, n, rest, Z, X
  <2>5. Head(Top.todo) \notin {"path", "checkPath", "name"}
    BY <1>2
  <2>6. QED
    BY <1>2, <1>6, <2>1, <2>3, <2>4, <2>5, Skips
<1>11. CASE NextIs(word)
  <2> DEFINE more == (IF word = "as" THEN <<"name", "checkName">> ELSE <<"alt">>) \o rest
             f == [Done EXCEPT !.todo = more]
  <2>1. frames' = ReplaceAt(frames, Len(frames), f) /\ nextToken' = p + 1
    BY <1>1, <1>4, <1>11
  <2>2. Kind(g, p) = word /\ p \in 1 .. g.count /\ p + 1 \in Places(g)
    BY <1>3, <1>7, <1>11 DEF Kind, Places
  <2>3. /\ more \in Seq(StepNames) /\ Shaped(more) /\ ~Has(more, "chain")
        /\ Has(more, "next") => Has(Top.todo, "next")
        /\ StepOf(more) = IF word = "as" THEN "name" ELSE "alt"
    <3> DEFINE one == <<"alt">> \o rest
               two == <<"name", "checkName">> \o rest
    <3>1. /\ one \in Seq(StepNames) /\ Shaped(one) /\ StepOf(one) = "alt"
          /\ Has(one, "next") => Has(rest, "next")
          /\ ~Has(one, "chain")
          /\ two \in Seq(StepNames) /\ Shaped(two) /\ StepOf(two) = "name"
          /\ Has(two, "next") => Has(rest, "next")
          /\ ~Has(two, "chain")
      <4> HIDE DEF rest
      <4> QED BY <1>4, <1>8, ShapedNew
    <3>2. more = IF word = "as" THEN two ELSE one
      OBVIOUS
    <3> HIDE DEF more, one, two, rest
    <3>3. QED
      BY <1>4, <3>1, <3>2
  <2>4. p + 1 \in Left(g, more, n, X) <=> p \in G[L]
    <3>1. PICK q, m, t, Y : q = p /\ m = n /\ t = rest /\ Y = Z
      OBVIOUS
    <3>2. /\ Left(g, <<"alt">> \o t, m, X) = Before(g, "alt", m, Y)
          /\ Left(g, <<"name", "checkName">> \o t, m, X)
               = Before(g, "name", m, Before(g, "checkName", m, Y))
      <4> HIDE DEF X, rest
      <4>1. t \in Seq(StepNames) /\ Y = Left(g, t, m, X) /\ "alt" \in StepNames
        BY <1>4, <3>1 DEF StepNames
      <4>2. QED
        BY <4>1, LeftWord
    <3>3. CASE word = "as"
      <4>1. more = <<"name", "checkName">> \o t
        BY <3>1, <3>3
      <4>2. q = m + 2
        BY <1>3, <1>4, <3>1, <3>3 DEF TopPlaced
      <4> DEFINE V == Before(g, "checkName", m, Y)
      <4>3. q + 1 \in Before(g, "name", m, V) <=> Kind(g, q + 1) = "CHAIN" /\ q + 1 + 1 \in V
        <5> HIDE DEF V
        <5>1. q + 1 \in Places(g)
          BY <2>2, <3>1
        <5>2. \A s \in {"path", "name"} :
                q + 1 \in Before(g, s, m, V) <=> Kind(g, q + 1) = "CHAIN" /\ q + 1 + 1 \in V
          BY <5>1, BeforeCases
        <5>3. QED
          BY <5>2
      <4>4. q \in Nat /\ q + 1 + 1 = q + 2 /\ m + 3 = q + 1
        BY <1>3, <3>1, <4>2
      <4>5. Kind(g, q + 1) = "CHAIN" => q + 2 \in Places(g)
        BY <1>3, <4>4 DEF Kind, Places
      <4>6. q + 2 \in Places(g) =>
              (q + 2 \in V <=> Kind(g, m + 3) = "CHAIN" /\ m + 3 \in g.simple /\ q + 2 \in Y)
        BY BeforeCases
      <4> HIDE DEF V, Z, X, more
      <4>7. QED
        BY <1>9, <2>2, <3>1, <3>2, <3>3, <4>1, <4>3, <4>4, <4>5, <4>6 DEF V
    <3>4. CASE word \in {"else", "do"}
      <4>1. more = <<"alt">> \o t
        BY <3>1, <3>4
      <4>2. Dangles(g, Z, p)
        <5>1. Dangles(g, X, p)
          <6>1. L - 1 \in 0 .. L - 1
            BY <1>3
          <6>2. QED
            BY <1>4, <2>2, <3>4, <6>1, FramesDangle
        <5>2. \A j \in 1 .. Len(rest) : rest[j] = "next" => j = Len(rest)
          BY <1>4 DEF Shaped
        <5>3. Has(rest, "next") => \A r \in X : Kind(g, r) \in Enders
          BY <1>3, <1>4 DEF Held, Tracks
        <5>4. Len(rest) \in Nat
          BY <1>4, LenProperties
        <5>5. p \in Places(g) /\ Kind(g, p) \in {"else", "do"}
          BY <1>3, <2>2, <3>4
        <5> HIDE DEF rest, X, p, n
        <5>6. Dangles(g, Left(g, rest, n, X), p)
          BY <1>5, <1>8, <5>1, <5>2, <5>3, <5>4, <5>5, ClosingDangles
        <5>7. QED
          BY <5>6
      <4>3. q + 1 \in Before(g, "alt", m, Y) <=> Unit(g, q + 1) \cap Y # {}
        <5>1. q + 1 \in Places(g)
          BY <2>2, <3>1
        <5>2. \A s \in {"sub", "alt"} :
                q + 1 \in Before(g, s, m, Y) <=> Unit(g, q + 1) \cap Y # {}
          BY <5>1, BeforeCases
        <5>3. QED
          BY <5>2
      <4> HIDE DEF Z, X, more
      <4>4. QED
        BY <1>9, <2>2, <3>1, <3>2, <3>4, <4>1, <4>2, <4>3 DEF Dangles
    <3>5. QED
      BY <3>3, <3>4
  <2> HIDE DEF more
  <2>5. /\ f \in Call /\ f.node = n /\ f.into = Top.into /\ f.todo = more
        /\ f.sigBegin = Top.sigBegin /\ f.sigEnd = Top.sigEnd
    BY <1>4, <2>3 DEF Call
  <2> HIDE DEF f
  <2>6. f.sigBegin > f.node \/ f.sigEnd <= f.sigBegin
    BY <1>3, <2>5 DEF Framed
  <2>7. frames'[Len(frames')] = f
    <3>1. L \in 1 .. L /\ frames \in Seq(Call)
      BY <1>3 DEF Held
    <3>2. QED
      BY <2>1, <2>5, <3>1, ExceptSeq DEF ReplaceAt
  <2>8. TopPlaced'
    <3>1. CASE word = "as"
      <4>1. nextToken = n + 2
        BY <1>3, <1>4, <3>1 DEF TopPlaced
      <4>2. StepOf(f.todo) = "name" /\ Looked(f) = n + 3
        BY <2>3, <2>5, <3>1 DEF Looked
      <4>3. nextToken' = Looked(f)
        BY <1>3, <2>1, <4>1, <4>2
      <4>4. QED
        BY <2>7, <4>2, <4>3 DEF TopPlaced
    <3>2. CASE word # "as"
      <4>1. StepOf(f.todo) = "alt"
        BY <2>3, <2>5, <3>2
      <4>2. QED
        BY <2>7, <4>1 DEF TopPlaced
    <3>3. QED
      BY <3>1, <3>2
  <2>9. nextToken' \in Left(g, f.todo, f.node, G[Len(frames) - 1])
             <=> nextToken \in G[Len(frames)]
    BY <2>1, <2>4, <2>5
  <2>10. /\ Shaped(f.todo) /\ (Has(f.todo, "chain") => Has(Top.todo, "chain"))
         /\ (Has(f.todo, "next") => Has(Top.todo, "next"))
         /\ f.node = Top.node /\ f.into = Top.into
    BY <2>3, <2>5
  <2>11. nextToken' \in Places(g) /\ nextToken' >= nextToken /\ ~Leaf(Len(frames))
    <3> HIDE DEF n, Z
    <3> QED BY <1>3, <1>4, <2>1, <2>2
  <2> HIDE DEF n, L, p, rest, X, Z
  <2>12. \E H : Held(g, P, H)'
    BY <1>6, <2>1, <2>5, <2>6, <2>8, <2>9, <2>10, <2>11, Stays
  <2>13. QED
    BY <1>2, <2>12 DEF Goes
<1>12. QED
  BY <1>10, <1>11

LEMMA SameProgram ==
  ASSUME UNCHANGED <<source, tokens, kinds>>
  PROVE  IsProgram' <=> IsProgram
<1>1. \A i : Simple(i)' <=> Simple(i)
  BY DEF Simple, Lexeme
<1>2. \A at, i : SpansAt(at, i)' = SpansAt(at, i)
  BY <1>1 DEF SpansAt
<1>3. \A at, i : Extend(at, i)' = Extend(at, i)
  BY <1>2 DEF Extend
<1>4. Spans' = Spans
  BY <1>3 DEF Spans
<1>5. QED
  BY <1>4 DEF IsProgram

LEMMA BodyGoes ==
  ASSUME NEW g, NEW P, NEW G, Held(g, P, G), errors = <<>>, fpParseBody
  PROVE  Goes(g, P)
<1>1. frames # <<>> /\ UNCHANGED <<source, tokens, kinds>>
  BY DEF fpParseBody
<1>2. \/ Chain \/ Signature \/ SigBinds \/ Units \/ Expect \/ Operand \/ Optional
      \/ ImportPath \/ CheckPath \/ CheckName \/ Unexpected \/ NextUnit \/ Return
  BY DEF fpParseBody
<1>3. CASE Chain
  BY <1>1, <1>3, ChainGoes
<1>4. CASE Signature
  BY <1>1, <1>4, SignatureGoes
<1>5. CASE SigBinds
  BY <1>1, <1>5, SigBindsGoes
<1>6. CASE Units
  BY <1>1, <1>6, UnitsGoes
<1>7. CASE Expect
  BY <1>1, <1>7, ExpectGoes
<1>8. CASE Operand
  BY <1>1, <1>8, OperandGoes
<1>9. CASE Optional
  BY <1>1, <1>9, OptionalGoes
<1>10. CASE ImportPath
  BY <1>1, <1>10, ImportPathGoes
<1>11. CASE CheckPath
  BY <1>1, <1>11, CheckPathGoes
<1>12. CASE CheckName
  BY <1>1, <1>12, CheckNameGoes
<1>13. CASE Unexpected
  BY <1>1, <1>13, UnexpectedGoes
<1>14. CASE NextUnit
  BY <1>1, <1>14, NextUnitGoes
<1>15. CASE Return
  BY <1>1, <1>15, ReturnGoes
<1>16. QED
  BY <1>2, <1>3, <1>4, <1>5, <1>6, <1>7, <1>8, <1>9, <1>10, <1>11, <1>12, <1>13, <1>14, <1>15

LEMMA BeginGoes ==
  ASSUME NEW g, IsGrammar(g), OfTokens(g), Worded, Noded, NEW P, errors = <<>>,
         P <=> tokens = <<>> \/ g.count + 1 \in Body(g, 1), BeginProgram
  PROVE  Goes(g, P)
<1>1. /\ frames = <<>> /\ nextToken = 1 /\ fpHasNextUnit /\ CallBody(<<>>, FALSE, "root")
      /\ UNCHANGED <<source, tokens, kinds>>
  BY DEF BeginProgram
<1>2. g.count \in Nat /\ g.count = Len(tokens)
  BY DEF IsGrammar, OfTokens
<1>3. ~AtEnd /\ 1 \in 1 .. g.count
  <2>1. ~AtEnd
    BY <1>1, Zenon DEF fpHasNextUnit
  <2>2. QED
    BY <1>1, <1>2, <2>1 DEF AtEnd
<1>4. PICK first, into, single : first = 1 /\ into = "root" /\ single = FALSE
  OBVIOUS
<1>5. PICK f : f = Frame(first, single, into)
  OBVIOUS
<1>6. /\ frames' = Append(<<>>, f) /\ nextToken' = 2 /\ errors' = errors
      /\ nodes' = [nodes EXCEPT ![1] = NewNode(kinds[1])]
  <2>1. /\ frames' = Append(<<>>, Frame(nextToken, FALSE, "root"))
        /\ nodes' = [nodes EXCEPT ![nextToken] = NewNode(kinds[nextToken])]
        /\ nextToken' = nextToken + 1 /\ errors' = errors
    BY <1>1, <1>3, Zenon DEF CallBody
  <2>2. Frame(nextToken, FALSE, "root") = f
    BY <1>1, <1>4, <1>5, Zenon
  <2>3. frames' = Append(<<>>, f)
    BY <2>1, <2>2
  <2>4. nodes' = [nodes EXCEPT ![1] = NewNode(kinds[1])]
    BY <1>1, <2>1, Zenon
  <2>5. nextToken' = 2 /\ errors' = errors
    BY <1>1, <2>1
  <2>6. QED
    BY <2>3, <2>4, <2>5
<1>7. /\ f \in Call /\ f.node = 1 /\ f.into = "root" /\ f.sigEnd <= f.sigBegin
      /\ Shaped(f.todo)
      /\ StepOf(f.todo) \notin {"checkPath", "as", "name", "checkName"}
      /\ Has(f.todo, "chain") => kinds[1] \in DOMAIN ChainMargins
  <2>1. first \in Nat /\ into \in Intos
    BY <1>4 DEF Intos
  <2>2. /\ f \in Call /\ f.node = first /\ f.into = into /\ f.sigEnd <= f.sigBegin
        /\ Shaped(f.todo)
        /\ StepOf(f.todo) \notin {"checkPath", "as", "name", "checkName"}
        /\ Has(f.todo, "chain") => kinds[first] \in DOMAIN ChainMargins
    BY <1>5, <2>1, FrameIs
  <2>3. QED
    BY <1>4, <2>2
<1>8. frames' = <<f>> /\ frames' \in Seq(Call) /\ Len(frames') = 1 /\ frames'[1] = f
  BY <1>6, <1>7
<1>9. /\ Noded' /\ nodes'[1].kind = kinds[1]
  <2> DEFINE node == NewNode(kinds[1])
  <2>1. /\ DOMAIN node = {"kind", "sub", "alt", "next", "chain"}
        /\ node.kind = kinds[1]
    BY DEF NewNode, NoNode
  <2> HIDE DEF node
  <2>2. nodes' = [nodes EXCEPT ![1] = node]
    BY <1>6 DEF node
  <2>3. QED
    BY <1>1, <1>2, <1>3, <2>1, <2>2 DEF Noded
<1>10. OfTokens(g)' /\ Worded' /\ tokens' = tokens /\ kinds' = kinds
  BY <1>1, SameText
<1>11. Framed(1)'
  BY <1>2, <1>3, <1>6, <1>7, <1>8, <1>9, <1>10 DEF Framed
<1>12. TopPlaced'
  <2>1. StepOf(f.todo) = "path" => nextToken' = Looked(f)
    BY <1>6, <1>7 DEF Looked
  <2>2. QED
    BY <1>7, <1>8, <2>1 DEF TopPlaced
<1>13. Framing'
  BY <1>8, <1>11, <1>12 DEF Framing
<1>14. PICK X : X = {g.count + 1}
  OBVIOUS
<1>15. PICK Y : Y = Left(g, f.todo, 1, X)
  OBVIOUS
<1>16. P <=> 2 \in Y
  <2>1. first + 1 \in Left(g, Frame(first, single, into).todo, first, X)
          <=> (IF single THEN Unit(g, first) ELSE Body(g, first)) \cap X # {}
    <3>1. into \in Intos /\ first \in 1 .. g.count /\ Len(tokens) \in Nat
      BY <1>2, <1>3, <1>4 DEF Intos
    <3>2. QED
      BY <3>1, OpensUnit
  <2>2. 2 \in Y <=> Body(g, 1) \cap X # {}
    BY <1>4, <1>5, <1>15, <2>1
  <2>3. tokens # <<>>
    BY <1>2, <1>3
  <2>4. QED
    BY <1>14, <2>2, <2>3
<1>17. PICK H : H = [k \in 0 .. 1 |-> IF k = 0 THEN X ELSE Y]
  OBVIOUS
<1>18. H[0] = X /\ H[1] = Y
  BY <1>17
<1>19. Tracks(g, H)'
  <2>1. Kind(g, g.count + 1) = "end"
    BY <1>2 DEF Kind
  <2>2. \A q \in X : Kind(g, q) \in Enders
    BY <1>14, <2>1 DEF Enders
  <2>3. \A k \in 1 .. 1 : k = 1 /\ k - 1 = 0
    OBVIOUS
  <2>4. QED
    BY <1>7, <1>8, <1>14, <1>15, <1>18, <2>2, <2>3 DEF Tracks
<1>20. nextToken' \in Places(g)
  BY <1>2, <1>3, <1>6 DEF Places
<1>21. P <=> nextToken' \in H[Len(frames')]
  BY <1>6, <1>8, <1>16, <1>18
<1>22. Held(g, P, H)'
  BY <1>8, <1>9, <1>10, <1>13, <1>19, <1>20, <1>21 DEF Held
<1>23. QED
  BY <1>6, <1>22 DEF Goes

LEMMA ErrorsGrow ==
  ASSUME fpParseBody
  PROVE  errors' = errors \/ \E x : errors' = Append(errors, x)
<1> DEFINE Grow == errors' = errors \/ \E x : errors' = Append(errors, x)
<1>1. ASSUME NEW message, NEW i, Fail(message, i)
      PROVE  Grow
  BY <1>1 DEF Fail
<1>2. ASSUME NEW fs, NEW single, NEW into, CallBody(fs, single, into)
      PROVE  Grow
  BY <1>2 DEF CallBody
<1>3. CASE Chain
  BY <1>1, <1>3 DEF Chain
<1>4. CASE Signature \/ SigBinds \/ Return
  BY <1>4 DEF Signature, SigBinds, Return
<1>5. CASE Units \/ NextUnit
  BY <1>2, <1>5 DEF Units, NextUnit
<1>6. CASE Expect
  BY <1>1, <1>6, Zenon DEF Expect
<1>7. CASE Operand
  BY <1>2, <1>7 DEF Operand
<1>8. CASE Optional
  BY <1>8 DEF Optional
<1>9. CASE ImportPath
  BY <1>2, <1>9 DEF ImportPath
<1>10. CASE CheckPath
  BY <1>1, <1>10 DEF CheckPath
<1>11. CASE CheckName
  BY <1>1, <1>11 DEF CheckName
<1>12. CASE Unexpected
  BY <1>1, <1>12 DEF Unexpected
<1>13. \/ Chain \/ Signature \/ SigBinds \/ Units \/ Expect \/ Operand \/ Optional
       \/ ImportPath \/ CheckPath \/ CheckName \/ Unexpected \/ NextUnit \/ Return
  BY DEF fpParseBody
<1>14. QED
  BY <1>3, <1>4, <1>5, <1>6, <1>7, <1>8, <1>9, <1>10, <1>11, <1>12, <1>13

-----------------------------------------------------------------------------
(* The whole of fpParse                                                    *)

\* What fpTokenize refuses is a lexical error.
LEMMA LexicalOnly ==
  ASSUME LexInv, fpTokenize
  PROVE  phase' \in {"tokenize", "classify"} /\ (errors' = <<>> \/ ~Lexed')
<1> DEFINE Fine == phase' \in {"tokenize", "classify"} /\ (errors' = <<>> \/ ~Lexed')
<1>1. phase = "tokenize" /\ errors = <<>>
  BY DEF fpTokenize, LexInv
<1>2. ASSUME NEW message \in LexicalErrors, NEW e, Reject(message, e)
      PROVE  Fine
  <2> DEFINE x == [message |-> message, range |-> Span(begin, e)]
  <2>1. errors' = <<x>> /\ x.message \in LexicalErrors /\ phase' = "classify"
    BY <1>1, <1>2 DEF Reject
  <2> HIDE DEF x
  <2>2. 1 \in DOMAIN errors' /\ errors'[1] = x
    BY <2>1
  <2>3. ~Lexed'
    BY <2>1, <2>2 DEF Lexed
  <2>4. QED
    BY <2>1, <2>3
<1>3. ASSUME NEW q, NEW ts, Step(q, ts)
      PROVE  Fine
  BY <1>1, <1>3 DEF Step
<1>4. {"expected delimiter", "expected whitespace after string",
       "invalid escape sequence", "expected */"} \subseteq LexicalErrors
  BY DEF LexicalErrors
<1> HIDE DEF Fine
<1>5. ASSUME Between
      PROVE  Fine
  BY <1>3, <1>5, Zenon DEF Between
<1>6. ASSUME Word
      PROVE  Fine
  BY <1>2, <1>3, <1>4, <1>6, Zenon DEF Word
<1>7. ASSUME InComment
      PROVE  Fine
  BY <1>3, <1>7, Zenon DEF InComment
<1>8. ASSUME InString
      PROVE  Fine
  BY <1>2, <1>3, <1>4, <1>8 DEF InString
<1>9. ASSUME InEscape
      PROVE  Fine
  BY <1>2, <1>3, <1>4, <1>9 DEF InEscape
<1>10. ASSUME InUnicode
      PROVE  Fine
  BY <1>2, <1>3, <1>4, <1>10 DEF InUnicode
<1>11. ASSUME EndOfText
      PROVE  Fine
  <2>1. CASE state = 5
    BY <1>2, <1>4, <1>11, <2>1 DEF EndOfText
  <2>2. CASE state # 5
    BY <1>1, <1>11, <2>2 DEF EndOfText, Fine
  <2>3. QED
    BY <2>1, <2>2
<1>12. Fine
  BY <1>5, <1>6, <1>7, <1>8, <1>9, <1>10, <1>11, Zenon DEF fpTokenize
<1>13. QED
  BY <1>12 DEF Fine

\* A token without a kind is the only thing fpClassifyTokens refuses.
LEMMA NoError ==
  ASSUME NEW ks, errors = <<>>, Len(tokens) \in Nat,
         \A i \in 1 .. Len(tokens) : ks[i] # "ERROR"
  PROVE  Classified(ks) = <<>>
<1> DEFINE S == 0 .. Len(tokens)
           Value(f, n) == IF n = 0 THEN errors
                          ELSE IF ks[n] = "ERROR"
                          THEN Append(f[n - 1], ErrorAt("invalid token", n))
                          ELSE f[n - 1]
           Is(f) == f = [n \in S |-> Value(f, n)]
           after == CHOOSE f : Is(f)
<1>1. \A f, n : n \in S => Value(f, n) = IF n = 0 THEN <<>> ELSE f[n - 1]
  <2>1. \A n : n \in S => n = 0 \/ n \in 1 .. Len(tokens)
    OBVIOUS
  <2> HIDE DEF S
  <2>2. QED
    BY <2>1
<1>2. \E f : Is(f)
  <2> DEFINE f == [n \in S |-> <<>>]
  <2>1. \A n \in S : Value(f, n) = <<>>
    <3>1. \A n \in S : n # 0 => n - 1 \in S
      OBVIOUS
    <3> HIDE DEF S, Value
    <3>2. \A n \in S : n # 0 => f[n - 1] = <<>>
      BY <3>1
    <3> HIDE DEF f
    <3>3. QED
      BY <1>1, <3>2
  <2>2. Is(f)
    <3> HIDE DEF S, Value
    <3> QED BY <2>1
  <2>3. QED
    BY <2>2
<1>3. Is(after)
  <2> HIDE DEF Is
  <2> QED BY <1>2
<1>4. Classified(ks) = after[Len(tokens)]
  BY Zenon DEF Classified
<1> HIDE DEF after
<1>5. \A n \in S : after[n] = IF n = 0 THEN <<>> ELSE after[n - 1]
  <2>1. \A n \in S : after[n] = Value(after, n)
    <3> HIDE DEF S, Value
    <3> QED BY <1>3
  <2> HIDE DEF S, Value
  <2>2. QED
    BY <1>1, <2>1
<1> DEFINE T == {n \in Nat : n \in S => after[n] = <<>>}
<1>6. 0 \in T
  BY <1>5
<1>7. ASSUME NEW n \in Nat, n \in T
      PROVE  n + 1 \in T
  <2>1. n + 1 # 0 /\ (n + 1) - 1 = n /\ (n + 1 \in S => n \in S)
    OBVIOUS
  <2> HIDE DEF S
  <2>2. QED
    BY <1>5, <1>7, <2>1
<1>8. Nat \subseteq T
  <2> HIDE DEF T
  <2> QED BY <1>6, <1>7, SetInduction
<1>9. QED
  BY <1>4, <1>8

LEMMA LexemeIs ==
  ASSUME Progress, NEW i \in 1 .. Len(tokens)
  PROVE  LET w == Lexeme(i)
         IN  Len(w) \in Nat /\ Len(w) > 0 /\ ChainText("CHAIN", w) = w
<1>1. tokens[i] \in Token /\ tokens[i].begin < tokens[i].end
  BY ElementOfSeq, ProgressOrders DEF Progress, TokensInOrder
<1>2. PICK a \in Nat, b \in Nat : a = tokens[i].begin /\ b = tokens[i].end /\ a < b
  BY <1>1 DEF Token
<1>3. PICK w : w = SubSeq(source, a + 1, b)
  OBVIOUS
<1>4. Lexeme(i) = w
  BY <1>2, <1>3 DEF Lexeme
<1>5. Len(w) \in Nat /\ Len(w) > 0
  BY <1>4, WholeLexeme
<1>6. a <= b
  BY <1>2
<1>7. ChainText("CHAIN", SubSeq(source, a + 1, b)) = SubSeq(source, a + 1, b)
  BY <1>6, ChainTextWhole
<1>8. QED
  BY <1>3, <1>4, <1>5, <1>7

LEMMA ClassifyIs ==
  ASSUME Progress, fpClassifyTokens
  PROVE  Worded' /\ Noded'
<1>1. /\ kinds' = [i \in 1 .. Len(tokens) |-> KindOf(Lexeme(i))]
      /\ nodes' = [i \in 1 .. Len(tokens) |-> NoNode]
      /\ tokens' = tokens /\ source' = source
  BY DEF fpClassifyTokens
<1>2. \A i : Lexeme(i)' = Lexeme(i)
  BY <1>1 DEF Lexeme
<1>3. \A i \in 1 .. Len(tokens) : /\ Len(Lexeme(i)) \in Nat /\ Len(Lexeme(i)) > 0
                                  /\ ChainText("CHAIN", Lexeme(i)) = Lexeme(i)
  BY LexemeIs
<1>4. Worded'
  BY <1>1, <1>2, <1>3 DEF Worded
<1>5. Noded'
  BY <1>1 DEF Noded, NoNode
<1>6. QED
  BY <1>4, <1>5

\* A program of the grammar has no token without a kind.
LEMMA ProgramIs ==
  ASSUME Progress
  PROVE  \E g : /\ IsGrammar(g) /\ OfTokens(g)
                /\ IsProgram <=> tokens = <<>> \/ g.count + 1 \in Body(g, 1)
                /\ IsProgram => \A i \in 1 .. Len(tokens) : kinds[i] # "ERROR"
<1>1. Len(tokens) \in Nat /\ (tokens # <<>> => Len(tokens) # 0)
  BY LenProperties, EmptySeq DEF Progress
<1>2. PICK g : g = Language
  OBVIOUS
<1>3. IsGrammar(g) /\ OfTokens(g)
  BY <1>1, <1>2, LanguageIs
<1>4. g.count = Len(tokens) /\ g.at = Spans
  BY <1>2 DEF Language
<1>5. tokens # <<>> => Body(g, 1) = Spans[1].body
  BY <1>1, <1>4 DEF Body
<1>6. IsProgram <=> tokens = <<>> \/ g.count + 1 \in Body(g, 1)
  BY <1>4, <1>5 DEF IsProgram
<1>7. ASSUME IsProgram, NEW i \in 1 .. Len(tokens)
      PROVE  kinds[i] # "ERROR"
  <2>1. tokens # <<>> /\ 1 \in 1 .. g.count
    BY <1>1, <1>4
  <2>2. g.count + 1 \in Body(g, 1)
    BY <1>6, <1>7, <2>1
  <2>3. Clean(g, 1, g.count + 1)
    BY <1>3, <2>1, <2>2, UnitsClean
  <2>4. i \in 1 .. (g.count + 1) - 1 /\ Kind(g, i) = kinds[i]
    BY <1>1, <1>3, <1>4, KindIs
  <2>5. QED
    BY <2>3, <2>4 DEF Clean
<1>8. QED
  BY <1>3, <1>6, <1>7

\* While the parser has found no error, it has not begun, or what is left can
\* be read just when the program is one of the grammar.
Reads == \/ nextToken = 1 /\ frames = <<>>
         \/ \E g, P, G : Held(g, P, G) /\ (P <=> IsProgram)

SyntaxInv ==
  /\ ReadInv
  /\ phase \in {"tokenize", "classify"} => /\ nextToken = 1 /\ frames = <<>>
                                           /\ errors = <<>> \/ ~Lexed
  /\ phase = "parse" => /\ errors # <<>> => ~IsProgram
                        /\ errors = <<>> => Worded /\ Noded /\ Reads
  /\ AcceptsGrammar

LEMMA EndAccepts ==
  ASSUME Progress, Worded, Reads, errors = <<>>, EndProgram
  PROVE  result' = "block" <=> IsProgram
<1>1. /\ frames = <<>> /\ (nextToken > 1 \/ ~fpHasNextUnit)
      /\ errors' = IF AtEnd THEN errors
                   ELSE Append(errors, ErrorAt("unexpected token", nextToken))
      /\ result' = IF errors' = <<>> THEN "block" ELSE "error"
  BY DEF EndProgram
<1>2. result' = "block" <=> AtEnd
  <2>1. Append(errors, ErrorAt("unexpected token", nextToken)) # <<>>
    OBVIOUS
  <2>2. QED
    BY <1>1, <2>1
<1>3. Len(tokens) \in Nat /\ (tokens = <<>> <=> Len(tokens) = 0)
  BY LenProperties, EmptySeq DEF Progress
<1>4. CASE \E g, P, G : Held(g, P, G) /\ (P <=> IsProgram)
  <2>1. PICK g, P, G : Held(g, P, G) /\ (P <=> IsProgram)
    BY <1>4
  <2>2. Len(frames) = 0 /\ G[0] = {g.count + 1} /\ OfTokens(g) /\ nextToken \in Places(g)
    BY <1>1, <2>1 DEF Held, Tracks
  <2>3. P <=> nextToken = g.count + 1
    BY <2>1, <2>2 DEF Held
  <2>4. AtEnd <=> nextToken = g.count + 1
    BY <1>3, <2>2, NextKind
  <2>5. QED
    BY <1>2, <2>1, <2>3, <2>4
<1>5. CASE nextToken = 1 /\ frames = <<>>
  <2>1. PICK g : /\ IsGrammar(g) /\ OfTokens(g)
                 /\ IsProgram <=> tokens = <<>> \/ g.count + 1 \in Body(g, 1)
    BY ProgramIs
  <2>2. g.count = Len(tokens) /\ nextToken \in Places(g)
    BY <1>3, <1>5, <2>1 DEF OfTokens, Places
  <2>3. Kind(g, nextToken) \in Enders
    <3>1. ~fpHasNextUnit
      <4>1. ~(nextToken > 1)
        BY <1>5
      <4>2. QED
        BY <1>1, <4>1, Zenon
    <3>2. QED
      BY <1>3, <2>1, <2>2, <3>1, NextKind
  <2>4. Body(g, nextToken) = {}
    BY <2>1, <2>3, UnitNone
  <2>5. IsProgram <=> tokens = <<>>
    BY <1>5, <2>1, <2>4
  <2>6. AtEnd <=> tokens = <<>>
    BY <1>3, <1>5 DEF AtEnd
  <2>7. QED
    BY <1>2, <2>5, <2>6
<1>6. QED
  BY <1>4, <1>5 DEF Reads

LEMMA SameHeld ==
  ASSUME NEW g, NEW P, NEW G, Held(g, P, G),
         UNCHANGED <<source, tokens, kinds, nextToken, frames, nodes>>
  PROVE  Held(g, P, G)'
<1>1. OfTokens(g)' /\ Worded' /\ \A i : Lexeme(i)' = Lexeme(i)
  BY SameText DEF Held
<1>2. \A k : Leaf(k)' <=> Leaf(k)
  BY <1>1 DEF Leaf
<1>3. \A k : (Framed(k)' <=> Framed(k)) /\ (CallerOf(k)' <=> CallerOf(k))
  BY <1>2 DEF Framed, CallerOf
<1>4. TopPlaced' <=> TopPlaced
  BY <1>1 DEF TopPlaced
<1>5. Framing'
  BY <1>3, <1>4 DEF Held, Framing
<1>6. Tracks(g, G)' /\ Noded'
  BY DEF Held, Tracks, Noded
<1>7. QED
  BY <1>1, <1>5, <1>6 DEF Held

LEMMA AppendSome ==
  ASSUME NEW S, NEW s \in Seq(S), NEW x
  PROVE  Append(s, x) # <<>>
<1>1. PICK T : T = S \cup {x}
  OBVIOUS
<1>2. s \in Seq(T) /\ x \in T
  BY <1>1, SeqMonotonic
<1>3. Len(s) \in Nat /\ Len(Append(s, x)) = Len(s) + 1
  BY <1>2, LenProperties, AppendProperties
<1>4. QED
  BY <1>3, EmptySeq

Errorless == \A i \in 1 .. Len(tokens) : kinds[i] # "ERROR"

\* No token of a program is an error, now or after a step.
LEMMA ErrorFreeThen ==
  Progress' /\ IsProgram' => \A i \in 1 .. Len(tokens') : kinds'[i] # "ERROR"
<1>1. Progress => (IsProgram => Errorless)
  BY ProgramIs DEF Errorless
<1>2. Progress' => (IsProgram' => Errorless')
  BY <1>1, PTL
<1>3. QED
  BY <1>2 DEF Errorless

LEMMA ParsingStep ==
  ASSUME SyntaxInv, phase = "parse", BeginProgram \/ fpParseBody
  PROVE  SyntaxInv'
<1>1. /\ phase' = "parse" /\ UNCHANGED <<source, tokens, kinds>>
      /\ fpParse
  BY DEF BeginProgram, fpParseBody, fpParse
<1>2. ReadInv' /\ Progress
  BY <1>1, ReadStep DEF SyntaxInv, ReadInv, LexInv, Next
<1>3. IsProgram' <=> IsProgram
  BY <1>1, SameProgram
<1>4. AcceptsGrammar'
  BY <1>1 DEF AcceptsGrammar
<1>5. CASE errors # <<>>
  <2>1. ~IsProgram
    BY <1>5 DEF SyntaxInv
  <2>2. ~IsProgram'
    BY <1>3, <2>1
  <2>3. errors' # <<>>
    <3>1. PICK S : errors \in Seq(S)
      BY DEF SyntaxInv, ReadInv, Listed
    <3>2. errors' = errors \/ \E x : errors' = Append(errors, x)
      <4>1. CASE BeginProgram
        BY <4>1, Zenon DEF BeginProgram, CallBody
      <4>2. CASE fpParseBody
        BY <4>2, ErrorsGrow
      <4>3. QED
        BY <4>1, <4>2
    <3>3. \A x : Append(errors, x) # <<>>
      BY <3>1, AppendSome
    <3>4. QED
      BY <1>5, <3>2, <3>3
  <2>4. QED
    BY <1>1, <1>2, <1>4, <2>2, <2>3 DEF SyntaxInv
<1>6. CASE errors = <<>>
  <2>1. Worded /\ Noded /\ Reads
    BY <1>6 DEF SyntaxInv
  <2>2. \E g, P : Goes(g, P) /\ (P <=> IsProgram)
    <3>1. CASE BeginProgram
      <4>1. PICK g : /\ IsGrammar(g) /\ OfTokens(g)
                     /\ IsProgram <=> tokens = <<>> \/ g.count + 1 \in Body(g, 1)
        BY <1>2, ProgramIs
      <4>2. PICK P : P <=> IsProgram
        OBVIOUS
      <4>3. P <=> tokens = <<>> \/ g.count + 1 \in Body(g, 1)
        BY <4>1, <4>2
      <4>4. Goes(g, P)
        BY <1>6, <2>1, <3>1, <4>1, <4>3, BeginGoes
      <4>5. QED
        BY <4>2, <4>4
    <3>2. CASE fpParseBody
      <4>1. frames # <<>>
        BY <3>2 DEF fpParseBody
      <4>2. PICK g, P, G : Held(g, P, G) /\ (P <=> IsProgram)
        BY <2>1, <4>1 DEF Reads
      <4>3. Goes(g, P)
        BY <1>6, <3>2, <4>2, BodyGoes
      <4>4. QED
        BY <4>2, <4>3
    <3>3. QED
      BY <3>1, <3>2
  <2>3. PICK g, P : Goes(g, P) /\ (P <=> IsProgram)
    BY <2>2
  <2>4. errors' # <<>> => ~IsProgram'
    BY <1>3, <2>3 DEF Goes
  <2>5. ASSUME errors' = <<>>
        PROVE  Worded' /\ Noded' /\ Reads'
    <3>1. PICK H : Held(g, P, H)'
      BY <2>3, <2>5 DEF Goes
    <3>2. Worded' /\ Noded'
      BY <3>1 DEF Held
    <3>3. (\E f, Q, G : Held(f, Q, G) /\ (Q <=> IsProgram))'
      BY <1>3, <2>3, <3>1
    <3>4. QED
      BY <3>2, <3>3 DEF Reads
  <2>6. QED
    BY <1>1, <1>2, <1>4, <2>4, <2>5 DEF SyntaxInv
<1>7. QED
  BY <1>5, <1>6

LEMMA SyntaxStep == SyntaxInv /\ [Next]_vars => SyntaxInv'
<1> SUFFICES ASSUME SyntaxInv, [Next]_vars
             PROVE  SyntaxInv'
  OBVIOUS
<1>1. ReadInv' /\ ReadInv /\ LexInv /\ Progress /\ Placed
  BY ReadStep DEF SyntaxInv, ReadInv, LexInv
<1>2. CASE fpTokenize /\ UNCHANGED rvars
  <2>1. phase = "tokenize" /\ nextToken = 1 /\ frames = <<>>
    BY <1>1, <1>2 DEF fpTokenize, Placed
  <2>2. phase' \in {"tokenize", "classify"} /\ (errors' = <<>> \/ ~Lexed')
    BY <1>1, <1>2, LexicalOnly
  <2>3. nextToken' = 1 /\ frames' = <<>>
    BY <1>2, <2>1 DEF rvars
  <2>4. phase' # "parse" /\ phase' # "done"
    BY <2>2
  <2>5. QED
    BY <1>1, <2>2, <2>3, <2>4 DEF SyntaxInv, AcceptsGrammar
<1>3. CASE fpClassifyTokens
  <2>1. /\ phase = "classify" /\ errors' = Classified(kinds')
        /\ IF errors' # <<>>
           THEN phase' = "done" /\ result' = "error"
           ELSE phase' = "parse" /\ UNCHANGED result
        /\ UNCHANGED <<source, tokens, nextToken, frames>>
    BY <1>3 DEF fpClassifyTokens
  <2>2. nextToken' = 1 /\ frames' = <<>> /\ (errors = <<>> \/ ~Lexed)
    BY <2>1 DEF SyntaxInv
  <2>3. Lexed' <=> Lexed
    BY <1>1, <1>3, ParseStep DEF fpParse, ReadInv
  <2>4. CASE errors' = <<>>
    <3>1. Worded' /\ Noded'
      BY <1>1, <1>3, ClassifyIs
    <3>2. Reads'
      BY <2>2 DEF Reads
    <3>3. phase' = "parse"
      BY <2>1, <2>4
    <3>4. AcceptsGrammar'
      BY <3>3 DEF AcceptsGrammar
    <3>5. QED
      BY <1>1, <2>4, <3>1, <3>2, <3>3, <3>4 DEF SyntaxInv
  <2>5. CASE errors' # <<>>
    <3>1. phase' = "done" /\ result' = "error"
      BY <2>1, <2>5
    <3>2. Lexed => \E i \in 1 .. Len(tokens') : kinds'[i] = "ERROR"
      <4> SUFFICES ASSUME Lexed, \A i \in 1 .. Len(tokens') : kinds'[i] # "ERROR"
                   PROVE  FALSE
        OBVIOUS
      <4>1. errors = <<>> /\ tokens' = tokens /\ Len(tokens) \in Nat
        BY <1>1, <2>1, <2>2, LenProperties DEF Progress
      <4>2. PICK ks : ks = kinds'
        OBVIOUS
      <4>3. \A i \in 1 .. Len(tokens) : ks[i] # "ERROR"
        BY <4>1, <4>2
      <4>4. Classified(ks) = <<>>
        BY <4>1, <4>3, NoError
      <4>5. Classified(kinds') = Classified(ks)
        BY <4>2, Zenon
      <4>6. QED
        BY <2>1, <2>5, <4>4, <4>5
    <3>3. Progress'
      BY <1>1 DEF ReadInv, LexInv
    <3>6. AcceptsGrammar'
      BY <2>3, <3>1, <3>2, <3>3, ErrorFreeThen DEF AcceptsGrammar
    <3>7. QED
      BY <1>1, <3>1, <3>6 DEF SyntaxInv
  <2>6. QED
    BY <2>4, <2>5
<1>4. CASE BeginProgram \/ fpParseBody
  <2>1. phase = "parse"
    BY <1>4 DEF BeginProgram, fpParseBody
  <2>2. QED
    BY <1>4, <2>1, ParsingStep
<1>5. CASE EndProgram
  <2>1. /\ phase = "parse" /\ phase' = "done" /\ UNCHANGED <<source, tokens, kinds>>
        /\ result' = IF errors' = <<>> THEN "block" ELSE "error"
        /\ errors' = IF AtEnd THEN errors
                     ELSE Append(errors, ErrorAt("unexpected token", nextToken))
    BY <1>5 DEF EndProgram
  <2>2. IsProgram' <=> IsProgram
    BY <2>1, SameProgram
  <2>3. CASE errors = <<>>
    <3>1. result' = "block" <=> IsProgram
      BY <1>1, <1>5, <2>1, <2>3, EndAccepts DEF SyntaxInv
    <3>2. QED
      BY <1>1, <2>1, <2>2, <3>1 DEF SyntaxInv, AcceptsGrammar
  <2>4. CASE errors # <<>>
    <3>1. ~IsProgram
      BY <2>1, <2>4 DEF SyntaxInv
    <3>2. errors' # <<>>
      <4>1. PICK S : errors \in Seq(S)
        BY <1>1 DEF ReadInv, Listed
      <4>2. \A x : Append(errors, x) # <<>>
        BY <4>1, AppendSome
      <4>3. QED
        BY <2>1, <2>4, <4>2
    <3>3. QED
      BY <1>1, <2>1, <2>2, <3>1, <3>2 DEF SyntaxInv, AcceptsGrammar
  <2>5. QED
    BY <2>3, <2>4
<1>6. CASE UNCHANGED vars
  <2>1. /\ UNCHANGED <<source, tokens, kinds, errors, phase>>
        /\ UNCHANGED <<nextToken, frames, nodes, result>>
    BY <1>6 DEF vars, tvars, rvars
  <2>2. (IsProgram' <=> IsProgram) /\ (Lexed' <=> Lexed) /\ (Worded' <=> Worded)
    BY <2>1, SameProgram, SameText DEF Lexed
  <2>3. Reads => Reads'
    <3>1. CASE nextToken = 1 /\ frames = <<>>
      BY <2>1, <3>1 DEF Reads
    <3>2. CASE \E g, P, G : Held(g, P, G) /\ (P <=> IsProgram)
      <4>1. PICK g, P, G : Held(g, P, G) /\ (P <=> IsProgram)
        BY <3>2
      <4>2. Held(g, P, G)'
        BY <2>1, <4>1, SameHeld
      <4>3. QED
        BY <2>2, <4>1, <4>2 DEF Reads
    <3>3. QED
      BY <3>1, <3>2 DEF Reads
  <2>4. Noded' <=> Noded
    BY <2>1 DEF Noded
  <2>5. AcceptsGrammar'
    BY <2>1, <2>2 DEF SyntaxInv, AcceptsGrammar
  <2>6. QED
    BY <1>1, <2>1, <2>2, <2>3, <2>4, <2>5 DEF SyntaxInv
<1>7. QED
  BY <1>2, <1>3, <1>4, <1>5, <1>6 DEF Next, fpParse

\* Whatever text a program is, fpParse returns a block exactly when its tokens
\* are a program of the grammar, and an error otherwise: the recursive descent
\* of fpParseBody, its early returns and the errors it goes on after accept
\* every program and nothing else (parser.c, fpParse, fpParseBody).
THEOREM ParserAcceptsGrammar == Spec => []AcceptsGrammar
<1>1. ReaderInit => SyntaxInv
  <2> SUFFICES ASSUME ReaderInit
               PROVE  SyntaxInv
    OBVIOUS
  <2>1. phase = "tokenize" /\ errors = <<>> /\ nextToken = 1 /\ frames = <<>>
    BY DEF ReaderInit, TokenizerInit
  <2>2. QED
    BY <2>1, ReadInvInit DEF SyntaxInv, AcceptsGrammar
<1>2. SyntaxInv => AcceptsGrammar
  BY DEF SyntaxInv
<1>3. QED
  BY <1>1, <1>2, SyntaxStep, PTL DEF Spec
====

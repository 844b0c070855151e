---------------------------- MODULE ReaderProofs ----------------------------
(***************************************************************************)
(* For every text, the tokens fpTokenize finds are ranges in order, it     *)
(* reads the items of the lexicon, and every error is shown at its place.  *)
(* What it takes for a number is written as one, and a string printed by   *)
(* repr is read back as the same string.                                   *)
(***************************************************************************)
EXTENDS Reader, SequenceTheorems, FiniteSetTheorems, Induction

Token == [begin : Nat, end : Nat]

\* Non-empty ranges between low and high, one after the other.
Ordered(ts, low, high) ==
  /\ \A i \in 1 .. Len(ts) :
       low <= ts[i].begin /\ ts[i].begin < ts[i].end /\ ts[i].end <= high
  /\ \A i, j \in 1 .. Len(ts) : i < j => ts[i].end <= ts[j].begin

\* The strengthening: the tokens so far end before what is being read.
Progress ==
  /\ source \in Sources
  /\ curr \in Nat
  /\ begin \in Nat
  /\ state \in 0 .. 15
  /\ tokens \in Seq(Token)
  /\ phase = "tokenize" => curr <= Len(source) + 1
  /\ state \notin {0, 4} => begin < curr
  /\ \E r \in 0 .. Len(source) :
       /\ Ordered(tokens, 0, r)
       /\ r <= curr
       /\ state \notin {0, 4} => r <= begin
-----------------------------------------------------------------------------
LEMMA OrderedConcat ==
  ASSUME NEW ts \in Seq(Token), NEW us \in Seq(Token),
         NEW low \in Nat, NEW mid \in Nat, NEW high \in Nat,
         low <= mid, mid <= high,
         Ordered(ts, low, mid), Ordered(us, mid, high)
  PROVE  ts \o us \in Seq(Token) /\ Ordered(ts \o us, low, high)
<1> DEFINE m == Len(ts)
           n == Len(us)
           vs == ts \o us
<1>1. /\ m \in Nat /\ n \in Nat
      /\ \A i \in 1 .. m : ts[i].begin \in Nat /\ ts[i].end \in Nat
      /\ \A i \in 1 .. n : us[i].begin \in Nat /\ us[i].end \in Nat
  <2>1. /\ m \in Nat /\ n \in Nat
        /\ \A i \in 1 .. m : ts[i] \in Token
        /\ \A i \in 1 .. n : us[i] \in Token
    BY ElementOfSeq, LenProperties
  <2>2. QED
    BY <2>1 DEF Token
<1>2. /\ vs \in Seq(Token)
      /\ Len(vs) = m + n
      /\ \A i \in 1 .. m + n : vs[i] = IF i <= m THEN ts[i] ELSE us[i - m]
  BY ConcatProperties
<1> HIDE DEF vs, m, n
<1>3. ASSUME NEW i \in 1 .. m + n
      PROVE  low <= vs[i].begin /\ vs[i].begin < vs[i].end /\ vs[i].end <= high
  <2>1. CASE i <= m
    BY <1>1, <1>2, <2>1 DEF Ordered, m, n
  <2>2. CASE i > m
    BY <1>1, <1>2, <2>2 DEF Ordered, m, n
  <2>3. QED
    BY <1>1, <2>1, <2>2
<1>4. ASSUME NEW i \in 1 .. m + n, NEW j \in 1 .. m + n, i < j
      PROVE  vs[i].end <= vs[j].begin
  <2>1. CASE j <= m
    BY <1>1, <1>2, <1>4, <2>1 DEF Ordered, m
  <2>2. CASE i > m
    <3>1. i - m \in 1 .. n /\ j - m \in 1 .. n /\ i - m < j - m
      BY <1>1, <1>4, <2>2
    <3>2. us[i - m].end <= us[j - m].begin
      BY <3>1 DEF Ordered, n
    <3>3. QED
      BY <1>1, <1>2, <1>4, <2>2, <3>2
  <2>3. CASE i <= m /\ j > m
    BY <1>1, <1>2, <1>4, <2>3 DEF Ordered, m, n
  <2>4. QED
    BY <1>1, <2>1, <2>2, <2>3
<1>5. QED
  BY <1>2, <1>3, <1>4 DEF Ordered, vs, m, n

\* A yield of one token or of two.
LEMMA OneSpan ==
  ASSUME NEW b \in Nat, NEW e \in Nat, b < e
  PROVE  <<Span(b, e)>> \in Seq(Token) /\ Ordered(<<Span(b, e)>>, b, e)
<1>1. Span(b, e) \in Token /\ Span(b, e).begin = b /\ Span(b, e).end = e
  BY DEF Span, Token
<1> DEFINE one == <<Span(b, e)>>
<1>2. one \in Seq(Token) /\ Len(one) = 1 /\ one[1] = Span(b, e)
  BY <1>1
<1> HIDE DEF one
<1>3. Ordered(one, b, e)
  BY <1>1, <1>2 DEF Ordered
<1>4. QED
  BY <1>2, <1>3 DEF one

LEMMA TwoSpans ==
  ASSUME NEW b \in Nat, NEW e \in Nat, NEW f \in Nat, b < e, e < f
  PROVE  /\ <<Span(b, e), Span(e, f)>> \in Seq(Token)
         /\ Ordered(<<Span(b, e), Span(e, f)>>, b, f)
<1>1. /\ Span(b, e) \in Token /\ Span(e, f) \in Token
      /\ Span(b, e).begin = b /\ Span(b, e).end = e
      /\ Span(e, f).begin = e /\ Span(e, f).end = f
  BY DEF Span, Token
<1> DEFINE two == <<Span(b, e), Span(e, f)>>
<1>2. two \in Seq(Token) /\ Len(two) = 2 /\ two[1] = Span(b, e) /\ two[2] = Span(e, f)
  BY <1>1
<1> HIDE DEF two
<1>3. \A i \in 1 .. 2 : i = 1 \/ i = 2
  OBVIOUS
<1>4. Ordered(two, b, f)
  BY <1>1, <1>2, <1>3 DEF Ordered
<1>5. QED
  BY <1>2, <1>4 DEF two
-----------------------------------------------------------------------------
\* A character that yields nothing.
LEMMA QuietStep ==
  ASSUME Progress, NEW q \in 0 .. 15, Step(q, <<>>),
         phase = "tokenize", curr <= Len(source),
         \/ begin' = curr
         \/ begin' = begin /\ (state \notin {0, 4} \/ q \in {0, 4})
  PROVE  Progress'
<1>1. tokens' = tokens
  BY ConcatEmptySeq DEF Step, Progress
<1>2. PICK r \in 0 .. Len(source) :
        /\ Ordered(tokens, 0, r)
        /\ r <= curr
        /\ state \notin {0, 4} => r <= begin
  BY DEF Progress
<1>3. Len(source) \in Nat
  BY SourcesAssumption DEF Progress
<1>4. r <= curr' /\ (state' \notin {0, 4} => r <= begin')
  BY <1>2, <1>3 DEF Step, Progress
<1>5. source' = source /\ Ordered(tokens', 0, r)
  BY <1>1, <1>2 DEF Step
<1>6. /\ curr' \in Nat /\ begin' \in Nat /\ state' \in 0 .. 15
      /\ curr' <= Len(source) + 1
      /\ state' \notin {0, 4} => begin' < curr'
  BY <1>3 DEF Step, Progress
<1>7. source' \in Sources /\ tokens' \in Seq(Token)
  BY <1>1, <1>5 DEF Progress
<1>8. QED
  BY <1>4, <1>5, <1>6, <1>7 DEF Progress

\* Where the next token cannot begin before.
Low == IF state \in {0, 4} THEN curr ELSE begin

\* A character that ends a token, and may be one of its own.
LEMMA YieldStep ==
  ASSUME Progress, NEW ts \in Seq(Token), Step(0, ts), UNCHANGED begin,
         phase = "tokenize", curr <= Len(source),
         NEW e \in 0 .. Len(source), e <= curr + 1, Low <= e, Ordered(ts, Low, e)
  PROVE  Progress'
<1>1. PICK r \in 0 .. Len(source) : Ordered(tokens, 0, r) /\ r <= Low
  BY DEF Progress, Low
<1>2. Len(source) \in Nat /\ curr \in Nat /\ begin \in Nat /\ tokens \in Seq(Token)
  BY SourcesAssumption DEF Progress
<1>3. r \in Nat /\ e \in Nat /\ Low \in Nat
  BY <1>1, <1>2 DEF Low
<1>4. r <= e /\ Ordered(ts, r, e)
  <2>1. \A i \in 1 .. Len(ts) : ts[i].begin \in Nat
    <3>1. \A i \in 1 .. Len(ts) : ts[i] \in Token
      BY ElementOfSeq
    <3>2. QED
      BY <3>1 DEF Token
  <2>2. QED
    BY <1>1, <1>3, <2>1 DEF Ordered
<1>5. tokens \o ts \in Seq(Token) /\ Ordered(tokens \o ts, 0, e)
  BY <1>1, <1>2, <1>3, <1>4, OrderedConcat
<1>6. /\ tokens' = tokens \o ts /\ source' = source /\ state' = 0
      /\ curr' = curr + 1 /\ begin' = begin
  BY DEF Step
<1>7. source' \in Sources /\ tokens' \in Seq(Token) /\ Ordered(tokens', 0, e)
  BY <1>5, <1>6 DEF Progress
<1>8. curr' \in Nat /\ begin' \in Nat /\ curr' <= Len(source') + 1 /\ e <= curr'
  BY <1>2, <1>3, <1>6
<1>9. e \in 0 .. Len(source')
  BY <1>6
<1>10. QED
  BY <1>6, <1>7, <1>8, <1>9 DEF Progress

\* A character that belongs to the token it ends.
LEMMA LastSign ==
  ASSUME Progress, Step(0, <<Span(begin, curr + 1)>>), UNCHANGED begin,
         phase = "tokenize", curr <= Len(source),
         state \notin {0, 4}, curr + 1 \in 0 .. Len(source)
  PROVE  Progress'
<1>1. curr \in Nat /\ begin \in Nat /\ begin < curr + 1 /\ Low = begin
  BY DEF Progress, Low
<1> DEFINE ts == <<Span(begin, curr + 1)>>
           e == curr + 1
<1>2. ts \in Seq(Token) /\ Ordered(ts, Low, e)
  BY <1>1, OneSpan
<1>3. e \in 0 .. Len(source) /\ e <= curr + 1 /\ Low <= e
  BY <1>1
<1>4. Step(0, ts)
  OBVIOUS
<1> HIDE DEF ts, e
<1>5. QED
  BY <1>2, <1>3, <1>4, YieldStep

LEMMA RejectStep ==
  ASSUME Progress, NEW message, NEW e, Reject(message, e)
  PROVE  Progress'
<1>1. Len(source) \in Nat
  BY SourcesAssumption DEF Progress
<1>2. tokens' = <<>> /\ tokens' \in Seq(Token) /\ Len(tokens') = 0
  BY EmptySeq DEF Reject
<1>3. Ordered(tokens', 0, 0)
  BY <1>2 DEF Ordered
<1>4. /\ source' = source /\ curr' = curr /\ begin' = begin /\ state' = state
      /\ phase' = "classify"
  BY DEF Reject
<1>5. 0 \in 0 .. Len(source')
  BY <1>1, <1>4
<1>6. QED
  BY <1>2, <1>3, <1>4, <1>5 DEF Progress
-----------------------------------------------------------------------------
\* The strengthening is inductive.
LEMMA ProgressStep == Progress /\ [fpTokenize]_tvars => Progress'
<1> SUFFICES ASSUME Progress, [fpTokenize]_tvars
             PROVE  Progress'
  OBVIOUS
<1>0. Len(source) \in Nat /\ curr \in Nat /\ begin \in Nat /\ state \in 0 .. 15
  BY SourcesAssumption DEF Progress
<1>1. CASE UNCHANGED tvars
  BY <1>1 DEF tvars, Progress, Ordered
<1>2. CASE fpTokenize /\ curr > Len(source)
  <2>0. EndOfText
    <3>1. ~(curr <= Len(source))
      BY <1>0, <1>2
    <3>2. QED
      BY <1>2, <3>1, Zenon DEF fpTokenize
  <2>1. CASE state = 5
    <3>1. Reject("expected */", curr)
      BY <2>0, <2>1, Zenon DEF EndOfText
    <3>2. QED
      BY <3>1, RejectStep
  <2>2. CASE state # 5
    <3>1. phase' = "classify" /\ UNCHANGED <<source, curr, begin, state, tokens>>
      BY <2>0, <2>2 DEF EndOfText
    <3>2. QED
      BY <3>1 DEF Progress, Ordered
  <2>3. QED
    BY <2>1, <2>2
<1>3. CASE fpTokenize /\ curr <= Len(source)
  <2>0. phase = "tokenize" /\ curr <= Len(source)
    BY <1>3 DEF fpTokenize
  <2>1. ASSUME Cur # "\n"
        PROVE  curr < Len(source) /\ curr + 1 \in 0 .. Len(source)
    BY <1>0, <2>0, <2>1 DEF Cur, Char
  <2>2. ASSUME Cur \in Openers \cup Closers
        PROVE  curr + 1 \in 0 .. Len(source)
    <3>1. Cur # "\n"
      BY <2>2 DEF Openers, Closers
    <3>2. QED
      BY <2>1, <3>1
  <2>3. CASE Between
    <3>0. state = 0 /\ Low = curr
      BY <2>3 DEF Between, Low
    <3>1. ASSUME NEW q \in 0 .. 15, Step(q, <<>>),
                 begin' = curr \/ (q \in {0, 4} /\ UNCHANGED begin)
          PROVE  Progress'
      BY <2>0, <3>1, QuietStep
    <3>2. ASSUME Cur \in Openers \cup Closers, Step(0, <<Span(curr, curr + 1)>>),
                 UNCHANGED begin
          PROVE  Progress'
      <4>1. curr + 1 \in 0 .. Len(source)
        BY <2>2, <3>2
      <4>2. curr < curr + 1 /\ curr + 1 \in Nat
        BY <1>0
      <4> DEFINE ts == <<Span(curr, curr + 1)>>
                 e == curr + 1
      <4>3. ts \in Seq(Token) /\ Ordered(ts, Low, e)
        BY <1>0, <3>0, <4>2, OneSpan
      <4>4. e \in 0 .. Len(source) /\ e <= curr + 1 /\ Low <= e
        BY <1>0, <3>0, <4>1
      <4>5. Step(0, ts) /\ UNCHANGED begin
        BY <3>2
      <4> HIDE DEF ts, e
      <4>6. QED
        BY <2>0, <4>3, <4>4, <4>5, YieldStep
    <3>3. \A c : c \in {2, 3} => c \in 0 .. 15
      OBVIOUS
    <3>4. (IF Cur = "'" THEN 2 ELSE 3) \in 0 .. 15
      OBVIOUS
    <3>5. 0 \in 0 .. 15 /\ 1 \in 0 .. 15 /\ 4 \in 0 .. 15 /\ 5 \in 0 .. 15
      OBVIOUS
    <3>6. QED
      BY <2>3, <3>1, <3>2, <3>4, <3>5, Zenon DEF Between
  <2>4. CASE Word
    <3>0. begin < curr /\ UNCHANGED begin /\ state = 1 /\ Low = begin
      BY <2>4 DEF Word, Progress, Low
    <3>1. CASE Cur \in Blanks /\ Step(0, <<Span(begin, curr)>>)
      <4> DEFINE ts == <<Span(begin, curr)>>
      <4>1. ts \in Seq(Token) /\ Ordered(ts, Low, curr)
        BY <1>0, <3>0, OneSpan
      <4>2. curr \in 0 .. Len(source) /\ curr <= curr + 1 /\ Low <= curr
        BY <1>0, <2>0, <3>0
      <4>3. Step(0, ts) /\ UNCHANGED begin
        BY <3>0, <3>1
      <4> HIDE DEF ts
      <4>4. QED
        BY <2>0, <4>1, <4>2, <4>3, YieldStep
    <3>2. CASE Cur \in Closers /\ Step(0, <<Span(begin, curr), Span(curr, curr + 1)>>)
      <4> DEFINE ts == <<Span(begin, curr), Span(curr, curr + 1)>>
                 e == curr + 1
      <4>1. curr < curr + 1 /\ curr + 1 \in Nat
        BY <1>0
      <4>2. ts \in Seq(Token) /\ Ordered(ts, Low, e)
        BY <1>0, <3>0, <4>1, TwoSpans
      <4>3. e \in 0 .. Len(source) /\ e <= curr + 1 /\ Low <= e
        BY <1>0, <2>2, <3>0, <3>2
      <4>4. Step(0, ts) /\ UNCHANGED begin
        BY <3>0, <3>2
      <4> HIDE DEF ts, e
      <4>5. QED
        BY <2>0, <4>2, <4>3, <4>4, YieldStep
    <3>3. ASSUME Cur # "\n", Step(0, <<Span(begin, curr + 1)>>)
          PROVE  Progress'
      BY <1>0, <2>0, <2>1, <3>0, <3>3, LastSign
    <3>4. CASE Step(1, <<>>)
      <4>1. 1 \in 0 .. 15 /\ state \notin {0, 4}
        BY <3>0
      <4>2. QED
        BY <2>0, <3>0, <3>4, <4>1, QuietStep
    <3>5. Cur \in Openers => Cur # "\n"
      BY DEF Openers
    <3>6. QED
      BY <2>4, <3>1, <3>2, <3>3, <3>4, <3>5, Zenon DEF Word
  <2>5. CASE InString
    <3>0. state \in {2, 3} /\ state \notin {0, 4}
      <4>1. state \in {2, 3}
        BY <2>5, Zenon DEF InString
      <4>2. QED
        BY <4>1
    <3>1. CASE Cur = Delim(state) /\ Step(0, <<Span(begin, curr + 1)>>) /\ UNCHANGED begin
      <4>1. Cur # "\n"
        BY <3>0, <3>1 DEF Delim
      <4>2. QED
        BY <2>0, <2>1, <3>0, <3>1, <4>1, LastSign
    <3>2. ASSUME NEW message, NEW e, Reject(message, e)
          PROVE  Progress'
      BY <3>2, RejectStep
    <3>3. ASSUME NEW q \in 0 .. 15, Step(q, <<>>), UNCHANGED begin
          PROVE  Progress'
      BY <2>0, <3>0, <3>3, QuietStep
    <3>4. state \in 0 .. 15 /\ state + 4 \in 0 .. 15
      BY <3>0
    <3>5. QED
      BY <2>5, <3>1, <3>2, <3>3, <3>4, Zenon DEF InString
  <2>6. CASE InEscape
    <3>0. state \in {6, 7}
      BY <2>6 DEF InEscape
    <3>1. ASSUME NEW message, NEW e, Reject(message, e)
          PROVE  Progress'
      BY <3>1, RejectStep
    <3>2. ASSUME NEW q \in 0 .. 15, Step(q, <<>>), UNCHANGED begin
          PROVE  Progress'
      BY <2>0, <3>0, <3>2, QuietStep
    <3>3. state - 4 \in 0 .. 15 /\ (IF state = 6 THEN 8 ELSE 12) \in 0 .. 15
      BY <3>0
    <3>4. QED
      BY <2>6, <3>1, <3>2, <3>3, Zenon DEF InEscape
  <2>7. CASE InUnicode
    <3>0. state \in 8 .. 15
      BY <2>7 DEF InUnicode
    <3> DEFINE q == CASE state = 11 -> 2 [] state = 15 -> 3 [] OTHER -> state + 1
    <3>1. q \in 0 .. 15
      BY <3>0
    <3>2. CASE Step(q, <<>>) /\ UNCHANGED begin
      <4> HIDE DEF q
      <4>1. QED
        BY <2>0, <3>0, <3>1, <3>2, QuietStep
    <3>3. ASSUME NEW message, NEW e, Reject(message, e)
          PROVE  Progress'
      BY <3>3, RejectStep
    <3>4. QED
      BY <2>7, <3>2, <3>3, Zenon DEF InUnicode
  <2>8. CASE InComment
    <3>0. state \in {4, 5} /\ UNCHANGED begin
      BY <2>8 DEF InComment
    <3>1. CASE Step(0, <<>>)
      BY <2>0, <3>0, <3>1, QuietStep
    <3>2. CASE Step(state, <<>>)
      BY <1>0, <2>0, <3>0, <3>2, QuietStep
    <3>3. QED
      BY <2>8, <3>1, <3>2, Zenon DEF InComment
  <2>9. QED
    BY <1>3, <2>3, <2>4, <2>5, <2>6, <2>7, <2>8, Zenon DEF fpTokenize
<1>4. QED
  BY <1>0, <1>1, <1>2, <1>3

LEMMA ProgressInit == TokenizerInit => Progress
<1> SUFFICES ASSUME TokenizerInit PROVE Progress
  OBVIOUS
<1>1. Len(source) \in Nat
  BY SourcesAssumption DEF TokenizerInit
<1>2. tokens \in Seq(Token) /\ Len(tokens) = 0
  BY EmptySeq DEF TokenizerInit
<1>3. Ordered(tokens, 0, 0) /\ 0 \in 0 .. Len(source)
  BY <1>1, <1>2 DEF Ordered
<1>4. QED
  BY <1>1, <1>2, <1>3 DEF TokenizerInit, Progress

LEMMA ProgressOrders == Progress => TokensInOrder
<1> SUFFICES ASSUME Progress PROVE TokensInOrder
  OBVIOUS
<1>1. Len(source) \in Nat
  BY SourcesAssumption DEF Progress
<1>2. PICK r \in 0 .. Len(source) : Ordered(tokens, 0, r)
  BY DEF Progress
<1>3. \A i \in 1 .. Len(tokens) : tokens[i].begin \in Nat /\ tokens[i].end \in Nat
  <2>1. \A i \in 1 .. Len(tokens) : tokens[i] \in Token
    BY ElementOfSeq DEF Progress
  <2>2. QED
    BY <2>1 DEF Token
<1>4. QED
  BY <1>1, <1>2, <1>3 DEF Ordered, TokensInOrder
-----------------------------------------------------------------------------
(* The lexicon.  Facts about a text s, the next character c, the beginning *)
(* b of the item and the state q.                                          *)

Sign(s, i) == IF i >= Len(s) THEN "\n" ELSE SubSeq(s, i + 1, i + 1)

LineEnd(s, c) == Min({i \in c .. Len(s) : Sign(s, i) = "\n"})

\* ItemBegin
Place(s, c, b, q) ==
  CASE c > Len(s) /\ q # 5 -> c
    [] c <= Len(s) /\ q = 0 -> c
    [] c <= Len(s) /\ q = 4 -> LineEnd(s, c) + 1
    [] OTHER -> b

LEMMA Least ==
  ASSUME NEW S \in SUBSET Int, NEW x \in S, \A y \in S : x <= y
  PROVE  Min(S) = x
<1>1. \A z \in S : (\A y \in S : z <= y) => z = x
  OBVIOUS
<1> DEFINE z == CHOOSE z \in S : \A y \in S : z <= y
<1>2. z \in S /\ \A y \in S : z <= y
  BY Zenon
<1>3. z = x
  <2> HIDE DEF z
  <2> QED BY <1>1, <1>2
<1>4. QED
  BY <1>3, Zenon DEF Min

LEMMA CharIsSign ==
  ASSUME Len(source) \in Nat, NEW i \in 0 .. Len(source)
  PROVE  Char(i) = Sign(source, i)
BY DEF Char, Sign

LEMMA ItemBeginIs ==
  ASSUME Len(source) \in Nat, curr \in Nat
  PROVE  ItemBegin = Place(source, curr, begin, state)
<1>1. {i \in curr .. Len(source) : Char(i) = "\n"}
        = {i \in curr .. Len(source) : Sign(source, i) = "\n"}
  BY CharIsSign
<1>2. QED
  BY <1>1 DEF ItemBegin, Place, LineEnd

LEMMA ItemBeginThen ==
  ASSUME Len(source) \in Nat, source' = source, curr' \in Nat
  PROVE  ItemBegin' = Place(source, curr', begin', state')
<1>1. {i \in curr' .. Len(source) : Char(i) = "\n"}
        = {i \in curr' .. Len(source) : Sign(source, i) = "\n"}
  BY CharIsSign
<1>2. {i \in curr' .. Len(source') : Char(i)' = "\n"}
        = {i \in curr' .. Len(source) : Char(i) = "\n"}
  BY DEF Char
<1>3. QED
  BY <1>1, <1>2 DEF ItemBegin, Place, LineEnd

LEMMA PlaceIs ==
  ASSUME NEW s, Len(s) \in Nat, NEW c \in Nat, NEW b \in Nat, NEW q \in 0 .. 15
  PROVE  /\ c > Len(s) /\ q # 5 => Place(s, c, b, q) = c
         /\ q = 0 => Place(s, c, b, q) = c
         /\ c <= Len(s) /\ q = 4 => Place(s, c, b, q) = LineEnd(s, c) + 1
         /\ q = 5 => Place(s, c, b, q) = b
         /\ c <= Len(s) /\ q \notin {0, 4} => Place(s, c, b, q) = b
BY DEF Place

LEMMA LineEndIs ==
  ASSUME NEW s, Len(s) \in Nat, NEW c \in 0 .. Len(s)
  PROVE  /\ Sign(s, c) = "\n" => LineEnd(s, c) = c
         /\ Sign(s, c) # "\n" => LineEnd(s, c) = LineEnd(s, c + 1)
<1> DEFINE S == {i \in c .. Len(s) : Sign(s, i) = "\n"}
           T == {i \in c + 1 .. Len(s) : Sign(s, i) = "\n"}
<1>1. CASE Sign(s, c) = "\n"
  <2>1. S \in SUBSET Int /\ c \in S /\ \A y \in S : c <= y
    BY <1>1
  <2>2. Min(S) = c
    <3> HIDE DEF S
    <3> QED BY <2>1, Least
  <2>3. QED
    BY <1>1, <2>2 DEF LineEnd
<1>2. CASE Sign(s, c) # "\n"
  <2>1. S = T
    BY <1>2
  <2>2. QED
    BY <1>2, <2>1 DEF LineEnd
<1>3. QED
  BY <1>1, <1>2
-----------------------------------------------------------------------------
(* Strings                                                                 *)

\* E[i] is where the string that begins at b ends if the scan is at i.
IsScan(E, s, b) ==
  LET delim == Sign(s, b)
  IN  E = [i \in b .. Len(s) + 6 |->
        CASE i > Len(s) -> -2
          [] i <= Len(s) /\ Sign(s, i) = delim -> i
          [] i <= Len(s) /\ Sign(s, i) = "\n"  -> -1
          [] i <= Len(s) /\ Sign(s, i) = "\\"  ->
               IF Sign(s, i + 1) \in Escapes
               THEN E[i + 2]
               ELSE IF Sign(s, i + 1) # "u" \/ \E j \in 2 .. 5 : Sign(s, i + j) \in Quotes
               THEN -1
               ELSE E[i + 6]
          [] OTHER -> E[i + 1]]

LEMMA ScanExists ==
  ASSUME NEW s, Len(s) \in Nat, NEW b \in 0 .. Len(s)
  PROVE  \E E : IsScan(E, s, b)
<1> DEFINE S == b .. Len(s) + 6
           V == Int
           Value(g, i) ==
        CASE i > Len(s) -> -2
          [] i <= Len(s) /\ Sign(s, i) = Sign(s, b) -> i
          [] i <= Len(s) /\ Sign(s, i) = "\n"  -> -1
          [] i <= Len(s) /\ Sign(s, i) = "\\"  ->
               IF Sign(s, i + 1) \in Escapes
               THEN g[i + 2]
               ELSE IF Sign(s, i + 1) # "u" \/ \E j \in 2 .. 5 : Sign(s, i + j) \in Quotes
               THEN -1
               ELSE g[i + 6]
          [] OTHER -> g[i + 1]
           G == [g \in [S -> V] |-> [i \in S |-> Value(g, i)]]
           m == [i \in S |-> Len(s) + 6 - i]
<1>1. ASSUME NEW g \in [S -> V], NEW i \in S
      PROVE  Value(g, i) \in V
  <2>1. CASE i > Len(s)
    BY <2>1
  <2>2. CASE i <= Len(s)
    <3>1. i + 1 \in S /\ i + 2 \in S /\ i + 6 \in S /\ i \in Int
      BY <2>2
    <3>2. g[i + 1] \in Int /\ g[i + 2] \in Int /\ g[i + 6] \in Int
      BY <3>1
    <3>3. QED
      BY <2>2, <3>1, <3>2
  <2>3. QED
    BY <2>1, <2>2
<1>2. ASSUME NEW g \in [S -> V], NEW h \in [S -> V], NEW i \in S,
             \A k \in S : m[k] < m[i] => g[k] = h[k]
      PROVE  Value(g, i) = Value(h, i)
  <2>1. CASE i > Len(s)
    BY <2>1
  <2>2. CASE i <= Len(s)
    <3>1. /\ i + 1 \in S /\ m[i + 1] < m[i]
          /\ i + 2 \in S /\ m[i + 2] < m[i]
          /\ i + 6 \in S /\ m[i + 6] < m[i]
      BY <2>2
    <3>2. g[i + 1] = h[i + 1] /\ g[i + 2] = h[i + 2] /\ g[i + 6] = h[i + 6]
      BY <1>2, <3>1
    <3>3. QED
      BY <2>2, <3>2
  <2>3. QED
    BY <2>1, <2>2
<1>3. Recursive(G, S, V, m)
  <2>1. m \in [S -> Nat]
    OBVIOUS
  <2>2. G \in [[S -> V] -> [S -> V]]
    <3> HIDE DEF Value
    <3> QED BY <1>1
  <2>3. ASSUME NEW g \in [S -> V], NEW h \in [S -> V], NEW i \in S,
               \A k \in S : m[k] < m[i] => g[k] = h[k]
        PROVE  G[g][i] = G[h][i]
    <3>1. Value(g, i) = Value(h, i)
      BY <1>2, <2>3
    <3> HIDE DEF Value, m
    <3>2. QED
      BY <3>1
  <2> HIDE DEF G, m, S, V
  <2>4. QED
    BY <2>1, <2>2, <2>3 DEF Recursive
<1>4. PICK E \in [S -> V] : E = G[E]
  <2>1. V # {}
    OBVIOUS
  <2> HIDE DEF G, m, S, V
  <2>2. QED
    BY <1>3, <2>1, RecursionTheorem
<1>5. E = [i \in S |-> Value(E, i)]
  <2> HIDE DEF Value
  <2> QED BY <1>4
<1>6. QED
  BY <1>5, Zenon DEF IsScan

LEMMA StringEndIs ==
  ASSUME Len(source) \in Nat, ItemBegin \in 0 .. Len(source)
  PROVE  \E E : IsScan(E, source, ItemBegin) /\ Items!StringEnd = E[ItemBegin + 1]
<1> DEFINE E == CHOOSE E : IsScan(E, source, ItemBegin)
<1>1. IsScan(E, source, ItemBegin)
  BY ScanExists
<1>2. Items!StringEnd = E[ItemBegin + 1]
  BY Zenon DEF Items!StringEnd, Items!Sign, IsScan, Sign, Escapes, Quotes
<1>3. QED
  BY <1>1, <1>2

\* One turn of the scan at i.
LEMMA ScanIs ==
  ASSUME NEW s, Len(s) \in Nat, NEW b \in 0 .. Len(s), NEW E, IsScan(E, s, b),
         Sign(s, b) \in Quotes, NEW i \in b .. Len(s) + 6
  PROVE  /\ i > Len(s) => E[i] = -2
         /\ i <= Len(s) /\ Sign(s, i) = Sign(s, b) => E[i] = i
         /\ i <= Len(s) /\ Sign(s, i) = "\n" => E[i] = -1
         /\ i <= Len(s) /\ Sign(s, i) \notin {Sign(s, b), "\\", "\n"} => E[i] = E[i + 1]
         /\ i <= Len(s) /\ Sign(s, i) = "\\" =>
              /\ Sign(s, i + 1) \in Escapes => E[i] = E[i + 2]
              /\ Sign(s, i + 1) \notin Escapes \cup {"u"} => E[i] = -1
              /\ Sign(s, i + 1) = "u" =>
                   /\ (\E j \in 2 .. 5 : Sign(s, i + j) \in Quotes) => E[i] = -1
                   /\ (\A j \in 2 .. 5 : Sign(s, i + j) \notin Quotes) => E[i] = E[i + 6]
<1> DEFINE d == Sign(s, b)
           a == Sign(s, i)
           z == Sign(s, i + 1)
           bad == \E j \in 2 .. 5 : Sign(s, i + j) \in Quotes
<1>1. d \in {"'", "\""} /\ d # "\n" /\ d # "\\"
  BY DEF Quotes
<1>2. "u" \notin Escapes
  BY DEF Escapes
<1>3. E[i] = CASE i > Len(s) -> -2
               [] i <= Len(s) /\ a = d -> i
               [] i <= Len(s) /\ a = "\n"  -> -1
               [] i <= Len(s) /\ a = "\\"  -> IF z \in Escapes THEN E[i + 2]
                                             ELSE IF z # "u" \/ bad THEN -1 ELSE E[i + 6]
               [] OTHER -> E[i + 1]
  BY DEF IsScan
<1>4. bad <=> ~\A j \in 2 .. 5 : Sign(s, i + j) \notin Quotes
  OBVIOUS
<1>5. i \in Int
  OBVIOUS
<1> HIDE DEF d, a, z, bad
<1>6. CASE i > Len(s)
  <2>1. ~(i <= Len(s))
    BY <1>5, <1>6
  <2>2. E[i] = -2
    BY <1>3, <1>6, <2>1
  <2>3. QED
    BY <2>1, <2>2, Zenon
<1>7. CASE i <= Len(s)
  <2>1. ~(i > Len(s))
    BY <1>5, <1>7
  <2>2. /\ a = d => E[i] = i
        /\ a = "\n" => E[i] = -1
        /\ a \notin {d, "\\", "\n"} => E[i] = E[i + 1]
        /\ a = "\\" /\ z \in Escapes => E[i] = E[i + 2]
        /\ a = "\\" /\ z \notin Escapes \cup {"u"} => E[i] = -1
        /\ a = "\\" /\ z = "u" /\ bad => E[i] = -1
        /\ a = "\\" /\ z = "u" /\ ~bad => E[i] = E[i + 6]
    BY <1>1, <1>2, <1>3, <1>7, <2>1
  <2>3. QED
    BY <1>4, <1>7, <2>1, <2>2, Zenon DEF d, a, z
<1>8. QED
  BY <1>5, <1>6, <1>7
-----------------------------------------------------------------------------
(* The invariant of the refinement                                         *)

Special == Blanks \cup Openers \cup Closers

\* The item that begins at b, as far as it has been read.
WordSoFar(s, c, b) ==
  /\ Sign(s, b) \notin Special \cup Quotes
  /\ ~(Sign(s, b) = "/" /\ b + 1 < Len(s) /\ Sign(s, b + 1) \in {"/", "*"})
  /\ \A j \in b + 1 .. c - 1 : Sign(s, j) \notin Special

CommentSoFar(s, c, b) ==
  /\ Sign(s, b) = "/" /\ b + 1 < Len(s) /\ Sign(s, b + 1) = "*"
  /\ \A j \in b + 2 .. c - 1 : j < Len(s) => ~(Sign(s, j) = "/" /\ Sign(s, j - 1) = "*")

\* The scan of a string is at i when k of the four characters after \u are read.
InScan(s, i, k, b, E) ==
  /\ b < i /\ E[i] = E[b + 1]
  /\ Sign(s, i) = "\\" /\ Sign(s, i + 1) = "u"
  /\ \A j \in 2 .. k + 1 : Sign(s, i + j) \notin Quotes

StringSoFar(s, c, b, q) ==
  /\ Sign(s, b) = Delim(q)
  /\ \A E : IsScan(E, s, b) =>
       /\ q \in {2, 3} => E[c] = E[b + 1]
       /\ q \in {6, 7} => b < c - 1 /\ Sign(s, c - 1) = "\\" /\ E[c - 1] = E[b + 1]
       /\ q \in 8 .. 11 => InScan(s, c + 6 - q, q - 8, b, E)
       /\ q \in 12 .. 15 => InScan(s, c + 10 - q, q - 12, b, E)

Scanned(s, c, b, q) ==
  /\ q = 1 => WordSoFar(s, c, b)
  /\ q = 4 => c <= Len(s)
  /\ q = 5 => CommentSoFar(s, c, b)
  /\ q \in {2, 3} \cup 6 .. 15 => StringSoFar(s, c, b, q)

LexInv ==
  /\ Progress
  /\ phase = "tokenize" => errors = <<>> /\ Scanned(source, curr, begin, state)

\* A character is about to be read.
Reading ==
  /\ LexInv /\ phase = "tokenize"
  /\ Len(source) \in Nat /\ curr \in 0 .. Len(source) /\ begin \in Nat
  /\ state \in 0 .. 15

Refines == Items!LexiconNext \/ UNCHANGED Items!lvars
-----------------------------------------------------------------------------
(* Steps of the lexicon                                                    *)

LEMMA ReadIs ==
  ASSUME Reading, NEW q \in 0 .. 15, NEW ys, Step(q, ys), begin' \in Nat,
         NEW next, Place(source, curr + 1, begin', q) = next
  PROVE  Items!Read(ys, next)
<1>1. /\ source' = source /\ curr' = curr + 1 /\ state' = q /\ tokens' = tokens \o ys
      /\ errors' = errors /\ phase' = phase /\ phase = "tokenize"
  BY DEF Step, Reading
<1>2. Len(source) \in Nat /\ curr \in Nat /\ curr' \in Nat
  BY <1>1 DEF Reading
<1>3. ItemBegin' = next
  BY <1>1, <1>2, ItemBeginThen
<1>4. Verdict' = Verdict
  BY <1>1 DEF Verdict
<1>5. QED
  BY <1>1, <1>3, <1>4 DEF Items!Read

LEMMA StayIs ==
  ASSUME Reading, NEW q \in 0 .. 15, Step(q, <<>>), begin' \in Nat,
         Place(source, curr + 1, begin', q) = Place(source, curr, begin, state)
  PROVE  Refines
<1>1. /\ source' = source /\ curr' = curr + 1 /\ state' = q /\ tokens' = tokens \o <<>>
      /\ errors' = errors /\ phase' = phase /\ phase = "tokenize"
  BY DEF Step, Reading
<1>2. Len(source) \in Nat /\ curr \in Nat /\ curr' \in Nat
  BY <1>1 DEF Reading
<1>3. ItemBegin' = ItemBegin
  BY <1>1, <1>2, ItemBeginIs, ItemBeginThen
<1>4. Verdict' = Verdict
  BY <1>1 DEF Verdict
<1>5. tokens' = tokens
  BY <1>1, ConcatEmptySeq DEF Reading, LexInv, Progress
<1>6. QED
  BY <1>1, <1>3, <1>4, <1>5 DEF Refines, Items!lvars

LEMMA RefusedIs ==
  ASSUME LexInv, phase = "tokenize", NEW message \in LexicalErrors, NEW e, Reject(message, e)
  PROVE  Items!Refused
<1>1. Len(source) \in Nat /\ curr \in Nat /\ errors = <<>>
  BY SourcesAssumption DEF LexInv, Progress
<1>2. /\ source' = source /\ curr' = curr /\ begin' = begin /\ state' = state
      /\ phase' = "classify" /\ tokens' = <<>>
      /\ errors' = Append(errors, [message |-> message, range |-> Span(begin, e)])
  BY DEF Reject
<1>3. ItemBegin' = ItemBegin
  BY <1>1, <1>2, ItemBeginIs, ItemBeginThen
<1>4. ~Lexed'
  <2> DEFINE x == [message |-> message, range |-> Span(begin, e)]
  <2>1. errors' = <<x>> /\ x.message \in LexicalErrors
    BY <1>1, <1>2
  <2> HIDE DEF x
  <2>2. 1 \in DOMAIN errors' /\ errors'[1] = x
    BY <2>1
  <2>3. QED
    BY <2>1, <2>2 DEF Lexed
<1>5. Verdict' = "rejected"
  BY <1>2, <1>4 DEF Verdict
<1>6. QED
  BY <1>2, <1>3, <1>5 DEF Items!Refused

LEMMA ItemStep ==
  ASSUME Reading, ItemBegin \in 0 .. Len(source),
         \/ Items!SkipBlank \/ Items!OneBracket \/ Items!OneWord \/ Items!OneString
         \/ Items!LineComment \/ Items!BlockComment
  PROVE  Refines
<1>1. Verdict = "reading"
  BY DEF Reading, Verdict
<1>2. ~(ItemBegin > Len(source))
  BY DEF Reading
<1>3. QED
  BY <1>1, <1>2 DEF Refines, Items!LexiconNext

LEMMA SameMin ==
  ASSUME NEW S
  PROVE  Items!Min(S) = Min(S)
BY Zenon DEF Items!Min, Min

LEMMA FirstIs ==
  ASSUME Len(source) \in Nat, NEW S, NEW i \in Nat, NEW x \in i .. Len(source),
         Sign(source, x) \in S, \A j \in i .. x - 1 : Sign(source, j) \notin S
  PROVE  Items!FirstOf(S, i) = x
<1> DEFINE T == {j \in i .. Len(source) : Items!Sign(j) \in S}
<1>1. T \in SUBSET Int /\ x \in T
  BY DEF Items!Sign, Sign
<1>2. ASSUME NEW y \in T
      PROVE  x <= y
  <2>1. y \in i .. Len(source) /\ Sign(source, y) \in S
    BY DEF Items!Sign, Sign
  <2>2. QED
    BY <2>1
<1>3. Min(T) = x
  <2> HIDE DEF T
  <2> QED BY <1>1, <1>2, Least
<1>4. QED
  BY <1>3, SameMin DEF Items!FirstOf

LEMMA NewlineIs ==
  ASSUME Len(source) \in Nat, NEW i \in Nat
  PROVE  Items!FirstOf({"\n"}, i) = LineEnd(source, i)
<1>1. {j \in i .. Len(source) : Items!Sign(j) \in {"\n"}}
        = {j \in i .. Len(source) : Sign(source, j) = "\n"}
  BY DEF Items!Sign, Sign
<1>2. QED
  BY <1>1, SameMin DEF Items!FirstOf, LineEnd

\* What an action has to show.
Follows ==
  /\ Refines
  /\ phase' = "tokenize" => errors' = <<>> /\ Scanned(source', curr', begin', state')

LEMMA StepFollows ==
  ASSUME Reading, NEW q \in 0 .. 15, NEW ys, Step(q, ys),
         Refines, Scanned(source, curr + 1, begin', q)
  PROVE  Follows
BY DEF Follows, Step, Reading, LexInv

LEMMA RejectFollows ==
  ASSUME Reading, ItemBegin \in 0 .. Len(source),
         NEW message \in LexicalErrors, NEW e, Reject(message, e),
         Items!Refused => Items!OneString \/ Items!BlockComment
  PROVE  Follows
<1>1. Items!Refused
  BY RefusedIs DEF Reading
<1>2. Refines
  BY <1>1, ItemStep
<1>3. phase' # "tokenize"
  BY DEF Reject
<1>4. QED
  BY <1>2, <1>3 DEF Follows
-----------------------------------------------------------------------------
(* The actions                                                             *)

LEMMA CurIs ==
  ASSUME Reading
  PROVE  /\ Cur = Sign(source, curr)
         /\ HasMore <=> curr + 1 < Len(source)
         /\ HasMore => Ahead = Sign(source, curr + 1)
         /\ Sign(source, curr) # "\n" => curr < Len(source)
         /\ \A i : Items!Sign(i) = Sign(source, i)
<1>1. Len(source) \in Nat /\ curr \in 0 .. Len(source)
  BY DEF Reading
<1>2. Cur = Sign(source, curr)
  BY <1>1, CharIsSign DEF Cur
<1>3. HasMore => curr + 1 \in 0 .. Len(source)
  BY <1>1 DEF HasMore
<1>4. HasMore => Ahead = Sign(source, curr + 1)
  BY <1>1, <1>3, CharIsSign DEF Ahead
<1>5. Sign(source, curr) # "\n" => curr < Len(source)
  BY <1>1 DEF Sign
<1>6. \A i : Items!Sign(i) = Sign(source, i)
  BY DEF Items!Sign, Sign
<1>7. QED
  BY <1>2, <1>4, <1>5, <1>6 DEF HasMore

LEMMA DelimIs ==
  /\ \A q \in {2, 6} \cup 8 .. 11 : Delim(q) = "'"
  /\ \A q \in {3, 7} \cup 12 .. 15 : Delim(q) = "\""
BY DEF Delim

LEMMA BetweenFollows ==
  ASSUME Reading, Between
  PROVE  Follows
<1> DEFINE a == Sign(source, curr)
<1>1. /\ Len(source) \in Nat /\ curr \in Nat /\ curr <= Len(source) /\ begin \in Nat
      /\ state = 0
  BY DEF Reading, Between
<1>2. ItemBegin = curr /\ Place(source, curr, begin, state) = curr
  BY <1>1, ItemBeginIs, PlaceIs
<1>3. /\ Cur = a
      /\ HasMore <=> curr + 1 < Len(source)
      /\ HasMore => Ahead = Sign(source, curr + 1)
      /\ a # "\n" => curr + 1 <= Len(source)
      /\ \A i : Items!Sign(i) = Sign(source, i)
  BY <1>1, CurIs
<1>4. 0 \in 0 .. 15 /\ 1 \in 0 .. 15 /\ 2 \in 0 .. 15 /\ 3 \in 0 .. 15 /\ 4 \in 0 .. 15 /\ 5 \in 0 .. 15
  OBVIOUS
<1>5. ItemBegin \in 0 .. Len(source) /\ curr + 1 \in Nat
  BY <1>1, <1>2
<1> HIDE DEF a
<1>6. CASE a \in Quotes /\ begin' = curr /\ Step(IF a = "'" THEN 2 ELSE 3, <<>>)
  <2> DEFINE q == IF a = "'" THEN 2 ELSE 3
  <2>1. q \in {2, 3} /\ q \in 0 .. 15 /\ a = Delim(q) /\ a # "\n"
    <3>1. CASE a = "'"
      <4>1. q = 2
        BY <3>1
      <4>2. QED
        BY <1>4, <3>1, <4>1, DelimIs
    <3>2. CASE a = "\""
      <4>1. q = 3
        BY <3>2
      <4>2. QED
        BY <1>4, <3>2, <4>1, DelimIs
    <3>3. QED
      BY <1>6, <3>1, <3>2 DEF Quotes
  <2>2. Step(q, <<>>)
    BY <1>6
  <2> HIDE DEF q
  <2>3. Place(source, curr + 1, curr, q) = curr
    BY <1>1, <1>3, <2>1, PlaceIs
  <2>4. Refines
    BY <1>1, <1>2, <1>6, <2>1, <2>2, <2>3, StayIs
  <2>5. StringSoFar(source, curr + 1, curr, q)
    BY <2>1 DEF StringSoFar, a
  <2>6. Scanned(source, curr + 1, curr, q)
    BY <2>1, <2>5 DEF Scanned
  <2>7. QED
    BY <1>6, <2>1, <2>2, <2>4, <2>6, StepFollows
<1>7. CASE a = "/" /\ HasMore /\ Ahead = "/" /\ Step(4, <<>>) /\ UNCHANGED begin
  <2>1. curr + 1 \in 0 .. Len(source)
    BY <1>1, <1>3, <1>7
  <2>2. /\ Place(source, curr + 1, begin, 4) = LineEnd(source, curr + 1) + 1
        /\ LineEnd(source, curr) = LineEnd(source, curr + 1)
    BY <1>1, <1>4, <1>7, <2>1, PlaceIs, LineEndIs DEF a
  <2>3. Items!FirstOf({"\n"}, curr) = LineEnd(source, curr)
    BY <1>1, NewlineIs
  <2>4. begin' \in Nat
    BY <1>1, <1>7
  <2>5. Items!Read(<<>>, LineEnd(source, curr + 1) + 1)
    BY <1>4, <1>7, <2>2, <2>4, ReadIs
  <2>6. Items!LineComment
    <3>1. Items!CommentSign = "/"
      BY <1>2, <1>3, <1>7 DEF Items!CommentSign, a
    <3>2. QED
      BY <1>2, <2>2, <2>3, <2>5, <3>1 DEF Items!LineComment
  <2>7. Refines
    BY <1>5, <2>6, ItemStep
  <2>8. Scanned(source, curr + 1, begin', 4)
    BY <2>1 DEF Scanned
  <2>9. QED
    BY <1>4, <1>7, <2>7, <2>8, StepFollows
<1>8. CASE a = "/" /\ HasMore /\ Ahead = "*" /\ begin' = curr /\ Step(5, <<>>)
  <2>1. Place(source, curr + 1, curr, 5) = curr
    BY <1>1, <1>4, <1>5, PlaceIs
  <2>2. Refines
    BY <1>1, <1>2, <1>4, <1>8, <2>1, StayIs
  <2>3. CommentSoFar(source, curr + 1, curr)
    <3>1. \A j \in curr + 2 .. (curr + 1) - 1 : FALSE
      BY <1>1
    <3>2. QED
      BY <1>3, <1>8, <3>1 DEF CommentSoFar, a
  <2>4. Scanned(source, curr + 1, curr, 5)
    BY <2>3 DEF Scanned
  <2>5. QED
    BY <1>4, <1>8, <2>2, <2>4, StepFollows
<1>9. CASE a \in Openers \cup Closers /\ Step(0, <<Span(curr, curr + 1)>>) /\ UNCHANGED begin
  <2>1. Place(source, curr + 1, begin', 0) = curr + 1 /\ begin' \in Nat
    BY <1>1, <1>4, <1>5, <1>9, PlaceIs
  <2>2. Items!Read(<<Span(curr, curr + 1)>>, curr + 1)
    BY <1>4, <1>9, <2>1, ReadIs
  <2>3. Items!Item(curr, curr + 1) = Span(curr, curr + 1)
    BY DEF Items!Item, Span
  <2>4. Items!OneBracket
    BY <1>2, <1>3, <1>9, <2>2, <2>3
       DEF Items!OneBracket, Items!Opening, Items!Closing, Openers, Closers, a
  <2>5. Refines
    BY <1>5, <2>4, ItemStep
  <2>6. Scanned(source, curr + 1, begin', 0)
    BY DEF Scanned
  <2>7. QED
    BY <1>4, <1>9, <2>5, <2>6, StepFollows
<1>10. CASE a \in Blanks /\ Step(0, <<>>) /\ UNCHANGED begin
  <2>1. Place(source, curr + 1, begin', 0) = curr + 1 /\ begin' \in Nat
    BY <1>1, <1>4, <1>5, <1>10, PlaceIs
  <2>2. Items!Read(<<>>, curr + 1)
    BY <1>4, <1>10, <2>1, ReadIs
  <2>3. Items!SkipBlank
    BY <1>2, <1>3, <1>10, <2>2 DEF Items!SkipBlank, Items!Blank, Blanks, a
  <2>4. Refines
    BY <1>5, <2>3, ItemStep
  <2>5. Scanned(source, curr + 1, begin', 0)
    BY DEF Scanned
  <2>6. QED
    BY <1>4, <1>10, <2>4, <2>5, StepFollows
<1>11. CASE /\ a \notin Quotes \cup Openers \cup Closers \cup Blanks
            /\ ~(a = "/" /\ HasMore /\ Ahead \in {"/", "*"})
            /\ begin' = curr /\ Step(1, <<>>)
  <2>1. a # "\n"
    BY <1>11 DEF Blanks
  <2>2. Place(source, curr + 1, curr, 1) = curr
    BY <1>1, <1>3, <1>4, <1>5, <2>1, PlaceIs
  <2>3. Refines
    BY <1>1, <1>2, <1>4, <1>11, <2>2, StayIs
  <2>4. WordSoFar(source, curr + 1, curr)
    <3>1. \A j \in curr + 1 .. (curr + 1) - 1 : FALSE
      BY <1>1
    <3>2. QED
      BY <1>3, <1>11, <3>1 DEF WordSoFar, Special, a
  <2>5. Scanned(source, curr + 1, curr, 1)
    BY <2>4 DEF Scanned
  <2>6. QED
    BY <1>4, <1>11, <2>3, <2>5, StepFollows
<1>12. QED
  BY <1>3, <1>6, <1>7, <1>8, <1>9, <1>10, <1>11, Zenon DEF Between

\* A word ends at curr with the tokens ys.
LEMMA WordEnds ==
  ASSUME Reading, state = 1, Sign(source, curr) \in Special,
         NEW ys, Step(0, ys), UNCHANGED begin,
         ys = CASE Sign(source, curr) \in Blanks  -> <<Span(begin, curr)>>
                [] Sign(source, curr) \in Openers -> <<Span(begin, curr + 1)>>
                [] Sign(source, curr) \in Closers -> <<Span(begin, curr), Span(curr, curr + 1)>>
  PROVE  Follows
<1>1. /\ Len(source) \in Nat /\ curr \in Nat /\ curr <= Len(source) /\ begin \in Nat
      /\ curr + 1 \in Nat
      /\ begin' \in Nat /\ 0 \in 0 .. 15
  BY DEF Reading
<1>2. WordSoFar(source, curr, begin) /\ begin < curr
  BY DEF Reading, LexInv, Scanned, Progress
<1>3. ItemBegin = begin /\ ItemBegin \in 0 .. Len(source)
  <2>1. 1 \in 0 .. 15 /\ 1 \notin {0, 4}
    OBVIOUS
  <2>2. Place(source, curr, begin, 1) = begin
    BY <1>1, <2>1, PlaceIs
  <2>3. QED
    BY <1>1, <1>2, <2>2, ItemBeginIs
<1>4. \A i : Items!Sign(i) = Sign(source, i)
  BY CurIs
<1> DEFINE All == Items!Blank \cup Items!Opening \cup Items!Closing
<1>5. All = Special
  BY DEF Items!Blank, Items!Opening, Items!Closing, Special, Blanks, Openers, Closers
<1>6. Items!FirstOf(All, begin + 1) = curr
  <2>1. /\ begin + 1 \in Nat /\ curr \in begin + 1 .. Len(source)
        /\ \A j \in begin + 1 .. curr - 1 : Sign(source, j) \notin Special
    BY <1>1, <1>2 DEF WordSoFar
  <2> HIDE DEF All
  <2>2. QED
    BY <1>1, <1>5, <2>1, FirstIs
<1>7. /\ Items!Sign(begin) \notin All \cup {"'", "\""}
      /\ Items!CommentSign \notin {"/", "*"}
  <2>1. Items!Sign(begin) \notin All \cup {"'", "\""}
    BY <1>2, <1>4, <1>5 DEF WordSoFar, Quotes
  <2>2. Items!CommentSign = IF Sign(source, begin) = "/" /\ begin + 1 < Len(source)
                            THEN Sign(source, begin + 1) ELSE "none"
    BY <1>3, <1>4 DEF Items!CommentSign
  <2>3. QED
    BY <1>2, <2>1, <2>2 DEF WordSoFar
<1>8. Items!Read(ys, curr + 1)
  <2>1. Place(source, curr + 1, begin', 0) = curr + 1
    BY <1>1, PlaceIs
  <2>2. QED
    BY <1>1, <2>1, ReadIs
<1>9. ys = CASE Items!Sign(curr) \in Items!Blank   -> <<Items!Item(begin, curr)>>
             [] Items!Sign(curr) \in Items!Opening -> <<Items!Item(begin, curr + 1)>>
             [] Items!Sign(curr) \in Items!Closing ->
                  <<Items!Item(begin, curr), Items!Item(curr, curr + 1)>>
  <2>1. \A b, e : Items!Item(b, e) = Span(b, e)
    BY DEF Items!Item, Span
  <2>2. Items!Blank = Blanks /\ Items!Opening = Openers /\ Items!Closing = Closers
    BY DEF Items!Blank, Items!Opening, Items!Closing, Blanks, Openers, Closers
  <2>3. QED
    BY <1>4, <2>1, <2>2
<1>10. Items!OneWord
  BY <1>3, <1>6, <1>7, <1>8, <1>9, Zenon DEF Items!OneWord
<1>11. Refines
  BY <1>3, <1>10, ItemStep
<1>12. Scanned(source, curr + 1, begin', 0)
  BY DEF Scanned
<1>13. QED
  BY <1>1, <1>11, <1>12, StepFollows

LEMMA WordFollows ==
  ASSUME Reading, Word
  PROVE  Follows
<1> DEFINE a == Sign(source, curr)
<1>1. Reading /\ state = 1 /\ UNCHANGED begin /\ Cur = a
  BY CurIs DEF Word
<1>2. /\ Blanks \cap Openers = {} /\ Blanks \cap Closers = {} /\ Openers \cap Closers = {}
      /\ Blanks \subseteq Special /\ Openers \subseteq Special /\ Closers \subseteq Special
  BY DEF Blanks, Openers, Closers, Special
<1>3. CASE a \in Blanks /\ Step(0, <<Span(begin, curr)>>)
  BY <1>1, <1>2, <1>3, WordEnds
<1>4. CASE a \in Closers /\ Step(0, <<Span(begin, curr), Span(curr, curr + 1)>>)
  BY <1>1, <1>2, <1>4, WordEnds
<1>5. CASE a \in Openers /\ Step(0, <<Span(begin, curr + 1)>>)
  BY <1>1, <1>2, <1>5, WordEnds
<1>6. CASE a \notin Blanks \cup Closers \cup Openers /\ Step(1, <<>>)
  <2>1. /\ Len(source) \in Nat /\ curr \in Nat /\ begin \in Nat /\ curr < Len(source)
        /\ 1 \in 0 .. 15 /\ 1 \notin {0, 4} /\ curr + 1 \in Nat
    <3>1. a # "\n"
      BY <1>6 DEF Blanks
    <3>2. QED
      BY <3>1, CurIs DEF Reading
  <2>2. /\ Place(source, curr, begin, 1) = begin
        /\ Place(source, curr + 1, begin, 1) = begin
    BY <2>1, PlaceIs
  <2>3. Refines
    BY <1>1, <1>6, <2>1, <2>2, StayIs
  <2>4. WordSoFar(source, curr, begin) /\ begin < curr
    BY <1>1 DEF Reading, LexInv, Scanned, Progress
  <2>5. WordSoFar(source, curr + 1, begin)
    <3>1. \A j \in begin + 1 .. (curr + 1) - 1 : j \in begin + 1 .. curr - 1 \/ j = curr
      BY <2>1
    <3>2. a \notin Special
      BY <1>6 DEF Special
    <3>3. QED
      BY <2>4, <3>1, <3>2 DEF WordSoFar
  <2>6. Scanned(source, curr + 1, begin', 1)
    BY <1>1, <2>5 DEF Scanned
  <2>7. QED
    BY <1>6, <2>1, <2>3, <2>6, StepFollows
<1>7. QED
  BY <1>1, <1>3, <1>4, <1>5, <1>6, Zenon DEF Word

\* The states inside a string.
Quoting == {2, 3} \cup 6 .. 15

LEMMA QuotingIs ==
  ASSUME Reading, state \in Quoting
  PROVE  /\ Len(source) \in Nat /\ curr \in Nat /\ curr <= Len(source) /\ curr + 1 \in Nat
         /\ begin \in Nat /\ begin < curr /\ begin \in 0 .. Len(source)
         /\ ItemBegin = begin /\ Place(source, curr, begin, state) = begin
         /\ StringSoFar(source, curr, begin, state)
         /\ Sign(source, begin) = Delim(state) /\ Sign(source, begin) \in Quotes
         /\ \E E : IsScan(E, source, begin) /\ Items!StringEnd = E[begin + 1]
<1>1. /\ Len(source) \in Nat /\ curr \in Nat /\ curr <= Len(source) /\ curr + 1 \in Nat
      /\ begin \in Nat /\ state \in 0 .. 15 /\ state \notin {0, 4}
  BY DEF Reading, Quoting
<1>2. begin < curr /\ begin \in 0 .. Len(source)
  BY <1>1 DEF Reading, LexInv, Progress
<1>3. Place(source, curr, begin, state) = begin
  BY <1>1, PlaceIs
<1>4. ItemBegin = begin
  BY <1>1, <1>3, ItemBeginIs
<1>5. StringSoFar(source, curr, begin, state)
  BY DEF Reading, LexInv, Scanned, Quoting
<1>6. Sign(source, begin) = Delim(state)
  BY <1>5, Zenon DEF StringSoFar
<1>7. Delim(state) \in Quotes
  BY DEF Delim, Quotes
<1>8. \E E : IsScan(E, source, begin) /\ Items!StringEnd = E[begin + 1]
  BY <1>1, <1>2, <1>4, StringEndIs
<1>9. QED
  BY <1>1, <1>2, <1>3, <1>4, <1>5, <1>6, <1>7, <1>8

\* A string goes on.
LEMMA StringStays ==
  ASSUME Reading, state \in Quoting, NEW q \in Quoting, Step(q, <<>>), UNCHANGED begin,
         curr < Len(source), StringSoFar(source, curr + 1, begin, q)
  PROVE  Follows
<1>1. /\ Len(source) \in Nat /\ curr \in Nat /\ begin \in Nat /\ begin' = begin
      /\ Place(source, curr, begin, state) = begin
  BY QuotingIs
<1>2. q \in 0 .. 15 /\ q \notin {0, 4} /\ curr + 1 \in Nat /\ curr + 1 <= Len(source)
  BY <1>1 DEF Quoting
<1>3. Place(source, curr + 1, begin', q) = begin
  BY <1>1, <1>2 DEF Place
<1>4. Refines
  BY <1>1, <1>2, <1>3, StayIs
<1>5. q \notin {1, 4, 5}
  BY DEF Quoting
<1>6. Scanned(source, curr + 1, begin', q)
  BY <1>1, <1>5, Zenon DEF Scanned
<1>7. QED
  BY <1>2, <1>4, <1>6, StepFollows

\* A string is refused.
LEMMA StringRefused ==
  ASSUME Reading, state \in Quoting, NEW message \in LexicalErrors, NEW e, Reject(message, e),
         LET z == Items!StringEnd
         IN  \/ z = -1
             \/ /\ z \notin {-1, -2}
                /\ z + 1 < Len(source) /\ Sign(source, z + 1) \notin Blanks \cup Closers
  PROVE  Follows
<1>1. /\ ItemBegin = begin /\ ItemBegin \in 0 .. Len(source)
      /\ Sign(source, begin) \in Quotes
  BY QuotingIs
<1>2. \A i : Items!Sign(i) = Sign(source, i)
  BY CurIs
<1>3. Items!Blank = Blanks /\ Items!Closing = Closers
  BY DEF Items!Blank, Items!Closing, Blanks, Closers
<1>4. Items!Refused => Items!OneString
  <2>1. Items!Sign(ItemBegin) \in {"'", "\""}
    BY <1>1, <1>2 DEF Quotes
  <2> DEFINE z == Items!StringEnd
  <2>2. \/ z = -1
        \/ /\ z \notin {-1, -2}
           /\ z + 1 < Len(source) /\ Items!Sign(z + 1) \notin Items!Blank \cup Items!Closing
    BY <1>2, <1>3
  <2>3. SUFFICES ASSUME Items!Refused
                 PROVE  CASE z = -1 -> Items!Refused
                          [] z = -2 -> Items!Read(<<>>, Len(source) + 1)
                          [] OTHER  ->
                               IF z + 1 < Len(source)
                                  /\ Items!Sign(z + 1) \notin Items!Blank \cup Items!Closing
                               THEN Items!Refused
                               ELSE Items!Read(<<Items!Item(ItemBegin, z + 1)>>, z + 1)
    BY <2>1, Zenon DEF Items!OneString
  <2> HIDE DEF z
  <2>4. -1 # -2
    OBVIOUS
  <2>5. QED
    BY <2>2, <2>3, <2>4
<1>5. QED
  BY <1>1, <1>4, RejectFollows

\* A string is read.
LEMMA StringEnds ==
  ASSUME Reading, state \in Quoting, Step(0, <<Span(begin, curr + 1)>>), UNCHANGED begin,
         Items!StringEnd = curr,
         curr + 1 < Len(source) => Sign(source, curr + 1) \in Blanks \cup Closers
  PROVE  Follows
<1>1. /\ ItemBegin = begin /\ ItemBegin \in 0 .. Len(source) /\ begin' \in Nat
      /\ Sign(source, begin) \in Quotes
      /\ Len(source) \in Nat /\ curr \in Nat /\ curr + 1 \in Nat
  BY QuotingIs
<1>2. \A i : Items!Sign(i) = Sign(source, i)
  BY CurIs
<1>3. /\ Items!Blank = Blanks /\ Items!Closing = Closers
      /\ Items!Item(begin, curr + 1) = Span(begin, curr + 1)
  BY DEF Items!Blank, Items!Closing, Blanks, Closers, Items!Item, Span
<1>4. 0 \in 0 .. 15 /\ Place(source, curr + 1, begin', 0) = curr + 1
  BY <1>1, PlaceIs
<1>5. Items!Read(<<Span(begin, curr + 1)>>, curr + 1)
  BY <1>1, <1>4, ReadIs
<1>6. Items!OneString
  <2>1. Items!Sign(ItemBegin) \in {"'", "\""}
    BY <1>1, <1>2 DEF Quotes
  <2> DEFINE z == Items!StringEnd
  <2>2. z = curr /\ z # -1 /\ z # -2
    BY <1>1
  <2>3. ~(z + 1 < Len(source) /\ Items!Sign(z + 1) \notin Items!Blank \cup Items!Closing)
    BY <1>2, <1>3
  <2>4. Items!Read(<<Items!Item(ItemBegin, z + 1)>>, z + 1)
    BY <1>1, <1>3, <1>5
  <2>5. QED
    BY <2>1, <2>2, <2>3, <2>4, Zenon DEF Items!OneString
<1>7. Refines
  BY <1>1, <1>6, ItemStep
<1>8. Scanned(source, curr + 1, begin', 0)
  BY DEF Scanned
<1>9. QED
  BY <1>4, <1>7, <1>8, StepFollows

\* The states of a string, of an escape in it and of the four characters.
LEMMA QuotingStates ==
  /\ \A q \in {2, 3} : /\ q \in Quoting /\ q + 4 \in Quoting /\ q + 4 \in {6, 7}
                        /\ Delim(q + 4) = Delim(q)
  /\ \A q \in {6, 7} : /\ q \in Quoting /\ q - 4 \in Quoting /\ q - 4 \in {2, 3}
                        /\ Delim(q - 4) = Delim(q)
  /\ 8 \in Quoting /\ Delim(6) = Delim(8) /\ 12 \in Quoting /\ Delim(7) = Delim(12)
<1>1. 2 + 4 = 6 /\ 3 + 4 = 7 /\ 6 - 4 = 2 /\ 7 - 4 = 3
  OBVIOUS
<1>2. \A q \in {2, 3, 6, 7, 8, 12} : q \in Quoting
  BY DEF Quoting
<1>3. /\ Delim(2) = "'" /\ Delim(6) = "'" /\ Delim(8) = "'"
      /\ Delim(3) = "\"" /\ Delim(7) = "\"" /\ Delim(12) = "\""
  <2>1. /\ 2 \in {2, 6} \cup 8 .. 11 /\ 6 \in {2, 6} \cup 8 .. 11 /\ 8 \in {2, 6} \cup 8 .. 11
        /\ 3 \in {3, 7} \cup 12 .. 15 /\ 7 \in {3, 7} \cup 12 .. 15 /\ 12 \in {3, 7} \cup 12 .. 15
    OBVIOUS
  <2>2. QED
    BY <2>1, DelimIs, Zenon
<1>4. QED
  BY <1>1, <1>2, <1>3

LEMMA EscapeSoFar ==
  ASSUME NEW s, NEW c, NEW b, NEW q \in {6, 7}, Sign(s, b) = Delim(q),
         \A E : IsScan(E, s, b) =>
           b < c - 1 /\ Sign(s, c - 1) = "\\" /\ E[c - 1] = E[b + 1]
  PROVE  StringSoFar(s, c, b, q)
<1>1. q \notin {2, 3} /\ q \notin 8 .. 11 /\ q \notin 12 .. 15
  OBVIOUS
<1>2. QED
  BY <1>1, Zenon DEF StringSoFar

LEMMA InStringFollows ==
  ASSUME Reading, InString
  PROVE  Follows
<1> DEFINE a == Sign(source, curr)
           d == Delim(state)
<1>1. /\ Reading /\ state \in Quoting /\ state \in {2, 3}
      /\ Cur = a /\ (HasMore <=> curr + 1 < Len(source))
      /\ HasMore => Ahead = Sign(source, curr + 1)
      /\ a # "\n" => curr < Len(source)
  BY CurIs DEF InString, Quoting
<1>2. /\ Len(source) \in Nat /\ curr \in Nat /\ begin \in 0 .. Len(source)
      /\ begin < curr /\ curr <= Len(source) /\ curr \in begin .. Len(source) + 6
      /\ Sign(source, begin) = d /\ d \in Quotes
      /\ StringSoFar(source, curr, begin, state)
  BY <1>1, QuotingIs
<1>3. PICK E : IsScan(E, source, begin) /\ Items!StringEnd = E[begin + 1]
  BY <1>1, QuotingIs
<1>4. ASSUME NEW F, IsScan(F, source, begin)
      PROVE  /\ F[curr] = F[begin + 1]
             /\ a = d => F[curr] = curr
             /\ a = "\n" => F[curr] = -1
             /\ a \notin {d, "\\", "\n"} => F[curr] = F[curr + 1]
  <2>1. F[curr] = F[begin + 1]
    BY <1>1, <1>2, <1>4 DEF StringSoFar
  <2>2. /\ a = d => F[curr] = curr
        /\ a = "\n" => F[curr] = -1
        /\ a \notin {d, "\\", "\n"} => F[curr] = F[curr + 1]
    BY <1>2, <1>4, ScanIs
  <2>3. QED
    BY <2>1, <2>2
<1>5. curr # -1 /\ curr # -2
  BY <1>2
<1> HIDE DEF a, d
<1>6. CASE /\ a = d /\ (HasMore => Ahead \in Blanks \cup Closers)
           /\ Step(0, <<Span(begin, curr + 1)>>) /\ UNCHANGED begin
  BY <1>1, <1>3, <1>4, <1>6, StringEnds
<1>7. CASE /\ a = d /\ HasMore /\ Ahead \notin Blanks \cup Closers
           /\ Reject("expected whitespace after string", curr + 1)
  <2>1. "expected whitespace after string" \in LexicalErrors
    BY DEF LexicalErrors
  <2>2. Items!StringEnd = curr
    BY <1>3, <1>4, <1>7
  <2>3. QED
    BY <1>1, <1>5, <1>7, <2>1, <2>2, StringRefused
<1>8. CASE a = "\\" /\ Step(state + 4, <<>>) /\ UNCHANGED begin
  <2> DEFINE q == state + 4
  <2>1. q \in Quoting /\ q \in {6, 7} /\ Delim(q) = d
    BY <1>1, QuotingStates DEF d
  <2> HIDE DEF q
  <2>2. StringSoFar(source, curr + 1, begin, q)
    <3>1. (curr + 1) - 1 = curr
      BY <1>2
    <3>2. \A F : IsScan(F, source, begin) =>
            begin < curr /\ a = "\\" /\ F[curr] = F[begin + 1]
      BY <1>2, <1>4, <1>8
    <3>3. Sign(source, begin) = Delim(q)
      BY <1>2, <2>1
    <3>4. QED
      BY <2>1, <3>1, <3>2, <3>3, EscapeSoFar DEF a
  <2>3. curr < Len(source) /\ Step(q, <<>>)
    BY <1>1, <1>8 DEF q
  <2>4. QED
    BY <1>1, <1>8, <2>1, <2>2, <2>3, StringStays
<1>9. CASE a = "\n" /\ Reject("expected delimiter", curr)
  <2>1. "expected delimiter" \in LexicalErrors
    BY DEF LexicalErrors
  <2>2. Items!StringEnd = -1
    BY <1>3, <1>4, <1>9
  <2>3. QED
    BY <1>1, <1>9, <2>1, <2>2, StringRefused
<1>10. CASE a \notin {d, "\\", "\n"} /\ Step(state, <<>>) /\ UNCHANGED begin
  <2>1. StringSoFar(source, curr + 1, begin, state)
    <3>1. state \notin 6 .. 15
      BY <1>1
    <3>2. \A F : IsScan(F, source, begin) => F[curr + 1] = F[begin + 1]
      BY <1>4, <1>10
    <3>3. QED
      BY <1>2, <3>1, <3>2 DEF StringSoFar, d
  <2>2. QED
    BY <1>1, <1>10, <2>1, StringStays
<1>11. QED
  BY <1>1, <1>6, <1>7, <1>8, <1>9, <1>10, Zenon DEF InString, d

LEMMA InEscapeFollows ==
  ASSUME Reading, InEscape
  PROVE  Follows
<1> DEFINE a == Sign(source, curr)
           i == curr - 1
<1>1. /\ Reading /\ state \in Quoting /\ state \in {6, 7}
      /\ Cur = a /\ (a # "\n" => curr < Len(source))
  BY CurIs, QuotingStates DEF InEscape
<1>2. /\ Len(source) \in Nat /\ curr \in Nat /\ begin \in 0 .. Len(source)
      /\ begin < curr /\ curr <= Len(source)
      /\ i + 1 = curr /\ i + 2 = curr + 1 /\ i <= Len(source)
      /\ Sign(source, begin) = Delim(state) /\ Sign(source, begin) \in Quotes
      /\ StringSoFar(source, curr, begin, state)
  BY <1>1, QuotingIs
<1>3. PICK E : IsScan(E, source, begin) /\ Items!StringEnd = E[begin + 1]
  BY <1>1, QuotingIs
<1>4. ASSUME NEW F, IsScan(F, source, begin)
      PROVE  /\ begin < i /\ Sign(source, i) = "\\" /\ F[i] = F[begin + 1]
             /\ a \in Escapes => F[i] = F[curr + 1]
             /\ a \notin Escapes \cup {"u"} => F[i] = -1
  <2>1. begin < i /\ Sign(source, i) = "\\" /\ F[i] = F[begin + 1]
    BY <1>1, <1>2, <1>4 DEF StringSoFar
  <2>2. i \in begin .. Len(source) + 6
    BY <1>2, <2>1
  <2> HIDE DEF i
  <2>3. /\ Sign(source, i + 1) \in Escapes => F[i] = F[i + 2]
        /\ Sign(source, i + 1) \notin Escapes \cup {"u"} => F[i] = -1
    BY <1>2, <1>4, <2>1, <2>2, ScanIs
  <2>4. QED
    BY <1>2, <2>1, <2>3
<1>5. "\n" \notin Escapes
  BY DEF Escapes
<1>6. CASE a \in Escapes /\ Step(state - 4, <<>>) /\ UNCHANGED begin
  <2> DEFINE q == state - 4
  <2>1. q \in Quoting /\ q \in {2, 3} /\ Delim(q) = Delim(state)
    BY <1>1, QuotingStates
  <2> HIDE DEF q, a, i
  <2>2. StringSoFar(source, curr + 1, begin, q)
    <3>1. q \notin 6 .. 15
      BY <2>1
    <3>2. \A F : IsScan(F, source, begin) => F[curr + 1] = F[begin + 1]
      BY <1>4, <1>6
    <3>3. QED
      BY <1>2, <2>1, <3>1, <3>2 DEF StringSoFar
  <2>3. curr < Len(source) /\ Step(q, <<>>)
    BY <1>1, <1>5, <1>6 DEF q
  <2>4. QED
    BY <1>1, <1>6, <2>1, <2>2, <2>3, StringStays
<1>7. CASE a = "u" /\ Step(IF state = 6 THEN 8 ELSE 12, <<>>) /\ UNCHANGED begin
  <2> DEFINE q == IF state = 6 THEN 8 ELSE 12
  <2>1. q \in Quoting /\ q \in {8, 12} /\ Delim(q) = Delim(state)
    <3>1. CASE state = 6
      BY <3>1, QuotingStates
    <3>2. CASE state = 7
      BY <3>2, QuotingStates
    <3>3. QED
      BY <1>1, <3>1, <3>2
  <2> HIDE DEF q, a
  <2>2. StringSoFar(source, curr + 1, begin, q)
    <3>1. q \notin {2, 3, 6, 7}
      BY <2>1
    <3>2. ASSUME NEW F, IsScan(F, source, begin)
          PROVE  InScan(source, i, 0, begin, F)
      <4>1. \A j \in 2 .. 0 + 1 : FALSE
        OBVIOUS
      <4> HIDE DEF i
      <4>2. QED
        BY <1>2, <1>4, <1>7, <3>2, <4>1 DEF InScan, a
    <3>3. /\ q \in 8 .. 11 => (curr + 1) + 6 - q = i /\ q - 8 = 0
          /\ q \in 12 .. 15 => (curr + 1) + 10 - q = i /\ q - 12 = 0
      BY <1>2, <2>1
    <3> HIDE DEF i
    <3>4. QED
      BY <1>2, <2>1, <3>1, <3>2, <3>3 DEF StringSoFar
  <2>3. curr < Len(source) /\ Step(q, <<>>)
    BY <1>1, <1>7 DEF q
  <2>4. QED
    BY <1>1, <1>7, <2>1, <2>2, <2>3, StringStays
<1>8. CASE a \notin Escapes \cup {"u"} /\ Reject("invalid escape sequence", curr)
  <2>1. "invalid escape sequence" \in LexicalErrors
    BY DEF LexicalErrors
  <2> HIDE DEF i, a
  <2>2. Items!StringEnd = -1
    BY <1>3, <1>4, <1>8
  <2>3. QED
    BY <1>1, <1>8, <2>1, <2>2, StringRefused
<1>9. QED
  BY <1>1, <1>6, <1>7, <1>8, Zenon DEF InEscape

\* The characters after \u: k of four have been read in state q, and the next
\* state is z.
Counting(q, k, z) ==
  \/ q = 8 + k /\ z = (IF k = 3 THEN 2 ELSE 9 + k)
  \/ q = 12 + k /\ z = (IF k = 3 THEN 3 ELSE 13 + k)

LEMMA CountingIs ==
  ASSUME NEW q \in 8 .. 15
  PROVE  \E k \in 0 .. 3 :
           Counting(q, k, CASE q = 11 -> 2 [] q = 15 -> 3 [] OTHER -> q + 1)
<1>1. CASE q <= 11
  <2>1. q - 8 \in 0 .. 3 /\ q = 8 + (q - 8) /\ (q = 11 <=> q - 8 = 3) /\ q # 15
        /\ q + 1 = 9 + (q - 8)
    BY <1>1
  <2>2. QED
    BY <2>1 DEF Counting
<1>2. CASE q >= 12
  <2>1. q - 12 \in 0 .. 3 /\ q = 12 + (q - 12) /\ (q = 15 <=> q - 12 = 3) /\ q # 11
        /\ q + 1 = 13 + (q - 12)
    BY <1>2
  <2>2. QED
    BY <2>1 DEF Counting
<1>3. QED
  BY <1>1, <1>2

LEMMA CountingStates ==
  ASSUME NEW q \in 8 .. 15, NEW k \in 0 .. 3, NEW z, Counting(q, k, z)
  PROVE  /\ q \in Quoting /\ z \in Quoting /\ Delim(z) = Delim(q)
         /\ k = 3 => z \in {2, 3}
         /\ k < 3 => z \in 8 .. 15
<1>1. CASE q = 8 + k /\ z = (IF k = 3 THEN 2 ELSE 9 + k)
  <2>1. q \in 8 .. 11 /\ z \in {2} \cup 9 .. 11
    BY <1>1
  <2>2. Delim(q) = "'" /\ Delim(z) = "'"
    <3>1. q \in {2, 6} \cup 8 .. 11 /\ z \in {2, 6} \cup 8 .. 11
      BY <2>1
    <3>2. QED
      BY <3>1, DelimIs, Zenon
  <2>3. q \in Quoting /\ z \in Quoting
    BY <2>1 DEF Quoting
  <2>4. (k = 3 => z \in {2, 3}) /\ (k < 3 => z \in 8 .. 15)
    BY <1>1
  <2>5. QED
    BY <2>2, <2>3, <2>4
<1>2. CASE q = 12 + k /\ z = (IF k = 3 THEN 3 ELSE 13 + k)
  <2>1. q \in 12 .. 15 /\ z \in {3} \cup 13 .. 15
    BY <1>2
  <2>2. Delim(q) = "\"" /\ Delim(z) = "\""
    <3>1. q \in {3, 7} \cup 12 .. 15 /\ z \in {3, 7} \cup 12 .. 15
      BY <2>1
    <3>2. QED
      BY <3>1, DelimIs, Zenon
  <2>3. q \in Quoting /\ z \in Quoting
    BY <2>1 DEF Quoting
  <2>4. (k = 3 => z \in {2, 3}) /\ (k < 3 => z \in 8 .. 15)
    BY <1>2
  <2>5. QED
    BY <2>2, <2>3, <2>4
<1>3. QED
  BY <1>1, <1>2 DEF Counting

LEMMA UnicodeRead ==
  ASSUME NEW s, NEW c \in Nat, NEW b, NEW q \in 8 .. 15, NEW k \in 0 .. 3, NEW z,
         Counting(q, k, z), StringSoFar(s, c, b, q), NEW E, IsScan(E, s, b)
  PROVE  InScan(s, c - 2 - k, k, b, E)
<1>1. CASE q = 8 + k
  <2>1. q \in 8 .. 11 /\ c + 6 - q = c - 2 - k /\ q - 8 = k
    BY <1>1
  <2>2. InScan(s, c + 6 - q, q - 8, b, E)
    BY <2>1 DEF StringSoFar
  <2>3. QED
    BY <2>1, <2>2
<1>2. CASE q = 12 + k
  <2>1. q \in 12 .. 15 /\ c + 10 - q = c - 2 - k /\ q - 12 = k
    BY <1>2
  <2>2. InScan(s, c + 10 - q, q - 12, b, E)
    BY <2>1 DEF StringSoFar
  <2>3. QED
    BY <2>1, <2>2
<1>3. QED
  BY <1>1, <1>2 DEF Counting

LEMMA UnicodeSoFar ==
  ASSUME NEW s, NEW c \in Nat, NEW b, NEW q \in 8 .. 15, NEW k \in 0 .. 2, NEW z,
         Counting(q, k, z), Sign(s, b) = Delim(z),
         \A E : IsScan(E, s, b) => InScan(s, c - 2 - k, k + 1, b, E)
  PROVE  StringSoFar(s, c + 1, b, z)
<1>1. CASE q = 8 + k /\ z = 9 + k
  <2>1. /\ z \in 8 .. 11 /\ z \notin {2, 3} /\ z \notin {6, 7} /\ z \notin 12 .. 15
        /\ (c + 1) + 6 - z = c - 2 - k /\ z - 8 = k + 1
    BY <1>1
  <2>2. QED
    BY <2>1 DEF StringSoFar
<1>2. CASE q = 12 + k /\ z = 13 + k
  <2>1. /\ z \in 12 .. 15 /\ z \notin {2, 3} /\ z \notin {6, 7} /\ z \notin 8 .. 11
        /\ (c + 1) + 10 - z = c - 2 - k /\ z - 12 = k + 1
    BY <1>2
  <2>2. QED
    BY <2>1 DEF StringSoFar
<1>3. QED
  BY <1>1, <1>2 DEF Counting

LEMMA InUnicodeFollows ==
  ASSUME Reading, InUnicode
  PROVE  Follows
<1> DEFINE a == Sign(source, curr)
           z == CASE state = 11 -> 2 [] state = 15 -> 3 [] OTHER -> state + 1
<1>1. Reading /\ state \in 8 .. 15 /\ Cur = a
  BY CurIs DEF InUnicode
<1>2. PICK k \in 0 .. 3 : Counting(state, k, z)
  BY <1>1, CountingIs
<1>3. InUnicode => \/ a \in Quotes /\ Reject("invalid escape sequence", curr)
                   \/ a \notin Quotes /\ Step(z, <<>>) /\ UNCHANGED begin
  BY <1>1 DEF InUnicode
<1> HIDE DEF a, z
<1>4. /\ state \in Quoting /\ z \in Quoting /\ Delim(z) = Delim(state)
      /\ k = 3 => z \in {2, 3}
      /\ k < 3 => z \in 8 .. 15
  BY <1>1, <1>2, CountingStates
<1>5. /\ Len(source) \in Nat /\ curr \in Nat /\ begin \in 0 .. Len(source)
      /\ begin < curr /\ curr <= Len(source)
      /\ ItemBegin = begin /\ Place(source, curr, begin, state) = begin
      /\ Sign(source, begin) = Delim(state) /\ Sign(source, begin) \in Quotes
      /\ StringSoFar(source, curr, begin, state)
  BY <1>1, <1>4, QuotingIs
<1>6. PICK E : IsScan(E, source, begin) /\ Items!StringEnd = E[begin + 1]
  BY <1>1, <1>4, QuotingIs
<1> DEFINE i == curr - 2 - k
<1>7. /\ i + (k + 2) = curr /\ k + 2 \in 2 .. 5 /\ i \in Int /\ i <= Len(source)
      /\ k = 3 => i + 6 = curr + 1
      /\ curr < i + 6
  BY <1>5
<1>8. ASSUME NEW F, IsScan(F, source, begin)
      PROVE  /\ InScan(source, i, k, begin, F) /\ i \in begin .. Len(source) + 6
             /\ F[i] = F[begin + 1]
             /\ (\E j \in 2 .. 5 : Sign(source, i + j) \in Quotes) => F[i] = -1
             /\ (\A j \in 2 .. 5 : Sign(source, i + j) \notin Quotes) => F[i] = F[i + 6]
  <2>1. InScan(source, i, k, begin, F)
    BY <1>1, <1>2, <1>5, <1>8, UnicodeRead
  <2> HIDE DEF i
  <2>2. i \in begin .. Len(source) + 6
    BY <1>5, <1>7, <2>1 DEF InScan
  <2>3. /\ (\E j \in 2 .. 5 : Sign(source, i + j) \in Quotes) => F[i] = -1
        /\ (\A j \in 2 .. 5 : Sign(source, i + j) \notin Quotes) => F[i] = F[i + 6]
    BY <1>5, <1>7, <1>8, <2>1, <2>2, ScanIs DEF InScan
  <2>4. QED
    BY <2>1, <2>2, <2>3 DEF InScan
<1>9. CASE a \in Quotes /\ Reject("invalid escape sequence", curr)
  <2>1. "invalid escape sequence" \in LexicalErrors
    BY DEF LexicalErrors
  <2>2. \E j \in 2 .. 5 : Sign(source, i + j) \in Quotes
    BY <1>7, <1>9 DEF a
  <2> HIDE DEF i
  <2>3. Items!StringEnd = -1
    BY <1>6, <1>8, <2>2
  <2>4. QED
    BY <1>1, <1>4, <1>9, <2>1, <2>3, StringRefused
<1>10. CASE a \notin Quotes /\ Step(z, <<>>) /\ UNCHANGED begin
  <2>1. ASSUME NEW F, IsScan(F, source, begin)
        PROVE  InScan(source, i, k + 1, begin, F)
    <3>1. \A j \in 2 .. (k + 1) + 1 : j \in 2 .. k + 1 \/ j = k + 2
      OBVIOUS
    <3> HIDE DEF i
    <3>2. QED
      BY <1>7, <1>8, <1>10, <2>1, <3>1 DEF InScan, a
  <2>2. StringSoFar(source, curr + 1, begin, z)
    <3>1. CASE k < 3
      <4>1. k \in 0 .. 2
        BY <3>1
      <4>2. QED
        BY <1>1, <1>2, <1>4, <1>5, <2>1, <4>1, UnicodeSoFar
    <3>2. CASE k = 3
      <4>1. z \in {2, 3} /\ z \notin 6 .. 15
        BY <1>4, <3>2
      <4>2. ASSUME NEW F, IsScan(F, source, begin)
            PROVE  F[curr + 1] = F[begin + 1]
        <5>1. \A j \in 2 .. 5 : Sign(source, i + j) \notin Quotes
          BY <2>1, <3>2, <4>2 DEF InScan
        <5> HIDE DEF i
        <5>2. QED
          BY <1>7, <1>8, <3>2, <4>2, <5>1
      <4>3. QED
        BY <1>4, <1>5, <4>1, <4>2 DEF StringSoFar
    <3>3. QED
      BY <3>1, <3>2
  <2>3. CASE curr < Len(source)
    BY <1>1, <1>4, <1>10, <2>2, <2>3, StringStays
  <2>4. CASE curr = Len(source)
    <3>1. Items!StringEnd = -2
      <4>1. \A j \in 2 .. 5 : Sign(source, i + j) \notin Quotes
        <5>1. \A j \in 2 .. k + 2 : Sign(source, i + j) \notin Quotes
          <6>1. InScan(source, i, k + 1, begin, E)
            BY <1>6, <2>1
          <6>2. QED
            BY <6>1 DEF InScan
        <5>2. \A j \in 2 .. 5 : j \notin 2 .. k + 2 => i + j >= Len(source)
          BY <1>5, <2>4
        <5>3. \A m : m >= Len(source) => Sign(source, m) \notin Quotes
          BY DEF Sign, Quotes
        <5> HIDE DEF i
        <5>4. QED
          BY <5>1, <5>2, <5>3
      <4>2. i + 6 \in begin .. Len(source) + 6 /\ i + 6 > Len(source)
        <5>1. i \in begin .. Len(source) + 6
          BY <1>6, <1>8
        <5> HIDE DEF i
        <5>2. QED
          BY <1>5, <1>7, <2>4, <5>1
      <4> HIDE DEF i
      <4>3. E[i + 6] = -2
        BY <1>5, <1>6, <4>2, ScanIs
      <4>4. QED
        BY <1>6, <1>8, <4>1, <4>3
    <3>2. /\ z \in 0 .. 15 /\ z # 5 /\ curr + 1 \in Nat /\ curr + 1 > Len(source)
          /\ begin \in Nat /\ curr + 1 = Len(source) + 1
      BY <1>4, <1>5, <2>4 DEF Quoting
    <3>3. Place(source, curr + 1, begin', z) = Len(source) + 1
      BY <3>2 DEF Place
    <3>4. Items!Read(<<>>, Len(source) + 1)
      BY <1>1, <1>10, <3>2, <3>3, ReadIs
    <3>5. Items!OneString
      <4>1. Items!Sign(ItemBegin) \in {"'", "\""}
        BY <1>5, CurIs DEF Quotes
      <4>2. -2 # -1
        OBVIOUS
      <4>3. QED
        BY <3>1, <3>4, <4>1, <4>2, Zenon DEF Items!OneString
    <3>6. Refines
      BY <1>1, <1>5, <3>5, ItemStep
    <3>7. Scanned(source, curr + 1, begin', z)
      <4>1. z \notin {1, 4, 5}
        BY <1>4 DEF Quoting
      <4>2. QED
        BY <1>10, <2>2, <4>1, Zenon DEF Scanned
    <3>8. QED
      BY <1>1, <1>10, <3>2, <3>6, <3>7, StepFollows
  <2>5. QED
    BY <1>5, <2>3, <2>4
<1>11. QED
  BY <1>3, <1>9, <1>10

LEMMA InCommentFollows ==
  ASSUME Reading, InComment
  PROVE  Follows
<1> DEFINE a == Sign(source, curr)
           closed == \/ state = 4 /\ Cur = "\n"
                     \/ state = 5 /\ curr > 0 /\ Cur = "/" /\ Char(curr - 1) = "*"
<1>1. /\ Reading /\ state \in {4, 5} /\ UNCHANGED begin /\ Cur = a
      /\ (a # "\n" => curr < Len(source)) /\ \A i : Items!Sign(i) = Sign(source, i)
  BY CurIs DEF InComment
<1>2. IF closed THEN Step(0, <<>>) ELSE Step(state, <<>>)
  BY Zenon DEF InComment
<1>3. /\ Len(source) \in Nat /\ curr \in Nat /\ curr <= Len(source) /\ curr + 1 \in Nat
      /\ begin \in Nat /\ begin' = begin /\ begin' \in Nat
      /\ 0 \in 0 .. 15 /\ 4 \in 0 .. 15 /\ 5 \in 0 .. 15
  BY <1>1 DEF Reading
<1>4. Scanned(source, curr + 1, begin', 0)
  BY DEF Scanned
<1> HIDE DEF a
<1>5. CASE state = 4
  <2>1. Place(source, curr, begin, 4) = LineEnd(source, curr) + 1
    BY <1>3, PlaceIs
  <2>2. CASE a = "\n" /\ Step(0, <<>>)
    <3>1. LineEnd(source, curr) = curr /\ Place(source, curr + 1, begin', 0) = curr + 1
      BY <1>3, <2>2, LineEndIs, PlaceIs DEF a
    <3>2. Refines
      BY <1>1, <1>3, <1>5, <2>1, <2>2, <3>1, StayIs
    <3>3. QED
      BY <1>1, <1>3, <1>4, <2>2, <3>2, StepFollows
  <2>3. CASE a # "\n" /\ Step(4, <<>>)
    <3>1. LineEnd(source, curr) = LineEnd(source, curr + 1) /\ curr + 1 <= Len(source)
      BY <1>1, <1>3, <2>3, LineEndIs DEF a
    <3>2. Place(source, curr + 1, begin', 4) = LineEnd(source, curr + 1) + 1
      BY <1>3, <3>1, PlaceIs
    <3>3. Refines
      BY <1>1, <1>3, <1>5, <2>1, <2>3, <3>1, <3>2, StayIs
    <3>4. Scanned(source, curr + 1, begin', 4)
      BY <3>1 DEF Scanned
    <3>5. QED
      BY <1>1, <1>3, <2>3, <3>3, <3>4, StepFollows
  <2>4. closed <=> a = "\n"
    BY <1>1, <1>5
  <2> HIDE DEF closed
  <2>5. QED
    BY <1>2, <1>5, <2>2, <2>3, <2>4
<1>6. CASE state = 5
  <2>1. CommentSoFar(source, curr, begin) /\ begin < curr
    BY <1>1, <1>6 DEF Reading, LexInv, Scanned, Progress
  <2>2. closed <=> a = "/" /\ Sign(source, curr - 1) = "*"
    <3>1. curr > 0 /\ curr - 1 \in 0 .. Len(source)
      BY <1>3, <2>1
    <3>2. Char(curr - 1) = Sign(source, curr - 1)
      BY <1>3, <3>1, CharIsSign
    <3>3. QED
      BY <1>1, <1>6, <3>1, <3>2
  <2> HIDE DEF closed
  <2>3. ItemBegin = begin /\ Place(source, curr, begin, 5) = begin
    BY <1>3, <1>6, ItemBeginIs, PlaceIs
  <2>4. CASE closed
    <3>1. Step(0, <<>>) /\ a = "/" /\ Sign(source, curr - 1) = "*"
      BY <1>2, <2>2, <2>4
    <3> DEFINE ends == {j \in begin + 2 .. Len(source) - 1 :
                          Items!Sign(j) = "/" /\ Items!Sign(j - 1) = "*"}
    <3>2. curr \in ends
      <4>1. curr < Len(source)
        BY <1>1, <3>1
      <4>2. curr # begin + 1
        BY <2>1, <3>1 DEF CommentSoFar, a
      <4>3. curr \in begin + 2 .. Len(source) - 1
        BY <1>3, <2>1, <4>1, <4>2
      <4>4. QED
        BY <1>1, <3>1, <4>3 DEF a
    <3>3. \A y \in ends : curr <= y
      <4>1. ASSUME NEW y \in ends, y < curr
            PROVE  FALSE
        <5>1. y \in begin + 2 .. Len(source) - 1 /\ Sign(source, y) = "/" /\ Sign(source, y - 1) = "*"
          BY <1>1
        <5>2. y \in begin + 2 .. curr - 1 /\ y < Len(source)
          BY <1>3, <4>1, <5>1
        <5>3. QED
          BY <2>1, <5>1, <5>2 DEF CommentSoFar
      <4>2. ends \in SUBSET Int
        BY <1>3
      <4> HIDE DEF ends
      <4>3. QED
        BY <1>3, <4>1, <4>2
    <3>4. ends \in SUBSET Int
      BY <1>3
    <3>5. Items!Min(ends) = curr /\ ends # {}
      <4> HIDE DEF ends
      <4> QED BY <3>2, <3>3, <3>4, Least, SameMin
    <3>6. Items!Read(<<>>, curr + 1)
      <4>1. Place(source, curr + 1, begin', 0) = curr + 1
        BY <1>3, PlaceIs
      <4>2. QED
        BY <1>1, <1>3, <3>1, <4>1, ReadIs
    <3>7. Items!CommentSign = "*"
      BY <1>1, <2>1, <2>3 DEF Items!CommentSign, CommentSoFar
    <3>8. Items!BlockComment
      BY <2>3, <3>5, <3>6, <3>7 DEF Items!BlockComment
    <3>9. ItemBegin \in 0 .. Len(source)
      BY <1>3, <2>1, <2>3
    <3>10. Refines
      BY <1>1, <3>8, <3>9, ItemStep
    <3>11. QED
      BY <1>1, <1>3, <1>4, <3>1, <3>10, StepFollows
  <2>5. CASE ~closed
    <3>1. Step(5, <<>>) /\ ~(a = "/" /\ Sign(source, curr - 1) = "*")
      BY <1>2, <1>6, <2>2, <2>5
    <3>2. Place(source, curr + 1, begin', 5) = begin
      BY <1>3, PlaceIs
    <3>3. Refines
      BY <1>1, <1>3, <1>6, <2>3, <3>1, <3>2, StayIs
    <3>4. CommentSoFar(source, curr + 1, begin)
      <4>1. \A j \in begin + 2 .. (curr + 1) - 1 : j \in begin + 2 .. curr - 1 \/ j = curr
        BY <1>3
      <4>2. QED
        BY <2>1, <3>1, <4>1 DEF CommentSoFar, a
    <3>5. Scanned(source, curr + 1, begin', 5)
      BY <1>3, <3>4 DEF Scanned
    <3>6. QED
      BY <1>1, <1>3, <3>1, <3>3, <3>5, StepFollows
  <2>6. QED
    BY <2>4, <2>5
<1>7. QED
  BY <1>1, <1>5, <1>6

LEMMA EndFollows ==
  ASSUME LexInv, phase = "tokenize", curr > Len(source), EndOfText
  PROVE  Follows
<1>1. /\ Len(source) \in Nat /\ curr \in Nat /\ begin \in Nat /\ state \in 0 .. 15
      /\ errors = <<>> /\ Verdict = "reading"
  BY SourcesAssumption DEF LexInv, Progress, Verdict
<1>2. CASE state = 5 /\ Reject("expected */", curr)
  <2>1. CommentSoFar(source, curr, begin) /\ begin < curr
    <3>1. state = 5
      BY <1>2, Zenon
    <3>2. Progress /\ Scanned(source, curr, begin, state)
      BY DEF LexInv
    <3>3. state \notin {0, 4}
      BY <1>1, <3>1
    <3>4. QED
      BY <3>1, <3>2, <3>3 DEF Scanned, Progress
  <2>2. ItemBegin = begin
    <3>1. Place(source, curr, begin, 5) = begin
      BY <1>1, PlaceIs
    <3>2. QED
      BY <1>1, <1>2, <3>1, ItemBeginIs
  <2>3. \A i : Items!Sign(i) = Sign(source, i)
    BY DEF Items!Sign, Sign
  <2>4. Items!Refused
    <3>1. "expected */" \in LexicalErrors
      BY DEF LexicalErrors
    <3>2. QED
      BY <1>2, <3>1, RefusedIs
  <2>5. Items!CommentSign = "*"
    BY <2>1, <2>2, <2>3 DEF Items!CommentSign, CommentSoFar
  <2>6. {j \in begin + 2 .. Len(source) - 1 :
           Items!Sign(j) = "/" /\ Items!Sign(j - 1) = "*"} = {}
    <3>1. \A j \in begin + 2 .. Len(source) - 1 : j \in begin + 2 .. curr - 1 /\ j < Len(source)
      BY <1>1
    <3>2. QED
      BY <2>1, <2>3, <3>1 DEF CommentSoFar
  <2>7. Items!BlockComment
    BY <2>2, <2>4, <2>5, <2>6 DEF Items!BlockComment
  <2>8. ~(ItemBegin > Len(source))
    BY <1>1, <2>1, <2>2 DEF CommentSoFar
  <2>9. Refines
    BY <1>1, <2>7, <2>8 DEF Refines, Items!LexiconNext
  <2>10. phase' # "tokenize"
    BY <1>2 DEF Reject
  <2>11. QED
    BY <2>9, <2>10 DEF Follows
<1>3. CASE /\ state # 5 /\ phase' = "classify"
           /\ UNCHANGED <<source, curr, begin, state, tokens, errors>>
  <2>1. Place(source, curr, begin, state) = curr
    BY <1>1, <1>3, PlaceIs
  <2>2. ItemBegin = curr /\ ItemBegin' = curr
    BY <1>1, <1>3, <2>1, ItemBeginIs, ItemBeginThen
  <2>3. Lexed'
    <3>1. DOMAIN errors' = {}
      BY <1>1, <1>3
    <3>2. QED
      BY <3>1 DEF Lexed
  <2>4. Verdict' = "read"
    BY <1>3, <2>3 DEF Verdict
  <2>5. Items!EndOfInput
    BY <1>3, <2>2, <2>4 DEF Items!EndOfInput
  <2>6. Refines
    BY <1>1, <2>2, <2>5 DEF Refines, Items!LexiconNext
  <2>7. QED
    BY <1>3, <2>6 DEF Follows
<1>4. QED
  BY <1>2, <1>3, Zenon DEF EndOfText

\* A character, or the end of the text, is one step of the lexicon or none.
LEMMA TokenizeStep ==
  ASSUME LexInv, fpTokenize
  PROVE  LexInv' /\ Refines
<1>1. Progress'
  BY ProgressStep DEF LexInv
<1>2. Len(source) \in Nat /\ curr \in Nat /\ begin \in Nat /\ state \in 0 .. 15
  BY SourcesAssumption DEF LexInv, Progress
<1>3. CASE curr <= Len(source)
  <2>1. Reading
    BY <1>2, <1>3 DEF Reading, fpTokenize
  <2>2. \/ Between \/ Word \/ InString \/ InEscape \/ InUnicode \/ InComment
    BY <1>3, Zenon DEF fpTokenize
  <2>3. Follows
    BY <2>1, <2>2, BetweenFollows, WordFollows, InStringFollows, InEscapeFollows,
       InUnicodeFollows, InCommentFollows, Zenon
  <2>4. QED
    BY <1>1, <2>3 DEF Follows, LexInv
<1>4. CASE curr > Len(source)
  <2>1. ~(curr <= Len(source))
    BY <1>2, <1>4
  <2>2. phase = "tokenize" /\ EndOfText
    BY <2>1, Zenon DEF fpTokenize
  <2>3. Follows
    BY <1>4, <2>2, EndFollows
  <2>4. QED
    BY <1>1, <2>3 DEF Follows, LexInv
<1>5. QED
  BY <1>2, <1>3, <1>4
-----------------------------------------------------------------------------
(* The places of errors                                                    *)

LEMMA MinIs ==
  ASSUME NEW S \in SUBSET Nat, S # {}
  PROVE  Min(S) \in S /\ \A y \in S : Min(S) <= y
<1>1. \E x \in S : \A y \in S : x <= y
  BY SmallestIn
<1>2. QED
  BY <1>1 DEF Min

LEMMA MaxIs ==
  ASSUME NEW S \in SUBSET Nat, S # {}, NEW n \in Nat, \A x \in S : x <= n
  PROVE  Max(S) \in S /\ \A y \in S : y <= Max(S)
<1>1. \E x \in S : \A y \in S : y <= x
  BY GreatestIn
<1>2. \E x \in S : \A y \in S : x >= y
  BY <1>1
<1>3. Max(S) \in S /\ \A y \in S : Max(S) >= y
  BY <1>2, Zenon DEF Max
<1>4. QED
  BY <1>3

\* Where the line of i begins, and where one that begins at i ends.
LineBegin(s, i) == Max({0} \cup {j + 1 : j \in Newlines(s, 0, i)})
LineStop(s, i)  == Min({Len(s)} \cup Newlines(s, i, Len(s)))

LEMMA LineBeginIs ==
  ASSUME NEW s, NEW i \in Nat
  PROVE  LineBegin(s, i) \in 0 .. i /\ Newlines(s, LineBegin(s, i), i) = {}
<1> DEFINE S == {0} \cup {j + 1 : j \in Newlines(s, 0, i)}
           first == LineBegin(s, i)
<1>1. S \in SUBSET Nat /\ S # {} /\ \A x \in S : x <= i
  BY DEF Newlines
<1>2. \A j \in Newlines(s, 0, i) : j + 1 \in S
  OBVIOUS
<1>3. first \in S /\ \A y \in S : y <= first
  <2>1. first = Max(S)
    BY DEF LineBegin
  <2> HIDE DEF S, first
  <2>2. QED
    BY <1>1, <2>1, MaxIs
<1> HIDE DEF S, first
<1>4. first \in 0 .. i
  BY <1>1, <1>3
<1>5. ASSUME NEW j \in Newlines(s, first, i)
      PROVE  FALSE
  <2>1. j \in Newlines(s, 0, i) /\ first <= j
    BY <1>4 DEF Newlines
  <2>2. j + 1 <= first
    BY <1>2, <1>3, <2>1
  <2>3. QED
    BY <1>4, <2>1, <2>2 DEF Newlines
<1>6. QED
  BY <1>4, <1>5 DEF first

LEMMA LineStopIs ==
  ASSUME NEW s, Len(s) \in Nat, NEW i \in 0 .. Len(s)
  PROVE  /\ LineStop(s, i) \in i .. Len(s)
         /\ Newlines(s, i, LineStop(s, i)) = {}
         /\ LineStop(s, i) = Len(s) \/ CharAt(s, LineStop(s, i)) = "\n"
<1> DEFINE S == {Len(s)} \cup Newlines(s, i, Len(s))
           stop == LineStop(s, i)
<1>1. S \in SUBSET Nat /\ S # {}
  BY DEF Newlines
<1>2. stop \in S /\ \A y \in S : stop <= y
  <2>1. stop = Min(S)
    BY DEF LineStop
  <2> HIDE DEF S, stop
  <2>2. QED
    BY <1>1, <2>1, MinIs
<1> HIDE DEF stop
<1>3. stop \in i .. Len(s) /\ (stop = Len(s) \/ CharAt(s, stop) = "\n")
  BY <1>2 DEF Newlines
<1>4. ASSUME NEW j \in Newlines(s, i, stop)
      PROVE  FALSE
  <2>1. j \in Newlines(s, i, Len(s)) /\ j < stop
    BY <1>3 DEF Newlines
  <2>2. QED
    BY <1>2, <1>3, <2>1 DEF Newlines
<1>5. QED
  BY <1>3, <1>4 DEF stop

LEMMA NewlinesFinite ==
  ASSUME NEW s, NEW i \in Nat
  PROVE  IsFiniteSet(Newlines(s, 0, i))
<1> DEFINE S == Newlines(s, 0, i)
<1>1. S \in SUBSET Nat /\ \A x \in S : x <= i
  BY DEF Newlines
<1> HIDE DEF S
<1>2. IsFiniteSet(S)
  BY <1>1, FS_BoundedSetOfNaturals
<1>3. QED
  BY <1>2 DEF S

\* Two places are on one line iff no line ends between them.
LEMMA SameLine ==
  ASSUME NEW s, NEW b \in Nat, NEW e \in Nat, b <= e
  PROVE  /\ Cardinality(Newlines(s, 0, b)) = Cardinality(Newlines(s, 0, e))
              <=> Newlines(s, b, e) = {}
         /\ Newlines(s, b, e) = {} => Newlines(s, 0, b) = Newlines(s, 0, e)
<1> DEFINE B == Newlines(s, 0, b)
           E == Newlines(s, 0, e)
<1>1. B \in SUBSET E /\ E \in SUBSET Nat /\ \A x \in E : x <= e
  BY DEF Newlines
<1>2. IsFiniteSet(E)
  <2> HIDE DEF E
  <2> QED BY <1>1, FS_BoundedSetOfNaturals
<1>3. Cardinality(E) = Cardinality(B) => E = B
  <2> HIDE DEF E, B
  <2> QED BY <1>1, <1>2, FS_Subset
<1>4. E = B <=> Newlines(s, b, e) = {}
  <2>1. \A j : j \in E <=> j \in B \/ j \in Newlines(s, b, e)
    BY DEF Newlines
  <2>2. \A j \in Newlines(s, b, e) : j \notin B
    BY DEF Newlines
  <2> HIDE DEF E, B
  <2>3. QED
    BY <2>1, <2>2
<1>5. QED
  BY <1>3, <1>4

\* The range of an error.
Ranged(s, range) ==
  /\ range.begin \in Nat /\ range.end \in Nat
  /\ range.begin < range.end /\ range.end <= Len(s) + 1

\* What the error messages of findRangeInfo and printTraceLine show of a range.
LEMMA RangeIsShown ==
  ASSUME Len(source) \in Nat, NEW range, Ranged(source, range)
  PROVE  LET end   == Min({range.end, Len(source)})
             stop  == Min({end} \cup Newlines(source, range.begin, end))
             info  == findRangeInfo(source, range)
         IN  /\ range.begin < range.end /\ range.end <= Len(source) + 1
             /\ Highlight(info) = SubSeq(source, range.begin + 1, stop)
             /\ range.begin \in info.firstLine .. info.firstLine + info.firstLineLength
             /\ Newlines(source, info.firstLine, info.firstLine + info.firstLineLength) = {}
             /\ Printed(info) \/ info.startLine # info.endLine
<1> DEFINE b == range.begin
           e == range.end
           len == Len(source)
           N(i, j) == Newlines(source, i, j)
           end == Min({e, len})
           stop == Min({end} \cup N(b, end))
           info == findRangeInfo(source, range)
           first == LineBegin(source, b)
           last == LineStop(source, first)
<1>1. b \in Nat /\ e \in Nat /\ b < e /\ e <= len + 1 /\ b <= len /\ len \in Nat
  BY DEF Ranged
<1>2. /\ info.startLine = 1 + Cardinality(N(0, b))
      /\ info.startColumn = 1 + b - first
      /\ info.endLine = 1 + Cardinality(N(0, e))
      /\ info.endColumn = 1 + e - LineBegin(source, e)
      /\ info.firstLine = first
      /\ info.firstLineLength = last - first
  BY DEF findRangeInfo, LineBegin, LineStop
<1>3. first \in 0 .. b /\ N(first, b) = {}
  BY <1>1, LineBeginIs
<1>4. /\ last \in first .. len /\ N(first, last) = {}
      /\ last = len \/ CharAt(source, last) = "\n"
  BY <1>1, <1>3, LineStopIs
<1>5. b <= last
  <2>1. last \notin N(first, b)
    BY <1>3
  <2>2. QED
    BY <1>1, <1>3, <1>4, <2>1 DEF Newlines
<1>6. \A i : CharAt(source, i) = "\n" => i < len
  BY DEF CharAt
<1>7. info.startLine = info.endLine <=> N(b, e) = {}
  <2>1. IsFiniteSet(N(0, b)) /\ IsFiniteSet(N(0, e))
    BY <1>1, NewlinesFinite
  <2>2. Cardinality(N(0, b)) \in Nat /\ Cardinality(N(0, e)) \in Nat
    BY <2>1, FS_CardinalityType
  <2>3. Cardinality(N(0, b)) = Cardinality(N(0, e)) <=> N(b, e) = {}
    BY <1>1, SameLine
  <2> HIDE DEF N, info
  <2>4. QED
    BY <1>2, <2>2, <2>3
<1>8. end \in {e, len} /\ end <= e /\ end <= len
  <2>1. {e, len} \in SUBSET Nat /\ {e, len} # {}
    BY <1>1
  <2>2. QED
    BY <2>1, MinIs
<1>9. stop \in {end} \cup N(b, end) /\ \A y \in {end} \cup N(b, end) : stop <= y
  <2> DEFINE S == {end} \cup N(b, end)
  <2>1. S \in SUBSET Nat /\ S # {}
    BY <1>1, <1>8 DEF Newlines
  <2> HIDE DEF S, end
  <2>2. Min(S) \in S /\ \A y \in S : Min(S) <= y
    BY <2>1, MinIs
  <2>3. QED
    BY <2>2 DEF S
<1> DEFINE width == IF info.startLine = info.endLine
                    THEN info.endColumn - info.startColumn
                    ELSE info.firstLineLength - (info.startColumn - 1)
<1>10. info.firstLine + info.startColumn - 1 = b
  <2> HIDE DEF info, first, last
  <2> QED BY <1>1, <1>2, <1>3
<1> HIDE DEF stop, end
<1>11. ASSUME N(b, e) = {}
       PROVE  Highlight(info) = SubSeq(source, b + 1, stop) /\ Printed(info)
  <2>1. LineBegin(source, e) = first
    <3>1. b <= e
      BY <1>1
    <3>2. N(0, b) = N(0, e)
      BY <1>1, <1>11, <3>1, SameLine
    <3>3. QED
      BY <3>2, Zenon DEF LineBegin
  <2>2. width = e - b /\ info.endColumn # info.startColumn
    <3> HIDE DEF info, first, last
    <3> QED BY <1>1, <1>2, <1>3, <1>7, <1>11, <2>1
  <2>3. stop = end
    BY <1>1, <1>8, <1>9, <1>11 DEF Newlines
  <2>4. b + width = e
    <3> HIDE DEF info, b, e, width
    <3> QED BY <1>1, <2>2
  <2>5. Highlight(info) = SubSeq(source, b + 1, Min({e, len}))
    <3> HIDE DEF info, b, e
    <3>1. Highlight(info) = SubSeq(source, b + 1, Min({b + width, len}))
      BY <1>10 DEF Highlight
    <3> HIDE DEF width
    <3>2. QED
      BY <2>4, <3>1
  <2>6. QED
    BY <2>2, <2>3, <2>5 DEF Printed, end
<1>12. ASSUME N(b, e) # {}
       PROVE  /\ Highlight(info) = SubSeq(source, b + 1, stop)
              /\ info.startLine # info.endLine
  <2>1. PICK j \in N(b, e) : TRUE
    BY <1>12
  <2>2. j \in b .. e - 1 /\ j < len /\ CharAt(source, j) = "\n"
    BY <1>6, <2>1 DEF Newlines
  <2>3. last <= j
    <3>1. j \notin N(first, last)
      BY <1>4
    <3>2. QED
      BY <1>1, <1>3, <1>4, <2>2, <3>1 DEF Newlines
  <2>4. last < end /\ last \in N(b, end)
    BY <1>1, <1>4, <1>5, <1>8, <2>2, <2>3 DEF Newlines
  <2>5. \A x \in N(b, end) : last <= x
    <3>1. \A x \in N(first, last) : FALSE
      BY <1>4
    <3>2. QED
      BY <1>1, <1>3, <1>4, <3>1 DEF Newlines
  <2>6. stop = last
    <3>1. stop <= last /\ last <= stop
      <4> HIDE DEF N, last
      <4>1. stop <= last
        BY <1>9, <2>4
      <4>2. last <= end
        BY <1>1, <1>4, <1>8, <2>4 DEF last
      <4>3. QED
        BY <1>9, <2>5, <4>1, <4>2
    <3>2. stop \in Int /\ last \in Int
      BY <1>1, <1>3, <1>4, <1>8, <1>9 DEF Newlines
    <3> HIDE DEF last
    <3>3. QED
      BY <3>1, <3>2
  <2>7. b + width = last
    <3> HIDE DEF info, first, last
    <3> QED BY <1>1, <1>2, <1>3, <1>4, <1>7, <1>12
  <2>8. Min({last, len}) = last
    <3>1. {last, len} \in SUBSET Int /\ last \in {last, len} /\ \A y \in {last, len} : last <= y
      BY <1>1, <1>4
    <3> HIDE DEF last
    <3>2. QED
      BY <3>1, Least
  <2>9. Highlight(info) = SubSeq(source, b + 1, last)
    <3> HIDE DEF info, b, e, last
    <3>1. Highlight(info) = SubSeq(source, b + 1, Min({b + width, len}))
      BY <1>10 DEF Highlight
    <3> HIDE DEF width
    <3>2. QED
      BY <2>7, <2>8, <3>1
  <2>10. QED
    BY <1>7, <1>12, <2>6, <2>9
<1>13. /\ Highlight(info) = SubSeq(source, b + 1, stop)
       /\ Printed(info) \/ info.startLine # info.endLine
  <2>1. CASE N(b, e) = {}
    BY <1>11, <2>1
  <2>2. CASE N(b, e) # {}
    BY <1>12, <2>2
  <2>3. QED
    BY <2>1, <2>2
<1>14. first + (last - first) = last
  BY <1>3, <1>4
<1>15. /\ b \in info.firstLine .. info.firstLine + info.firstLineLength
       /\ N(info.firstLine, info.firstLine + info.firstLineLength) = {}
  <2> HIDE DEF N, first, last, info
  <2> QED BY <1>1, <1>2, <1>3, <1>4, <1>5, <1>14
<1>16. QED
  BY <1>1, <1>13, <1>15 DEF stop, end
-----------------------------------------------------------------------------
(* What follows fpTokenize leaves the tokens alone and adds no lexical error. *)

LaterErrors == {"invalid token", "unexpected end of input", "invalid chain",
                "expected token", "expected chain after import",
                "expected identifier after import as", "unexpected token"}

\* The errors are a list, each with a range that can be shown.
Listed ==
  /\ \E S : errors \in Seq(S)
  /\ \A i \in DOMAIN errors : Ranged(source, errors[i].range)

\* es is the list of errors, with others that are not lexical.
Adds(es) ==
  /\ \E S : es \in Seq(S)
  /\ \A i \in DOMAIN es : Ranged(source, es[i].range)
  /\ (\A i \in DOMAIN es : es[i].message \notin LexicalErrors) <=> Lexed

LEMMA AppendAdds ==
  ASSUME NEW es, Adds(es),
         NEW x, x.message \notin LexicalErrors, Ranged(source, x.range)
  PROVE  Adds(Append(es, x))
<1>1. PICK S : es \in Seq(S)
  BY DEF Adds
<1> DEFINE fs == Append(es, x)
<1>2. /\ es \in Seq(S \cup {x}) /\ x \in S \cup {x}
  BY <1>1, SeqMonotonic
<1>3. /\ fs \in Seq(S \cup {x}) /\ Len(fs) = Len(es) + 1 /\ Len(es) \in Nat
      /\ DOMAIN fs = 1 .. Len(es) + 1 /\ DOMAIN es = 1 .. Len(es)
      /\ \A i \in 1 .. Len(es) : fs[i] = es[i]
      /\ fs[Len(es) + 1] = x
  BY <1>2, AppendProperties, LenProperties
<1> HIDE DEF fs
<1>4. \A i \in DOMAIN fs : i \in DOMAIN es \/ i = Len(es) + 1
  BY <1>3
<1>5. (\A i \in DOMAIN es : es[i].message \notin LexicalErrors)
        <=> \A i \in DOMAIN fs : fs[i].message \notin LexicalErrors
  BY <1>3, <1>4
<1>6. \A i \in DOMAIN fs : Ranged(source, fs[i].range)
  BY <1>3, <1>4 DEF Adds
<1>7. QED
  BY <1>3, <1>5, <1>6 DEF Adds, fs

\* An error at a token has the range of the token.
LEMMA LaterIs ==
  ASSUME Progress, NEW message \in LaterErrors, NEW i \in 1 .. Len(tokens)
  PROVE  /\ ErrorAt(message, i).message \notin LexicalErrors
         /\ Ranged(source, ErrorAt(message, i).range)
<1>1. ErrorAt(message, i).message = message /\ ErrorAt(message, i).range = tokens[i]
  BY DEF ErrorAt
<1>2. tokens[i] \in Token
  BY ElementOfSeq DEF Progress
<1>3. tokens[i].begin < tokens[i].end /\ tokens[i].end <= Len(source)
  BY ProgressOrders DEF TokensInOrder
<1>4. Len(source) \in Nat
  BY SourcesAssumption DEF Progress
<1>5. Ranged(source, tokens[i])
  BY <1>2, <1>3, <1>4 DEF Ranged, Token
<1>6. QED
  BY <1>1, <1>5 DEF LaterErrors, LexicalErrors

LEMMA ClassifiedAdds ==
  ASSUME NEW ks, Listed, Progress, Len(tokens) \in Nat
  PROVE  Adds(Classified(ks))
<1> DEFINE S == 0 .. Len(tokens)
           x(n) == ErrorAt("invalid token", n)
           Value(g, n) == IF n = 0 THEN errors
                          ELSE IF ks[n] = "ERROR" THEN Append(g[n - 1], x(n))
                          ELSE g[n - 1]
           Is(f) == f = [n \in S |-> Value(f, n)]
           after == CHOOSE f : Is(f)
<1>1. PICK R : errors \in Seq(R)
  BY DEF Listed
<1> DEFINE V == Seq(R \cup {x(n) : n \in S})
           G == [g \in [S -> V] |-> [n \in S |-> Value(g, n)]]
           m == [n \in S |-> n]
<1>2. errors \in V
  BY <1>1, SeqMonotonic
<1>3. \A n \in S : x(n) \in R \cup {x(i) : i \in S}
  OBVIOUS
<1>4. \A n \in S : n # 0 => n - 1 \in S /\ m[n - 1] < m[n]
  OBVIOUS
<1>5. ASSUME NEW g \in [S -> V], NEW n \in S
      PROVE  Value(g, n) \in V
  <2> HIDE DEF x, S
  <2>1. CASE n = 0
    BY <1>2, <2>1
  <2>2. CASE n # 0
    <3>1. g[n - 1] \in V
      BY <1>4, <2>2
    <3>2. Append(g[n - 1], x(n)) \in V
      BY <1>3, <3>1, AppendProperties
    <3>3. QED
      BY <2>2, <3>1, <3>2
  <2>3. QED
    BY <2>1, <2>2
<1>6. ASSUME NEW g \in [S -> V], NEW h \in [S -> V], NEW n \in S,
             \A k \in S : m[k] < m[n] => g[k] = h[k]
      PROVE  Value(g, n) = Value(h, n)
  <2> HIDE DEF x, S, V, m
  <2>1. n # 0 => g[n - 1] = h[n - 1]
    BY <1>4, <1>6
  <2>2. QED
    BY <2>1
<1>7. Recursive(G, S, V, m)
  <2>1. m \in [S -> Nat]
    OBVIOUS
  <2>2. G \in [[S -> V] -> [S -> V]]
    <3> HIDE DEF Value, V, S
    <3> QED BY <1>5
  <2>3. ASSUME NEW g \in [S -> V], NEW h \in [S -> V], NEW n \in S,
               \A k \in S : m[k] < m[n] => g[k] = h[k]
        PROVE  G[g][n] = G[h][n]
    <3>1. Value(g, n) = Value(h, n)
      BY <1>6, <2>3
    <3> HIDE DEF Value, m, V, S
    <3>2. QED
      BY <3>1
  <2> HIDE DEF G, m, S, V
  <2>4. QED
    BY <2>1, <2>2, <2>3 DEF Recursive
<1>8. \E f : Is(f)
  <2>1. V # {}
    BY <1>2
  <2>2. PICK f \in [S -> V] : f = G[f]
    <3> HIDE DEF G, m, S, V
    <3> QED BY <1>7, <2>1, RecursionTheorem
  <2>3. Is(f)
    <3> HIDE DEF Value, V, S
    <3> QED BY <2>2
  <2>4. QED
    BY <2>3
<1>9. Is(after)
  <2> HIDE DEF Is
  <2> QED BY <1>8
<1>10. Classified(ks) = after[Len(tokens)]
  BY Zenon DEF Classified
<1> HIDE DEF after
<1>11. \A n \in S : after[n] = Value(after, n)
  <2> HIDE DEF Value, S
  <2> QED BY <1>9
<1> DEFINE T == {n \in Nat : n \in S => Adds(after[n])}
<1>12. 0 \in T
  <2>1. after[0] = errors
    <3>1. 0 \in S
      OBVIOUS
    <3> HIDE DEF x, S
    <3>2. QED
      BY <1>11, <3>1
  <2>2. Adds(errors)
    BY DEF Adds, Listed, Lexed
  <2>3. QED
    BY <2>1, <2>2
<1>13. ASSUME NEW n \in Nat, n \in T
       PROVE  n + 1 \in T
  <2>1. SUFFICES ASSUME n + 1 \in S
                 PROVE  Adds(after[n + 1])
    OBVIOUS
  <2>2. Adds(after[n])
    BY <1>13, <2>1
  <2>3. after[n + 1] = IF ks[n + 1] = "ERROR" THEN Append(after[n], x(n + 1)) ELSE after[n]
    <3>1. n + 1 # 0 /\ (n + 1) - 1 = n
      OBVIOUS
    <3> HIDE DEF x, S
    <3>2. QED
      BY <1>11, <2>1, <3>1
  <2>4. x(n + 1).message \notin LexicalErrors /\ Ranged(source, x(n + 1).range)
    <3>1. "invalid token" \in LaterErrors /\ n + 1 \in 1 .. Len(tokens)
      BY <2>1 DEF LaterErrors
    <3>2. QED
      BY <3>1, LaterIs
  <2> HIDE DEF x
  <2>5. QED
    BY <2>2, <2>3, <2>4, AppendAdds
<1>14. Nat \subseteq T
  <2> HIDE DEF T
  <2> QED BY <1>12, <1>13, SetInduction
<1>15. QED
  BY <1>10, <1>14

\* fs is a C stack whose calls each read a token of this source.
Stacked(fs) ==
  /\ \E S : fs \in Seq(S)
  /\ \A i \in DOMAIN fs : "node" \in DOMAIN fs[i] /\ fs[i].node \in 1 .. Len(tokens)

\* Where the parser is: at a token or after the last; fpTokenize has not begun it.
Placed ==
  /\ nextToken \in 1 .. Len(tokens) + 1
  /\ Stacked(frames)
  /\ phase = "tokenize" => nextToken = 1 /\ frames = <<>>

LEMMA StackedPush ==
  ASSUME NEW fs, Stacked(fs), NEW f, "node" \in DOMAIN f, f.node \in 1 .. Len(tokens)
  PROVE  Stacked(Append(fs, f))
<1>1. PICK S : fs \in Seq(S)
  BY DEF Stacked
<1>2. fs \in Seq(S \cup {f}) /\ f \in S \cup {f}
  BY <1>1, SeqMonotonic
<1> DEFINE gs == Append(fs, f)
<1>3. /\ gs \in Seq(S \cup {f}) /\ Len(fs) \in Nat
      /\ DOMAIN gs = 1 .. Len(fs) + 1 /\ DOMAIN fs = 1 .. Len(fs)
      /\ \A i \in 1 .. Len(fs) : gs[i] = fs[i]
      /\ gs[Len(fs) + 1] = f
  BY <1>2, AppendProperties, LenProperties
<1> HIDE DEF gs
<1>4. \A i \in DOMAIN gs : i \in DOMAIN fs \/ i = Len(fs) + 1
  BY <1>3
<1>5. QED
  BY <1>3, <1>4 DEF Stacked, gs

LEMMA StackedPop ==
  ASSUME NEW fs, Stacked(fs), fs # <<>>
  PROVE  Stacked(Front(fs))
<1>1. PICK S : fs \in Seq(S)
  BY DEF Stacked
<1>2. Len(fs) \in Nat \ {0} /\ DOMAIN fs = 1 .. Len(fs)
  BY <1>1, EmptySeq, LenProperties
<1> DEFINE gs == Front(fs)
<1>3. \A i \in 1 .. Len(fs) - 1 : fs[i] \in S
  BY <1>1, <1>2, ElementOfSeq
<1>4. /\ gs \in Seq(S) /\ Len(gs) = Len(fs) - 1
      /\ \A i \in 1 .. Len(fs) - 1 : gs[i] = fs[i]
  BY <1>2, <1>3, SubSeqProperties DEF Front
<1>5. DOMAIN gs = 1 .. Len(fs) - 1
  BY <1>4, LenProperties
<1> HIDE DEF gs
<1>6. QED
  BY <1>2, <1>4, <1>5 DEF Stacked, gs

LEMMA StackedReplace ==
  ASSUME NEW fs, Stacked(fs), fs # <<>>,
         NEW f, "node" \in DOMAIN f, f.node \in 1 .. Len(tokens)
  PROVE  Stacked(ReplaceAt(fs, Len(fs), f))
<1>1. PICK S : fs \in Seq(S)
  BY DEF Stacked
<1>2. fs \in Seq(S \cup {f}) /\ f \in S \cup {f}
  BY <1>1, SeqMonotonic
<1>3. Len(fs) \in 1 .. Len(fs) /\ DOMAIN fs = 1 .. Len(fs)
  BY <1>1, EmptySeq, LenProperties
<1> DEFINE gs == ReplaceAt(fs, Len(fs), f)
<1>4. /\ gs \in Seq(S \cup {f}) /\ Len(gs) = Len(fs)
      /\ \A j \in 1 .. Len(fs) : gs[j] = IF j = Len(fs) THEN f ELSE fs[j]
  BY <1>2, <1>3, ExceptSeq DEF ReplaceAt
<1>5. DOMAIN gs = 1 .. Len(fs)
  BY <1>4, LenProperties
<1> HIDE DEF gs
<1>6. QED
  BY <1>3, <1>4, <1>5 DEF Stacked, gs

\* The innermost call reads a token; so it does with other steps left to do.
LEMMA TopIs ==
  ASSUME Stacked(frames), frames # <<>>
  PROVE  /\ "node" \in DOMAIN Top /\ Top.node \in 1 .. Len(tokens)
         /\ "node" \in DOMAIN Done /\ Done.node = Top.node
         /\ \A steps : LET f == [Done EXCEPT !.todo = steps]
                       IN  "node" \in DOMAIN f /\ f.node = Top.node
         /\ \A i, j : LET f == [Done EXCEPT !.sigBegin = i, !.sigEnd = j]
                      IN  "node" \in DOMAIN f /\ f.node = Top.node
         /\ Stacked(Skip)
         /\ Len(tokens) \in 1 .. Len(tokens)
<1>1. PICK S : frames \in Seq(S)
  BY DEF Stacked
<1>2. Len(frames) \in DOMAIN frames
  BY <1>1, EmptySeq, LenProperties
<1>3. "node" \in DOMAIN Top /\ Top.node \in 1 .. Len(tokens)
  BY <1>2 DEF Stacked, Top, Last
<1>4. "node" \in DOMAIN Done /\ Done.node = Top.node
  BY <1>3 DEF Done
<1>5. Stacked(Skip)
  BY <1>3, <1>4, StackedReplace DEF Skip
<1> HIDE DEF Top, Done
<1>6. QED
  BY <1>3, <1>4, <1>5
-----------------------------------------------------------------------------
\* A step of fpParse: one error more at most, and the parser stays placed.
Keeps == Adds(errors') /\ nextToken' \in 1 .. Len(tokens) + 1 /\ Stacked(frames')

LEMMA SameErrors ==
  ASSUME Listed, errors' = errors
  PROVE  Adds(errors')
BY DEF Adds, Listed, Lexed

LEMMA OneError ==
  ASSUME Progress, Listed, NEW message \in LaterErrors, NEW i \in 1 .. Len(tokens),
         errors' = Append(errors, ErrorAt(message, i))
  PROVE  Adds(errors')
<1>1. Adds(errors)
  BY DEF Adds, Listed, Lexed
<1>2. /\ ErrorAt(message, i).message \notin LexicalErrors
      /\ Ranged(source, ErrorAt(message, i).range)
  BY LaterIs
<1>3. QED
  BY <1>1, <1>2, AppendAdds

LEMMA CallKeeps ==
  ASSUME Progress, Listed, Placed, NEW fs, Stacked(fs), NEW single, NEW into,
         AtEnd => Len(tokens) \in 1 .. Len(tokens),
         CallBody(fs, single, into)
  PROVE  Keeps
<1>1. Len(tokens) \in Nat
  BY LenProperties DEF Progress
<1>2. CASE AtEnd
  <2>1. /\ errors' = Append(errors, ErrorAt("unexpected end of input", nextToken - 1))
        /\ frames' = fs /\ nextToken' = nextToken
    BY <1>2 DEF CallBody
  <2>2. nextToken - 1 \in 1 .. Len(tokens)
    BY <1>1, <1>2 DEF Placed, AtEnd
  <2>3. "unexpected end of input" \in LaterErrors
    BY DEF LaterErrors
  <2>4. Adds(errors')
    BY <2>1, <2>2, <2>3, OneError
  <2>5. QED
    BY <2>1, <2>4 DEF Keeps, Placed
<1>3. CASE ~AtEnd
  <2> DEFINE f == Frame(nextToken, single, into)
  <2>1. errors' = errors /\ frames' = Append(fs, f) /\ nextToken' = nextToken + 1
    BY <1>3 DEF CallBody
  <2>2. nextToken \in 1 .. Len(tokens) /\ nextToken + 1 \in 1 .. Len(tokens) + 1
    BY <1>1, <1>3 DEF Placed, AtEnd
  <2>3. "node" \in DOMAIN f /\ f.node = nextToken
    BY DEF Frame
  <2> HIDE DEF f
  <2>4. Stacked(frames')
    BY <2>1, <2>2, <2>3, StackedPush
  <2>5. QED
    BY <2>1, <2>2, <2>4, SameErrors DEF Keeps
<1>4. QED
  BY <1>2, <1>3

LEMMA FailKeeps ==
  ASSUME Progress, Listed, Placed, frames # <<>>,
         NEW message \in LaterErrors, NEW i \in 1 .. Len(tokens), Fail(message, i)
  PROVE  Keeps
<1>1. /\ errors' = Append(errors, ErrorAt(message, i))
      /\ frames' = Front(frames) /\ nextToken' = nextToken
  BY DEF Fail, ReturnWith
<1>2. Stacked(frames')
  BY <1>1, StackedPop DEF Placed
<1>3. QED
  BY <1>1, <1>2, OneError DEF Keeps, Placed

\* A bracket that is missing is missed at the token that is there, or at the last.
LEMMA ExpectKeeps ==
  ASSUME Progress, Listed, Placed, frames # <<>>, Expect
  PROVE  Keeps
<1>1. PICK kind : IF NextIs(kind)
                  THEN /\ nextToken' = nextToken + 1
                       /\ frames' = Skip
                       /\ errors' = errors
                  ELSE Fail("expected token", IF AtEnd THEN Len(tokens) ELSE nextToken)
  BY DEF Expect
<1>2. Len(tokens) \in Nat /\ nextToken \in 1 .. Len(tokens) + 1
  BY LenProperties DEF Progress, Placed
<1>3. Stacked(Skip) /\ Len(tokens) \in 1 .. Len(tokens)
  BY TopIs DEF Placed
<1>4. CASE NextIs(kind)
  <2>1. nextToken' \in 1 .. Len(tokens) + 1
    BY <1>1, <1>2, <1>4 DEF NextIs, AtEnd
  <2>2. QED
    BY <1>1, <1>3, <1>4, <2>1, SameErrors DEF Keeps
<1>5. CASE ~NextIs(kind)
  <2> DEFINE i == IF AtEnd THEN Len(tokens) ELSE nextToken
  <2>1. i \in 1 .. Len(tokens)
    BY <1>2, <1>3 DEF AtEnd
  <2>2. "expected token" \in LaterErrors
    BY DEF LaterErrors
  <2>3. Fail("expected token", i)
    BY <1>1, <1>5
  <2> HIDE DEF i
  <2>4. QED
    BY <2>1, <2>2, <2>3, FailKeeps
<1>6. QED
  BY <1>4, <1>5

\* A signature ends after a token of this source.
LEMMA SignatureKeeps ==
  ASSUME Progress, Listed, Placed, frames # <<>>, Signature
  PROVE  Keeps
<1> DEFINE after == Min({i \in nextToken .. Len(tokens) : kinds[i] # "CHAIN"}
                        \cup {Len(tokens) + 1})
<1>1. Len(tokens) \in Nat /\ nextToken \in 1 .. Len(tokens) + 1
  BY LenProperties DEF Progress, Placed
<1>2. after \in 1 .. Len(tokens) + 1
  <2> DEFINE S == {i \in nextToken .. Len(tokens) : kinds[i] # "CHAIN"}
                  \cup {Len(tokens) + 1}
  <2>1. S \in SUBSET Nat /\ S # {} /\ S \in SUBSET (1 .. Len(tokens) + 1)
    BY <1>1
  <2> HIDE DEF S
  <2>2. Min(S) \in S
    BY <2>1, MinIs
  <2>3. QED
    BY <2>1, <2>2 DEF S
<1> HIDE DEF after
<1>3. errors' = errors
  BY DEF Signature
<1>4. \/ /\ after <= Len(tokens) /\ nextToken' = after + 1
         /\ frames' = ReplaceAt(frames, Len(frames),
                        [Done EXCEPT !.sigBegin = nextToken, !.sigEnd = after])
      \/ frames' = Skip /\ nextToken' = nextToken
  BY Zenon DEF Signature, after
<1>5. nextToken' \in 1 .. Len(tokens) + 1
  BY <1>1, <1>2, <1>4
<1>6. Stacked(frames')
  <2> DEFINE f == [Done EXCEPT !.sigBegin = nextToken, !.sigEnd = after]
  <2>1. /\ "node" \in DOMAIN f /\ f.node = Top.node /\ Top.node \in 1 .. Len(tokens)
        /\ Stacked(Skip)
    BY TopIs DEF Placed
  <2> HIDE DEF f
  <2>2. Stacked(ReplaceAt(frames, Len(frames), f))
    BY <2>1, StackedReplace DEF Placed
  <2>3. QED
    BY <1>4, <2>1, <2>2 DEF f
<1>7. QED
  BY <1>3, <1>5, <1>6, SameErrors DEF Keeps

\* A word that may follow is read when it does.
LEMMA OptionalKeeps ==
  ASSUME Progress, Listed, Placed, frames # <<>>, Optional
  PROVE  Keeps
<1>1. Len(tokens) \in Nat /\ nextToken \in 1 .. Len(tokens) + 1
  BY LenProperties DEF Progress, Placed
<1>2. PICK word, steps :
        IF NextIs(word)
        THEN /\ nextToken' = nextToken + 1
             /\ frames' = ReplaceAt(frames, Len(frames), [Done EXCEPT !.todo = steps])
        ELSE frames' = Skip /\ nextToken' = nextToken
  BY DEF Optional
<1>3. errors' = errors
  BY DEF Optional
<1>4. nextToken' \in 1 .. Len(tokens) + 1
  BY <1>1, <1>2 DEF NextIs, AtEnd
<1>5. Stacked(frames')
  <2> DEFINE f == [Done EXCEPT !.todo = steps]
  <2>1. /\ "node" \in DOMAIN f /\ f.node = Top.node /\ Top.node \in 1 .. Len(tokens)
        /\ Stacked(Skip)
    BY TopIs DEF Placed
  <2> HIDE DEF f
  <2>2. Stacked(ReplaceAt(frames, Len(frames), f))
    BY <2>1, StackedReplace DEF Placed
  <2>3. QED
    BY <1>2, <2>1, <2>2 DEF f
<1>6. QED
  BY <1>3, <1>4, <1>5, SameErrors DEF Keeps

LEMMA BodyKeeps ==
  ASSUME Progress, Listed, Placed, fpParseBody
  PROVE  Keeps
<1>0. frames # <<>>
  BY DEF fpParseBody
<1>1. Stacked(Skip) /\ Len(tokens) \in 1 .. Len(tokens) /\ Top.node \in 1 .. Len(tokens)
  BY <1>0, TopIs DEF Placed
<1>2. ASSUME errors' = errors, nextToken' = nextToken, frames' = Skip
      PROVE  Keeps
  BY <1>1, <1>2, SameErrors DEF Keeps, Placed
<1>3. ASSUME NEW i, NEW table, errors' = errors, ReturnWith(i, table)
      PROVE  Keeps
  <2>1. frames' = Front(frames) /\ nextToken' = nextToken
    BY <1>3 DEF ReturnWith
  <2>2. QED
    BY <1>0, <1>3, <2>1, SameErrors, StackedPop DEF Keeps, Placed
<1>4. ASSUME NEW message \in LaterErrors, Fail(message, Top.node)
      PROVE  Keeps
  BY <1>0, <1>1, <1>4, FailKeeps
<1>5. ASSUME NEW single, NEW into, CallBody(Skip, single, into)
      PROVE  Keeps
  BY <1>1, <1>5, CallKeeps
<1>6. /\ "invalid chain" \in LaterErrors /\ "unexpected token" \in LaterErrors
      /\ "expected chain after import" \in LaterErrors
      /\ "expected identifier after import as" \in LaterErrors
  BY DEF LaterErrors
<1>7. CASE Chain
  BY <1>2, <1>4, <1>6, <1>7 DEF Chain
<1>8. CASE Signature
  BY <1>0, <1>8, SignatureKeeps
<1>9. CASE SigBinds
  BY <1>2, <1>9 DEF SigBinds
<1>10. CASE Units \/ NextUnit
  BY <1>2, <1>5, <1>10 DEF Units, NextUnit
<1>11. CASE Operand \/ ImportPath
  BY <1>5, <1>11 DEF Operand, ImportPath
<1>12. CASE Expect
  BY <1>0, <1>12, ExpectKeeps
<1>13. CASE Optional
  BY <1>0, <1>13, OptionalKeeps
<1>14. CASE CheckPath
  BY <1>2, <1>4, <1>6, <1>14 DEF CheckPath
<1>15. CASE CheckName
  BY <1>2, <1>3, <1>4, <1>6, <1>15 DEF CheckName
<1>16. CASE Unexpected
  BY <1>4, <1>6, <1>16 DEF Unexpected
<1>17. CASE Return
  BY <1>3, <1>17 DEF Return
<1>18. QED
  BY <1>7, <1>8, <1>9, <1>10, <1>11, <1>12, <1>13, <1>14, <1>15, <1>16, <1>17,
     Zenon DEF fpParseBody

LEMMA ParseStep ==
  ASSUME fpParse, Progress, Listed, Placed
  PROVE  /\ phase # "tokenize" /\ phase' # "tokenize"
         /\ UNCHANGED <<source, curr, begin, state, tokens>>
         /\ Listed' /\ Placed' /\ (Lexed' <=> Lexed)
<1>1. /\ phase # "tokenize" /\ phase' # "tokenize"
      /\ UNCHANGED <<source, curr, begin, state, tokens>>
  <2>1. CASE fpClassifyTokens
    BY <2>1 DEF fpClassifyTokens
  <2>2. CASE BeginProgram \/ fpParseBody \/ EndProgram
    BY <2>2 DEF BeginProgram, fpParseBody, EndProgram
  <2>3. QED
    BY <2>1, <2>2 DEF fpParse
<1>2. Len(tokens) \in Nat /\ nextToken \in 1 .. Len(tokens) + 1 /\ Stacked(frames)
  BY LenProperties DEF Progress, Placed
<1>3. Keeps
  <2>1. CASE fpClassifyTokens
    <3>1. errors' = Classified(kinds') /\ nextToken' = nextToken /\ frames' = frames
      BY <2>1 DEF fpClassifyTokens
    <3>2. Adds(errors')
      BY <1>2, <3>1, ClassifiedAdds
    <3>3. QED
      BY <1>2, <3>1, <3>2 DEF Keeps
  <2>2. CASE BeginProgram
    <3>1. ~AtEnd /\ frames = <<>> /\ CallBody(<<>>, FALSE, "root")
      BY <2>2 DEF BeginProgram, fpHasNextUnit
    <3>2. QED
      BY <1>2, <3>1, CallKeeps
  <2>3. CASE fpParseBody
    BY <2>3, BodyKeeps
  <2>4. CASE EndProgram
    <3>1. nextToken' = nextToken /\ frames' = frames
      BY <2>4 DEF EndProgram
    <3>2. CASE AtEnd
      BY <1>2, <2>4, <3>1, <3>2, SameErrors DEF EndProgram, Keeps
    <3>3. CASE ~AtEnd
      <4>1. errors' = Append(errors, ErrorAt("unexpected token", nextToken))
        BY <2>4, <3>3 DEF EndProgram
      <4>2. "unexpected token" \in LaterErrors /\ nextToken \in 1 .. Len(tokens)
        BY <1>2, <3>3 DEF LaterErrors, AtEnd
      <4>3. Adds(errors')
        BY <4>1, <4>2, OneError
      <4>4. QED
        BY <1>2, <3>1, <4>3 DEF Keeps
    <3>4. QED
      BY <3>2, <3>3
  <2>5. QED
    BY <2>1, <2>2, <2>3, <2>4 DEF fpParse
<1>4. Listed' /\ (Lexed' <=> Lexed)
  BY <1>1, <1>3 DEF Keeps, Adds, Listed, Lexed
<1>5. Placed'
  BY <1>1, <1>3 DEF Keeps, Placed, Stacked
<1>6. QED
  BY <1>1, <1>4, <1>5
-----------------------------------------------------------------------------
\* What fpTokenize refuses has begun before where it is refused.
LEMMA RejectRanged ==
  ASSUME Progress, phase = "tokenize", Listed, state \notin {0, 4},
         NEW message, NEW e \in Nat, curr <= e, e <= Len(source) + 1,
         Reject(message, e)
  PROVE  Listed'
<1> DEFINE x == [message |-> message, range |-> Span(begin, e)]
<1>1. errors' = Append(errors, x) /\ source' = source
  BY DEF Reject
<1>2. Ranged(source, x.range)
  <2>1. /\ begin \in Nat /\ curr \in Nat /\ Len(source) \in Nat
        /\ begin < curr /\ curr <= e /\ e <= Len(source) + 1
    BY SourcesAssumption DEF Progress
  <2>2. x.range.begin = begin /\ x.range.end = e
    BY DEF Span
  <2> HIDE DEF x
  <2>3. QED
    BY <2>1, <2>2 DEF Ranged
<1> HIDE DEF x
<1>3. PICK S : errors \in Seq(S)
  BY DEF Listed
<1>4. errors \in Seq(S \cup {x}) /\ x \in S \cup {x}
  BY <1>3, SeqMonotonic
<1> DEFINE fs == Append(errors, x)
<1>5. /\ fs \in Seq(S \cup {x}) /\ Len(errors) \in Nat
      /\ DOMAIN fs = 1 .. Len(errors) + 1 /\ DOMAIN errors = 1 .. Len(errors)
      /\ \A i \in 1 .. Len(errors) : fs[i] = errors[i]
      /\ fs[Len(errors) + 1] = x
  BY <1>4, AppendProperties, LenProperties
<1> HIDE DEF fs
<1>6. \A i \in DOMAIN fs : Ranged(source, fs[i].range)
  <2>1. \A i \in DOMAIN fs : i \in DOMAIN errors \/ i = Len(errors) + 1
    BY <1>5
  <2>2. QED
    BY <1>2, <1>5, <2>1 DEF Listed
<1>7. QED
  BY <1>1, <1>5, <1>6 DEF Listed, fs

LEMMA TokenizeListed ==
  ASSUME Progress, Listed, fpTokenize
  PROVE  Listed'
<1>1. /\ phase = "tokenize" /\ Len(source) \in Nat
      /\ curr \in Nat /\ curr + 1 \in Nat /\ curr <= curr + 1 /\ curr <= Len(source) + 1
  BY SourcesAssumption DEF fpTokenize, Progress
<1>2. ASSUME NEW message, NEW e, e = curr \/ (e = curr + 1 /\ HasMore),
             state \notin {0, 4}, Reject(message, e)
      PROVE  Listed'
  <2>1. e \in Nat /\ curr <= e /\ e <= Len(source) + 1
    BY <1>1, <1>2 DEF HasMore
  <2>2. QED
    BY <1>1, <1>2, <2>1, RejectRanged
<1>3. ASSUME NEW q, NEW ts, Step(q, ts)
      PROVE  Listed'
  BY <1>3 DEF Step, Listed
<1>4. \A q \in {2, 3, 6, 7} \cup 8 .. 15 : q \notin {0, 4}
  OBVIOUS
<1>5. CASE Between \/ Word \/ InComment
  BY <1>3, <1>5, Zenon DEF Between, Word, InComment
<1>6. CASE InString
  <2>1. state \notin {0, 4}
    BY <1>4, <1>6 DEF InString
  <2>2. QED
    BY <1>2, <1>3, <1>6, <2>1 DEF InString
<1>7. CASE InEscape
  <2>1. state \notin {0, 4}
    BY <1>4, <1>7 DEF InEscape
  <2>2. QED
    BY <1>2, <1>3, <1>7, <2>1 DEF InEscape
<1>8. CASE InUnicode
  <2>1. state \notin {0, 4}
    BY <1>4, <1>8 DEF InUnicode
  <2>2. QED
    BY <1>2, <1>3, <1>8, <2>1 DEF InUnicode
<1>9. CASE EndOfText
  <2>1. CASE state = 5
    <3>1. state \notin {0, 4}
      BY <2>1
    <3>2. QED
      BY <1>2, <1>9, <2>1, <3>1 DEF EndOfText
  <2>2. CASE state # 5
    BY <1>9, <2>2 DEF EndOfText, Listed
  <2>3. QED
    BY <2>1, <2>2
<1>10. QED
  BY <1>5, <1>6, <1>7, <1>8, <1>9, Zenon DEF fpTokenize
-----------------------------------------------------------------------------
ReadInv == LexInv /\ Listed /\ Placed

LEMMA ReadInvInit == ReaderInit => ReadInv
<1> SUFFICES ASSUME ReaderInit
             PROVE  ReadInv
  OBVIOUS
<1>1. Progress
  BY ProgressInit DEF ReaderInit
<1>2. errors = <<>> /\ state = 0 /\ nextToken = 1 /\ frames = <<>>
  BY DEF ReaderInit, TokenizerInit
<1>3. Scanned(source, curr, begin, state)
  BY <1>2 DEF Scanned
<1>4. <<>> \in Seq({}) /\ DOMAIN <<>> = {}
  BY EmptySeq
<1>5. Listed
  BY <1>2, <1>4 DEF Listed
<1>6. Placed
  BY <1>1, <1>2, <1>4, LenProperties DEF Placed, Stacked, Progress
<1>7. QED
  BY <1>1, <1>2, <1>3, <1>5, <1>6 DEF ReadInv, LexInv

\* The whole reader preserves the invariant, and each of its steps is one of
\* the lexicon or none.
LEMMA ReadStep == ReadInv /\ [Next]_vars => ReadInv' /\ [Items!LexiconNext]_Items!lvars
<1> SUFFICES ASSUME ReadInv, [Next]_vars
             PROVE  ReadInv' /\ Refines
  BY DEF Refines
<1>1. Len(source) \in Nat /\ curr \in Nat /\ Len(tokens) \in Nat
  BY SourcesAssumption, LenProperties DEF ReadInv, LexInv, Progress
<1>2. CASE fpTokenize /\ UNCHANGED rvars
  <2>1. LexInv' /\ Refines
    BY <1>2, TokenizeStep DEF ReadInv
  <2>2. Listed'
    BY <1>2, TokenizeListed DEF ReadInv, LexInv
  <2>3. Placed'
    <3>1. nextToken' = 1 /\ frames' = <<>>
      BY <1>2 DEF ReadInv, Placed, fpTokenize, rvars
    <3>2. Len(tokens') \in Nat
      BY <2>1, LenProperties DEF LexInv, Progress
    <3>3. <<>> \in Seq({}) /\ DOMAIN <<>> = {}
      BY EmptySeq
    <3>4. QED
      BY <3>1, <3>2, <3>3 DEF Placed, Stacked
  <2>4. QED
    BY <2>1, <2>2, <2>3 DEF ReadInv
<1>3. CASE fpParse
  <2>1. /\ phase # "tokenize" /\ phase' # "tokenize"
        /\ UNCHANGED <<source, curr, begin, state, tokens>>
        /\ Listed' /\ Placed' /\ (Lexed' <=> Lexed)
    BY <1>3, ParseStep DEF ReadInv, LexInv
  <2>2. Progress'
    BY <2>1 DEF ReadInv, LexInv, Progress, Ordered
  <2>3. ItemBegin' = ItemBegin
    BY <1>1, <2>1, ItemBeginIs, ItemBeginThen
  <2>4. Verdict' = Verdict
    BY <2>1 DEF Verdict
  <2>5. QED
    BY <2>1, <2>2, <2>3, <2>4 DEF ReadInv, LexInv, Refines, Items!lvars
<1>4. CASE UNCHANGED vars
  <2>1. UNCHANGED <<source, curr, begin, state, tokens, errors, phase, nextToken, frames>>
    BY <1>4 DEF vars, tvars, rvars
  <2>2. Progress' /\ Scanned(source, curr, begin, state)' = Scanned(source, curr, begin, state)
    BY <2>1 DEF ReadInv, LexInv, Progress, Ordered
  <2>3. ItemBegin' = ItemBegin
    BY <1>1, <2>1, ItemBeginIs, ItemBeginThen
  <2>4. Verdict' = Verdict
    BY <2>1 DEF Verdict, Lexed
  <2>5. Listed' /\ Placed'
    BY <2>1 DEF ReadInv, Listed, Placed, Stacked
  <2>6. QED
    BY <2>1, <2>2, <2>3, <2>4, <2>5 DEF ReadInv, LexInv, Refines, Items!lvars
<1>5. QED
  BY <1>2, <1>3, <1>4 DEF Next

\* Whatever text a program is, the ranges of its tokens lie in the text, are
\* not empty, and follow each other without overlap, at every moment of the
\* reader (parser.c, fpTokenize, and every function of the parser after it).
THEOREM TokensAreInOrder == Spec => []TokensInOrder
<1>1. ReadInv => TokensInOrder
  BY ProgressOrders DEF ReadInv, LexInv
<1>2. QED
  BY <1>1, ReadInvInit, ReadStep, PTL DEF Spec

\* Whatever text a program is, the sixteen states of fpTokenize read the items
\* of the lexicon, each whole, in the order of the text, and refuse the texts
\* the lexicon refuses: a character belongs to the same item whatever comes
\* before that item, and no later function of the parser changes the tokens.
THEOREM ReaderImplementsLexicon == Spec => ImplementsLexicon
<1>1. ReaderInit => Items!LexiconInit
  <2> SUFFICES ASSUME ReaderInit
               PROVE  Items!LexiconInit
    OBVIOUS
  <2>1. /\ source \in Sources /\ curr = 0 /\ begin = 0 /\ state = 0
        /\ tokens = <<>> /\ phase = "tokenize"
    BY DEF ReaderInit, TokenizerInit
  <2>2. Len(source) \in Nat
    BY <2>1, SourcesAssumption
  <2>3. ItemBegin = 0
    BY <2>1, <2>2, ItemBeginIs, PlaceIs
  <2>4. QED
    BY <2>1, <2>3 DEF Items!LexiconInit, Verdict
<1>2. QED
  BY <1>1, ReadInvInit, ReadStep, PTL DEF Spec, ImplementsLexicon, Items!LexiconSpec

\* Whatever text a program is, the range of every error is in the text, or reaches
\* the terminator, and findRangeInfo and printTraceLine show the line it begins on with
\* the text of the range on that line highlighted: what is refused has begun
\* before the place it is refused at, and the functions after fpTokenize have a
\* token to show, the last one at the end of the input.
THEOREM ErrorsShowTheirText == Spec => []ErrorsShowText
<1>1. ReadInv => ErrorsShowText
  <2> SUFFICES ASSUME ReadInv, NEW i \in DOMAIN errors
               PROVE  LET range == errors[i].range
                          end   == Min({range.end, Len(source)})
                          stop  == Min({end} \cup Newlines(source, range.begin, end))
                          info  == findRangeInfo(source, range)
                      IN  /\ range.begin < range.end /\ range.end <= Len(source) + 1
                          /\ Highlight(info) = SubSeq(source, range.begin + 1, stop)
                          /\ range.begin \in info.firstLine .. info.firstLine + info.firstLineLength
                          /\ Newlines(source, info.firstLine,
                                      info.firstLine + info.firstLineLength) = {}
                          /\ Printed(info) \/ info.startLine # info.endLine
    BY Zenon DEF ErrorsShowText
  <2>1. Ranged(source, errors[i].range) /\ Len(source) \in Nat
    BY SourcesAssumption DEF ReadInv, LexInv, Progress, Listed
  <2>2. QED
    BY <2>1, RangeIsShown, Zenon
<1>2. QED
  BY <1>1, ReadInvInit, ReadStep, PTL DEF Spec

-----------------------------------------------------------------------------
(* Numbers.                                                                *)

Row(class, q) ==
  CASE class = "digit" -> IF q <= 3 THEN 2 ELSE IF q <= 6 THEN 5 ELSE 8
    [] class = "sign"  -> IF q = 0 THEN 1 ELSE IF q = 7 THEN 10 ELSE 0
    [] class = "comma" -> IF q \in {2, 5, 8} THEN q + 1 ELSE 0
    [] class = "dot"   -> IF q <= 2 THEN 4 ELSE 0
    [] class = "exp"   -> IF q \in {2, 5} THEN 7 ELSE 0

Classes == {"digit", "sign", "comma", "dot", "exp"}

LEMMA NumberRows ==
  ASSUME NEW q \in 0 .. 10, NEW class \in Classes
  PROVE  NumberStep[class][q + 1] = Row(class, q)
<1>1. q = 0 \/ q = 1 \/ q = 2 \/ q = 3 \/ q = 4 \/ q = 5 \/ q = 6 \/ q = 7 \/ q = 8 \/ q = 9 \/ q = 10
  OBVIOUS
<1>2. CASE class = "digit"
  BY <1>1, <1>2 DEF Row, NumberStep
<1>3. CASE class = "sign"
  BY <1>1, <1>3 DEF Row, NumberStep
<1>4. CASE class = "comma"
  BY <1>1, <1>4 DEF Row, NumberStep
<1>5. CASE class = "dot"
  BY <1>1, <1>5 DEF Row, NumberStep
<1>6. CASE class = "exp"
  BY <1>1, <1>6 DEF Row, NumberStep
<1>7. QED
  BY <1>2, <1>3, <1>4, <1>5, <1>6 DEF Classes

-----------------------------------------------------------------------------
(* A part of a word, from its character a up to b.                         *)

Part(w, a, b) == SubSeq(w, a + 1, b)

LEMMA PartOfPart ==
  ASSUME NEW w, NEW a \in Nat, NEW b \in Nat, a <= b,
         NEW i \in Nat, NEW j \in Nat, i <= j, j <= b - a
  PROVE  Part(Part(w, a, b), i, j) = Part(w, a + i, a + j)
BY DEF Part

LEMMA LenOfPart ==
  ASSUME NEW w, NEW a \in Nat, NEW b \in Nat, a <= b
  PROVE  Len(Part(w, a, b)) = b - a
BY DEF Part

LEMMA CharOfPart ==
  ASSUME NEW w, NEW a \in Nat, NEW b \in Nat, a <= b, NEW i \in 0 .. b - a - 1
  PROVE  CharAt(Part(w, a, b), i) = Part(w, a + i, a + i + 1)
<1>1. PICK p : p = Part(w, a, b) /\ i < Len(p)
  BY LenOfPart
<1>2. CharAt(p, i) = Part(p, i, i + 1)
  BY <1>1, Zenon DEF CharAt, Part
<1>3. i \in Nat /\ i + 1 \in Nat /\ i <= i + 1 /\ i + 1 <= b - a /\ a + (i + 1) = a + i + 1
  OBVIOUS
<1>4. QED
  BY <1>1, <1>2, <1>3, PartOfPart

LEMMA RestOfPart ==
  ASSUME NEW w, NEW a \in Nat, NEW b \in Nat, a <= b, NEW i \in 0 .. b - a
  PROVE  From(Part(w, a, b), i) = Part(w, a + i, b)
<1>1. PICK p : p = Part(w, a, b) /\ Len(p) = b - a
  BY LenOfPart
<1>2. From(p, i) = Part(p, i, b - a)
  BY <1>1 DEF From, Part
<1>3. i \in Nat /\ b - a \in Nat /\ i <= b - a /\ a + (b - a) = b
  OBVIOUS
<1>4. QED
  BY <1>1, <1>2, <1>3, PartOfPart

LEMMA HeadOfPart ==
  ASSUME NEW w, NEW a \in Nat, NEW b \in Nat, a <= b, NEW i \in 0 .. b - a
  PROVE  SubSeq(Part(w, a, b), 1, i) = Part(w, a, a + i)
<1>1. PICK z \in Nat : z = 0
  OBVIOUS
<1>2. PICK p : p = Part(w, a, b)
  OBVIOUS
<1>3. SubSeq(p, 1, i) = Part(p, z, i)
  BY <1>1 DEF Part
<1>4. i \in Nat /\ z <= i /\ i <= b - a /\ a + z = a
  BY <1>1
<1>5. Part(Part(w, a, b), z, i) = Part(w, a + z, a + i)
  BY <1>4, PartOfPart
<1>6. QED
  BY <1>2, <1>3, <1>4, <1>5

-----------------------------------------------------------------------------
(* Numbers by the classes of their characters: cl[i] is that of character  *)
(* i.  Fig says that a .. b - 1 are figures, Mant with a fraction perhaps, *)
(* Expo with an exponent; In says what has been read in a state.           *)

Fig(cl, a, b) ==
  /\ a < b /\ cl[a] = "digit" /\ cl[b - 1] = "digit"
  /\ \A i \in a .. b - 1 : cl[i] \in {"digit", "comma"}
  /\ \A i \in a + 1 .. b - 1 : cl[i - 1] = "comma" => cl[i] # "comma"
FigComma(cl, a, b) == a < b /\ Fig(cl, a, b - 1) /\ cl[b - 1] = "comma"
Point(cl, u, i)  == cl[i] = "dot" /\ (i = u \/ Fig(cl, u, i))
Frac(cl, u, k)   == \E i \in u .. k - 1 : Point(cl, u, i) /\ Fig(cl, i + 1, k)
Mant(cl, u, k)   == Fig(cl, u, k) \/ Frac(cl, u, k)
After(cl, e)     == IF cl[e + 1] = "sign" THEN e + 2 ELSE e + 1
Expo(cl, u, k)   == \E e \in u .. k - 1 : /\ cl[e] = "exp" /\ Mant(cl, u, e)
                                          /\ Fig(cl, After(cl, e), k)
Signless(cl)     == IF cl[0] = "sign" THEN 1 ELSE 0

In(cl, u, q, k) ==
  CASE q = 1 -> k = 1 /\ cl[0] = "sign"
    [] q = 2 -> Fig(cl, u, k)
    [] q = 3 -> FigComma(cl, u, k)
    [] q = 4 -> u <= k - 1 /\ Point(cl, u, k - 1)
    [] q = 5 -> Frac(cl, u, k)
    [] q = 6 -> cl[k - 1] = "comma" /\ Frac(cl, u, k - 1)
    [] q = 7 -> cl[k - 1] = "exp" /\ Mant(cl, u, k - 1)
    [] q = 8 -> Expo(cl, u, k)
    [] q = 9 -> cl[k - 1] = "comma" /\ Expo(cl, u, k - 1)
    [] q = 10 -> /\ k > 1 /\ cl[k - 2] = "exp" /\ cl[k - 1] = "sign"
                 /\ Mant(cl, u, k - 2)

\* One more figure.
LEMMA FigStep ==
  ASSUME NEW cl, NEW a \in Nat, NEW b \in Nat, a <= b
  PROVE  Fig(cl, a, b + 1) <=> /\ cl[b] = "digit"
                               /\ a = b \/ Fig(cl, a, b) \/ FigComma(cl, a, b)
<1>1. b + 1 - 1 = b /\ a < b + 1
  OBVIOUS
<1>2. ASSUME Fig(cl, a, b + 1), a # b
      PROVE  Fig(cl, a, b) \/ FigComma(cl, a, b)
  <2>1. /\ cl[a] = "digit" /\ cl[b] = "digit"
        /\ \A i \in a .. b : cl[i] \in {"digit", "comma"}
        /\ \A i \in a + 1 .. b : cl[i - 1] = "comma" => cl[i] # "comma"
    BY <1>1, <1>2 DEF Fig
  <2>2. a <= b - 1 /\ b - 1 \in Nat
    BY <1>2
  <2>3. CASE cl[b - 1] = "digit"
    BY <2>1, <2>2, <2>3 DEF Fig
  <2>4. CASE cl[b - 1] = "comma"
    <3>1. a < b - 1
      BY <2>1, <2>2, <2>4
    <3>2. cl[(b - 1) - 1] = "digit"
      <4>1. (b - 1) - 1 \in a .. b /\ b - 1 \in a + 1 .. b
        BY <3>1
      <4>2. QED
        BY <2>1, <2>4, <4>1
    <3>3. Fig(cl, a, b - 1)
      BY <2>1, <3>1, <3>2 DEF Fig
    <3>4. QED
      BY <2>2, <2>4, <3>3 DEF FigComma
  <2>5. b - 1 \in a .. b
    BY <2>2
  <2>6. QED
    BY <2>1, <2>3, <2>4, <2>5
<1>3. ASSUME cl[b] = "digit", a = b
      PROVE  Fig(cl, a, b + 1)
  BY <1>3 DEF Fig
<1>4. ASSUME cl[b] = "digit", Fig(cl, a, b)
      PROVE  Fig(cl, a, b + 1)
  <2>1. \A i \in a .. b : i = b \/ i \in a .. b - 1
    OBVIOUS
  <2>2. \A i \in a + 1 .. b : i = b \/ i \in a + 1 .. b - 1
    OBVIOUS
  <2>3. QED
    BY <1>1, <1>4, <2>1, <2>2 DEF Fig
<1>5. ASSUME cl[b] = "digit", FigComma(cl, a, b)
      PROVE  Fig(cl, a, b + 1)
  <2>1. \A i \in a .. b : i = b \/ i = b - 1 \/ i \in a .. (b - 1) - 1
    OBVIOUS
  <2>2. \A i \in a + 1 .. b : i = b \/ i = b - 1 \/ i \in a + 1 .. (b - 1) - 1
    OBVIOUS
  <2>3. a < b - 1 /\ cl[(b - 1) - 1] = "digit" /\ cl[b - 1] = "comma"
    BY <1>5 DEF Fig, FigComma
  <2>4. \A i \in a + 1 .. b : cl[i - 1] = "comma" => cl[i] # "comma"
    BY <1>5, <2>2, <2>3 DEF Fig, FigComma
  <2>5. \A i \in a .. b : cl[i] \in {"digit", "comma"}
    BY <1>5, <2>1, <2>3 DEF Fig, FigComma
  <2>6. cl[a] = "digit"
    BY <1>5 DEF Fig, FigComma
  <2>7. QED
    BY <1>1, <1>5, <2>4, <2>5, <2>6 DEF Fig
<1>6. Fig(cl, a, b + 1) => cl[b] = "digit"
  BY <1>1 DEF Fig
<1>7. QED
  BY <1>2, <1>3, <1>4, <1>5, <1>6

\* What each state goes on from.
LEMMA InBefore ==
  ASSUME NEW cl, NEW k \in Nat \ {0}, NEW u, u = Signless(cl)
  PROVE  LET I(q) == In(cl, u, q, k)
             c == cl[k]
         IN  /\ ~In(cl, u, 1, k + 1)
             /\ In(cl, u, 2, k + 1)  <=> c = "digit" /\ (I(1) \/ I(2) \/ I(3))
             /\ In(cl, u, 3, k + 1)  <=> c = "comma" /\ I(2)
             /\ In(cl, u, 4, k + 1)  <=> c = "dot" /\ (I(1) \/ I(2))
             /\ In(cl, u, 5, k + 1)  <=> c = "digit" /\ (I(4) \/ I(5) \/ I(6))
             /\ In(cl, u, 6, k + 1)  <=> c = "comma" /\ I(5)
             /\ In(cl, u, 7, k + 1)  <=> c = "exp" /\ (I(2) \/ I(5))
             /\ In(cl, u, 8, k + 1)  <=> c = "digit" /\ (I(7) \/ I(8) \/ I(9) \/ I(10))
             /\ In(cl, u, 9, k + 1)  <=> c = "comma" /\ I(8)
             /\ In(cl, u, 10, k + 1) <=> c = "sign" /\ I(7)
<1> DEFINE I(q) == In(cl, u, q, k)
           J(q) == In(cl, u, q, k + 1)
           c == cl[k]
<1>0. /\ k + 1 - 1 = k /\ k + 1 - 2 = k - 1 /\ k + 1 # 1 /\ k + 1 > 1
      /\ u \in {0, 1} /\ u <= k /\ k \in Nat /\ u \in Nat
  BY DEF Signless
<1>1. /\ I(1) <=> k = 1 /\ cl[0] = "sign"
      /\ I(2) <=> Fig(cl, u, k)
      /\ I(3) <=> FigComma(cl, u, k)
      /\ I(4) <=> u <= k - 1 /\ Point(cl, u, k - 1)
      /\ I(5) <=> Frac(cl, u, k)
      /\ I(6) <=> cl[k - 1] = "comma" /\ Frac(cl, u, k - 1)
      /\ I(7) <=> cl[k - 1] = "exp" /\ Mant(cl, u, k - 1)
      /\ I(8) <=> Expo(cl, u, k)
      /\ I(9) <=> cl[k - 1] = "comma" /\ Expo(cl, u, k - 1)
      /\ I(10) <=> k > 1 /\ cl[k - 2] = "exp" /\ cl[k - 1] = "sign" /\ Mant(cl, u, k - 2)
  BY DEF In
<1>2. /\ ~J(1)
      /\ J(2) <=> Fig(cl, u, k + 1)
      /\ J(3) <=> FigComma(cl, u, k + 1)
      /\ J(4) <=> u <= k /\ Point(cl, u, k)
      /\ J(5) <=> Frac(cl, u, k + 1)
      /\ J(6) <=> c = "comma" /\ Frac(cl, u, k)
      /\ J(7) <=> c = "exp" /\ Mant(cl, u, k)
      /\ J(8) <=> Expo(cl, u, k + 1)
      /\ J(9) <=> c = "comma" /\ Expo(cl, u, k)
      /\ J(10) <=> cl[k - 1] = "exp" /\ c = "sign" /\ Mant(cl, u, k - 1)
  BY <1>0 DEF In
<1>3. I(1) <=> u = k
  BY <1>0, <1>1 DEF Signless
<1> HIDE DEF I, J, c
<1>4. J(2) <=> c = "digit" /\ (I(1) \/ I(2) \/ I(3))
  BY <1>0, <1>1, <1>2, <1>3, FigStep DEF c
<1>5. J(3) <=> c = "comma" /\ I(2)
  <2>1. FigComma(cl, u, k + 1) <=> c = "comma" /\ u < k + 1 /\ Fig(cl, u, k)
    BY <1>0 DEF FigComma, c
  <2>2. QED
    BY <1>0, <1>1, <1>2, <2>1
<1>6. J(4) <=> c = "dot" /\ (I(1) \/ I(2))
  BY <1>0, <1>1, <1>2, <1>3 DEF Point, c
<1>7. J(5) <=> c = "digit" /\ (I(4) \/ I(5) \/ I(6))
  <2>1. \A i \in u .. k : i = k \/ (i \in u .. k - 1 /\ i + 1 \in Nat /\ i + 1 <= k)
    BY <1>0
  <2>2. ~Fig(cl, k + 1, k + 1)
    BY DEF Fig
  <2>3. \A i \in u .. k - 1 :
          Fig(cl, i + 1, k + 1) <=> /\ c = "digit"
                                    /\ i + 1 = k \/ Fig(cl, i + 1, k) \/ FigComma(cl, i + 1, k)
    <3>1. SUFFICES ASSUME NEW i \in u .. k - 1
                   PROVE  Fig(cl, i + 1, k + 1) <=>
                            /\ c = "digit"
                            /\ i + 1 = k \/ Fig(cl, i + 1, k) \/ FigComma(cl, i + 1, k)
      OBVIOUS
    <3>2. PICK m \in Nat : m = i + 1 /\ m <= k
      BY <1>0
    <3>3. Fig(cl, m, k + 1) <=> c = "digit" /\ (m = k \/ Fig(cl, m, k) \/ FigComma(cl, m, k))
      BY <1>0, <3>2, FigStep DEF c
    <3>4. QED
      BY <3>2, <3>3
  <2>4. Frac(cl, u, k + 1) <=> \E i \in u .. k - 1 : Point(cl, u, i) /\ Fig(cl, i + 1, k + 1)
    BY <1>0, <2>1, <2>2 DEF Frac
  <2>5. I(4) <=> \E i \in u .. k - 1 : Point(cl, u, i) /\ i + 1 = k
    BY <1>0, <1>1
  <2>6. I(6) <=> \E i \in u .. k - 1 : Point(cl, u, i) /\ FigComma(cl, i + 1, k)
    <3>1. ASSUME NEW i \in u .. k - 1, FigComma(cl, i + 1, k)
          PROVE  i \in u .. (k - 1) - 1
      BY <1>0, <3>1 DEF FigComma
    <3>2. ASSUME NEW i \in u .. (k - 1) - 1
          PROVE  i \in u .. k - 1 /\ i + 1 < k
      BY <1>0
    <3>3. QED
      BY <1>1, <3>1, <3>2 DEF Frac, FigComma
  <2>7. I(5) <=> \E i \in u .. k - 1 : Point(cl, u, i) /\ Fig(cl, i + 1, k)
    BY <1>1 DEF Frac
  <2>8. QED
    BY <1>2, <2>3, <2>4, <2>5, <2>6, <2>7
<1>8. J(6) <=> c = "comma" /\ I(5)
  BY <1>1, <1>2
<1>9. J(7) <=> c = "exp" /\ (I(2) \/ I(5))
  BY <1>1, <1>2 DEF Mant
<1>10. J(8) <=> c = "digit" /\ (I(7) \/ I(8) \/ I(9) \/ I(10))
  <2> DEFINE P(e) == cl[e] = "exp" /\ Mant(cl, u, e)
  <2>0. \A e \in u .. k - 1 : e \in Nat /\ After(cl, e) \in {e + 1, e + 2}
    BY <1>0 DEF After
  <2>1. J(8) <=> \E e \in u .. k - 1 : P(e) /\ Fig(cl, After(cl, e), k + 1)
    <3>1. ~Fig(cl, After(cl, k), k + 1)
      BY <1>0 DEF Fig, After
    <3>2. \A e \in u .. k : e = k \/ e \in u .. k - 1
      BY <1>0
    <3>3. \A e \in u .. k - 1 : e \in u .. k
      BY <1>0
    <3> HIDE DEF P
    <3>4. J(8) <=> \E e \in u .. k : P(e) /\ Fig(cl, After(cl, e), k + 1)
      BY <1>0, <1>2 DEF Expo, P
    <3>5. QED
      BY <3>1, <3>2, <3>3, <3>4
  <2>2. ASSUME NEW e \in u .. k - 1
        PROVE  Fig(cl, After(cl, e), k + 1) <=>
                 /\ c = "digit"
                 /\ \/ After(cl, e) = k \/ Fig(cl, After(cl, e), k)
                    \/ FigComma(cl, After(cl, e), k)
    <3>1. CASE After(cl, e) <= k
      BY <1>0, <2>0, <3>1, FigStep DEF c
    <3>2. CASE After(cl, e) = k + 1
      <4>1. cl[k] = "sign"
        BY <2>0, <3>2 DEF After
      <4>2. QED
        BY <3>2, <4>1 DEF Fig, FigComma, c
    <3>3. QED
      BY <1>0, <2>0, <3>1, <3>2
  <2>3. c = "digit" => (I(7) \/ I(10) <=> \E e \in u .. k - 1 : P(e) /\ After(cl, e) = k)
    <3>1. ASSUME I(7), c = "digit"
          PROVE  k - 1 \in u .. k - 1 /\ P(k - 1) /\ After(cl, k - 1) = k
      BY <1>0, <1>1, <3>1 DEF Mant, Fig, Frac, After, c
    <3>2. ASSUME I(10)
          PROVE  k - 2 \in u .. k - 1 /\ P(k - 2) /\ After(cl, k - 2) = k
      BY <1>0, <1>1, <3>2 DEF Mant, Fig, Frac, After
    <3>3. ASSUME NEW e \in u .. k - 1, P(e), After(cl, e) = k
          PROVE  I(7) \/ I(10)
      <4>1. CASE e = k - 1
        BY <1>1, <3>3, <4>1
      <4>2. CASE e = k - 2
        <5>1. k > 1 /\ e + 1 = k - 1 /\ cl[k - 1] = "sign"
          BY <1>0, <3>3, <4>2 DEF After
        <5>2. QED
          BY <1>1, <3>3, <4>2, <5>1
      <4>3. QED
        BY <2>0, <3>3, <4>1, <4>2
    <3>4. QED
      BY <3>1, <3>2, <3>3
  <2>4. I(9) <=> \E e \in u .. k - 1 : P(e) /\ FigComma(cl, After(cl, e), k)
    <3>1. ASSUME NEW e \in u .. k - 1, FigComma(cl, After(cl, e), k)
          PROVE  e \in u .. (k - 1) - 1
      BY <1>0, <2>0, <3>1 DEF FigComma, Fig
    <3>2. ASSUME NEW e \in u .. (k - 1) - 1, Fig(cl, After(cl, e), k - 1)
          PROVE  e \in u .. k - 1 /\ After(cl, e) < k
      BY <1>0, <2>0, <3>2 DEF Fig
    <3> HIDE DEF P
    <3>3. I(9) <=> \E e \in u .. (k - 1) - 1 : /\ P(e) /\ Fig(cl, After(cl, e), k - 1)
                                               /\ cl[k - 1] = "comma"
      BY <1>1 DEF Expo, P
    <3>4. \A e : FigComma(cl, After(cl, e), k) <=> /\ After(cl, e) < k /\ cl[k - 1] = "comma"
                                                   /\ Fig(cl, After(cl, e), k - 1)
      BY DEF FigComma
    <3>5. QED
      BY <3>1, <3>2, <3>3, <3>4
  <2>5. I(8) <=> \E e \in u .. k - 1 : P(e) /\ Fig(cl, After(cl, e), k)
    BY <1>1 DEF Expo
  <2> HIDE DEF P
  <2>6. QED
    BY <2>1, <2>2, <2>3, <2>4, <2>5
<1>11. J(9) <=> c = "comma" /\ I(8)
  BY <1>1, <1>2
<1>12. J(10) <=> c = "sign" /\ I(7)
  BY <1>1, <1>2
<1>13. QED
  BY <1>2, <1>4, <1>5, <1>6, <1>7, <1>8, <1>9, <1>10, <1>11, <1>12 DEF I, J, c

\* p is the state the automaton is in when it has read k classes.
Tells(cl, u, p, k) == \A q \in 1 .. 10 : p = q <=> In(cl, u, q, k)

LEMMA InStep ==
  ASSUME NEW cl, NEW k \in Nat \ {0}, NEW u, u = Signless(cl),
         NEW p \in 0 .. 10, Tells(cl, u, p, k),
         NEW r, r = IF cl[k] \in Classes /\ p # 0 THEN Row(cl[k], p) ELSE 0
  PROVE  Tells(cl, u, r, k + 1)
<1> DEFINE J(q) == In(cl, u, q, k + 1)
           c == cl[k]
<1>0. \A q \in 1 .. 10 : p = q <=> In(cl, u, q, k)
  BY DEF Tells
<1>1. /\ ~J(1)
      /\ J(2)  <=> c = "digit" /\ p \in {1, 2, 3}
      /\ J(3)  <=> c = "comma" /\ p = 2
      /\ J(4)  <=> c = "dot" /\ p \in {1, 2}
      /\ J(5)  <=> c = "digit" /\ p \in {4, 5, 6}
      /\ J(6)  <=> c = "comma" /\ p = 5
      /\ J(7)  <=> c = "exp" /\ p \in {2, 5}
      /\ J(8)  <=> c = "digit" /\ p \in {7, 8, 9, 10}
      /\ J(9)  <=> c = "comma" /\ p = 8
      /\ J(10) <=> c = "sign" /\ p = 7
  BY <1>0, InBefore
<1> HIDE DEF J, c
<1>2. /\ r = 2 <=> c = "digit" /\ p \in {1, 2, 3}
      /\ r = 5 <=> c = "digit" /\ p \in {4, 5, 6}
      /\ r = 8 <=> c = "digit" /\ p \in {7, 8, 9, 10}
      /\ r # 1
      /\ r = 3 <=> c = "comma" /\ p = 2
      /\ r = 6 <=> c = "comma" /\ p = 5
      /\ r = 9 <=> c = "comma" /\ p = 8
      /\ r = 4 <=> c = "dot" /\ p \in {1, 2}
      /\ r = 7 <=> c = "exp" /\ p \in {2, 5}
      /\ r = 10 <=> c = "sign" /\ p = 7
  <2>1. c \in Classes \/ c \notin Classes
    OBVIOUS
  <2>2. QED
    BY DEF c, Row, Classes
<1>3. \A q \in 1 .. 10 : r = q <=> J(q)
  BY <1>1, <1>2
<1>4. QED
  BY <1>3 DEF J, Tells

LEMMA InFirst ==
  ASSUME NEW cl, NEW u, u = Signless(cl),
         NEW r, r = IF cl[0] \in Classes THEN Row(cl[0], 0) ELSE 0
  PROVE  \A q \in 1 .. 10 : r = q <=> In(cl, u, q, 1)
<1> DEFINE J(q) == In(cl, u, q, 1)
           c == cl[0]
<1>1. /\ u \in {0, 1} /\ (u = 1 <=> c = "sign")
      /\ \A a \in Nat : ~Fig(cl, a, 0) /\ (Fig(cl, a, 1) <=> a = 0 /\ c = "digit")
      /\ ~Frac(cl, u, 0) /\ ~Frac(cl, u, 1) /\ ~Mant(cl, u, 0)
  <2>1. u \in {0, 1} /\ (u = 1 <=> c = "sign")
    BY DEF Signless
  <2>2. ASSUME NEW a \in Nat
        PROVE  ~Fig(cl, a, 0) /\ (Fig(cl, a, 1) <=> a = 0 /\ c = "digit")
    BY DEF Fig
  <2>3. ~Frac(cl, u, 0)
    BY <2>1 DEF Frac
  <2>4. ~Frac(cl, u, 1)
    BY <2>1, <2>2 DEF Frac, Fig
  <2>5. QED
    BY <2>1, <2>2, <2>3, <2>4 DEF Mant
<1>2. ~Expo(cl, u, 0) /\ ~Expo(cl, u, 1)
  BY <1>1 DEF Expo, Fig, After
<1>3. /\ J(1) <=> c = "sign"
      /\ J(2) <=> c = "digit"
      /\ J(4) <=> c = "dot"
      /\ ~J(3) /\ ~J(5) /\ ~J(6) /\ ~J(7) /\ ~J(8) /\ ~J(9) /\ ~J(10)
  BY <1>1, <1>2 DEF In, FigComma, Point
<1> HIDE DEF J, c
<1>4. /\ r = 1 <=> c = "sign"
      /\ r = 2 <=> c = "digit"
      /\ r = 4 <=> c = "dot"
      /\ r \in {0, 1, 2, 4}
  BY DEF c, Row, Classes
<1>5. \A q \in 1 .. 10 : r = q <=> J(q)
  BY <1>3, <1>4
<1>6. QED
  BY <1>5 DEF J

-----------------------------------------------------------------------------
(* The automaton.                                                          *)

LEMMA NumberClasses ==
  ASSUME NEW c
  PROVE  /\ NumberClass(c) \in Classes \cup {"none"}
         /\ NumberClass(c) = "digit" <=> c \in Digits
         /\ NumberClass(c) = "sign"  <=> c \in {"+", "-"}
         /\ NumberClass(c) = "comma" <=> c = ","
         /\ NumberClass(c) = "dot"   <=> c = "."
         /\ NumberClass(c) = "exp"   <=> c \in {"e", "E"}
BY Zenon DEF NumberClass, Classes, Digits

ClassesOf(w) == [i \in 0 .. Len(w) - 1 |-> NumberClass(CharAt(w, i))]

IsRun(f, w) ==
  f = [i \in 0 .. Len(w) |->
        IF i = 0 THEN 0
        ELSE LET q == f[i - 1]
                 class == NumberClass(CharAt(w, i - 1))
             IN  IF class = "none" \/ (i > 1 /\ q = 0) THEN 0 ELSE NumberStep[class][q + 1]]

LEMMA RowsTyped ==
  ASSUME NEW q \in 0 .. 10, NEW class \in Classes
  PROVE  Row(class, q) \in 0 .. 10
BY DEF Row, Classes

LEMMA RunIs ==
  ASSUME NEW w, Len(w) \in Nat
  PROVE  \E f \in [0 .. Len(w) -> 0 .. 10] :
           /\ f[0] = 0
           /\ IsNumber(w) <=> f[Len(w)] \in {2, 5, 8}
           /\ \A i \in 1 .. Len(w) :
                LET class == ClassesOf(w)[i - 1] IN
                f[i] = IF class \in Classes /\ (i > 1 => f[i - 1] # 0)
                       THEN Row(class, f[i - 1]) ELSE 0
<1> DEFINE N == Len(w)
           V == 0 .. 10
           cl == ClassesOf(w)
           Next1(i, q) == IF cl[i - 1] \in Classes /\ (i > 1 => q # 0)
                          THEN Row(cl[i - 1], q) ELSE 0
           F == [i \in 1 .. N |-> [q \in V |-> Next1(i, q)]]
           f == CHOOSE f : IsRun(f, w)
<1>1. \A i \in 1 .. N : /\ i - 1 \in 0 .. N - 1
                        /\ cl[i - 1] = NumberClass(CharAt(w, i - 1))
                        /\ cl[i - 1] \in Classes \cup {"none"}
  <2>1. ASSUME NEW i \in 1 .. N
        PROVE  i - 1 \in 0 .. N - 1 /\ cl[i - 1] = NumberClass(CharAt(w, i - 1))
    BY DEF ClassesOf
  <2>2. \A c : NumberClass(c) \in Classes \cup {"none"}
    BY NumberClasses
  <2> HIDE DEF cl
  <2>3. QED
    BY <2>1, <2>2
<1>2. "none" \notin Classes
  BY DEF Classes
<1>3. ASSUME NEW i \in 1 .. N, NEW q \in V
      PROVE  /\ Next1(i, q) \in V
             /\ Next1(i, q) = IF cl[i - 1] = "none" \/ (i > 1 /\ q = 0) THEN 0
                              ELSE NumberStep[cl[i - 1]][q + 1]
  <2>1. CASE cl[i - 1] = "none"
    BY <1>2, <2>1
  <2>2. CASE cl[i - 1] \in Classes
    BY <1>2, <2>2, NumberRows, RowsTyped
  <2>3. QED
    BY <1>1, <2>1, <2>2
<1> HIDE DEF cl, Next1
<1>4. Steps(F, N, V)
  BY <1>3 DEF Steps
<1>5. PICK h \in [0 .. N -> V] : Iterates(h, F, 0, N)
  <2>1. 0 \in V
    OBVIOUS
  <2> HIDE DEF V, F
  <2>2. QED
    BY <1>4, <2>1, IterationExists
<1>6. h[0] = 0 /\ \A i \in 1 .. N : h[i - 1] \in V /\ h[i] = Next1(i, h[i - 1])
  <2>1. h[0] = 0 /\ \A i \in 1 .. N : h[i] = F[i][h[i - 1]]
    BY <1>5 DEF Iterates
  <2>2. ASSUME NEW i \in 1 .. N
        PROVE  h[i - 1] \in V /\ h[i] = Next1(i, h[i - 1])
    <3>1. i - 1 \in 0 .. N
      OBVIOUS
    <3>2. PICK q \in V : q = h[i - 1]
      BY <3>1
    <3>3. F[i][q] = Next1(i, q)
      OBVIOUS
    <3>4. QED
      BY <2>1, <3>2, <3>3
  <2>3. QED
    BY <2>1, <2>2
<1>7. \E g : IsRun(g, w)
  <2>1. ASSUME NEW i \in 0 .. N
        PROVE  h[i] = IF i = 0 THEN 0
                      ELSE LET q == h[i - 1]
                               class == NumberClass(CharAt(w, i - 1))
                           IN  IF class = "none" \/ (i > 1 /\ q = 0) THEN 0
                               ELSE NumberStep[class][q + 1]
    <3>1. CASE i = 0
      BY <1>6, <3>1
    <3>2. CASE i \in 1 .. N
      <4>1. i # 0
        BY <3>2
      <4>2. QED
        BY <1>1, <1>3, <1>6, <3>2, <4>1
    <3>3. QED
      BY <3>1, <3>2
  <2> DEFINE h2 == [i \in 0 .. N |->
        IF i = 0 THEN 0
        ELSE LET q == h[i - 1]
                 class == NumberClass(CharAt(w, i - 1))
             IN  IF class = "none" \/ (i > 1 /\ q = 0) THEN 0 ELSE NumberStep[class][q + 1]]
  <2>2. h = h2
    BY <1>5, <2>1
  <2>3. QED
    BY <2>2, Zenon DEF IsRun
<1>8. IsRun(f, w)
  BY <1>7
<1>9. IsNumber(w) <=> f[N] \in {2, 5, 8}
  BY Zenon DEF IsNumber, IsRun
<1> HIDE DEF f
<1>10. /\ f[0] = 0 /\ DOMAIN f = 0 .. N
       /\ \A i \in 1 .. N :
            f[i] = IF cl[i - 1] = "none" \/ (i > 1 /\ f[i - 1] = 0) THEN 0
                   ELSE NumberStep[cl[i - 1]][f[i - 1] + 1]
  BY <1>1, <1>8 DEF IsRun
<1> DEFINE T == {i \in Nat : i <= N => f[i] \in V}
<1>11. Nat \subseteq T
  <2>1. 0 \in T
    BY <1>10
  <2>2. ASSUME NEW i \in Nat, i \in T
        PROVE  i + 1 \in T
    <3>1. SUFFICES ASSUME i + 1 <= N
                   PROVE  f[i + 1] \in V
      OBVIOUS
    <3>2. PICK j : j = i + 1 /\ j \in 1 .. N /\ j - 1 = i
      BY <3>1
    <3>3. PICK q \in V : q = f[j - 1]
      BY <2>2, <3>1, <3>2
    <3>4. f[j] = Next1(j, q) /\ Next1(j, q) \in V
      BY <1>3, <1>10, <3>2, <3>3
    <3>5. QED
      BY <3>2, <3>4
  <2> HIDE DEF T
  <2>3. QED
    BY <2>1, <2>2, SetInduction
<1>12. \A i \in 0 .. N : f[i] \in V
  BY <1>11
<1>13. ASSUME NEW i \in 1 .. N
       PROVE  f[i] = Next1(i, f[i - 1])
  <2>1. i - 1 \in 0 .. N
    OBVIOUS
  <2>2. QED
    BY <1>3, <1>10, <1>12, <2>1
<1>14. f \in [0 .. N -> V]
  <2>1. f = [i \in 0 .. N |-> f[i]]
    BY <1>8, Zenon DEF IsRun
  <2>2. QED
    BY <1>12, <2>1
<1>15. QED
  <2>1. \A i \in 1 .. N : f[i] = IF cl[i - 1] \in Classes /\ (i > 1 => f[i - 1] # 0)
                                 THEN Row(cl[i - 1], f[i - 1]) ELSE 0
    BY <1>13, Zenon DEF Next1
  <2> HIDE DEF N, V
  <2>2. QED
    BY <1>9, <1>10, <1>14, <2>1 DEF cl, N, V

LEMMA NumberIs ==
  ASSUME NEW w, Len(w) \in Nat, Len(w) > 0
  PROVE  LET cl == ClassesOf(w)
             u  == Signless(cl)
         IN  IsNumber(w) <=> Mant(cl, u, Len(w)) \/ Expo(cl, u, Len(w))
<1> DEFINE N == Len(w)
           cl == ClassesOf(w)
           u  == Signless(cl)
<1>1. PICK f \in [0 .. N -> 0 .. 10] :
           /\ f[0] = 0
           /\ IsNumber(w) <=> f[N] \in {2, 5, 8}
           /\ \A i \in 1 .. N :
                f[i] = IF cl[i - 1] \in Classes /\ (i > 1 => f[i - 1] # 0)
                       THEN Row(cl[i - 1], f[i - 1]) ELSE 0
  BY RunIs
<1> HIDE DEF cl
<1> DEFINE T == {k \in Nat : k + 1 <= N => \A q \in 1 .. 10 : f[k + 1] = q <=> In(cl, u, q, k + 1)}
<1>2. 0 \in T
  <2>1. f[1] = IF cl[0] \in Classes THEN Row(cl[0], 0) ELSE 0
    <3>1. 1 \in 1 .. N /\ 1 - 1 = 0 /\ ~(1 > 1)
      OBVIOUS
    <3>2. QED
      BY <1>1, <3>1
  <2>2. \A q \in 1 .. 10 : f[1] = q <=> In(cl, u, q, 1)
    BY <2>1, InFirst
  <2>3. QED
    BY <2>2
<1>3. ASSUME NEW k \in Nat, k \in T
      PROVE  k + 1 \in T
  <2>1. SUFFICES ASSUME k + 2 <= N
                 PROVE  \A q \in 1 .. 10 : f[k + 2] = q <=> In(cl, u, q, k + 2)
    <3>1. k + 1 \in Nat /\ (k + 1) + 1 = k + 2
      OBVIOUS
    <3>2. QED
      BY <2>1, <3>1
  <2>2. PICK j \in Nat \ {0} : j = k + 1 /\ j \in 0 .. N /\ j + 1 = k + 2 /\ j + 1 \in 1 .. N
                               /\ (j + 1) - 1 = j /\ j + 1 > 1
    BY <2>1
  <2>3. \A q \in 1 .. 10 : f[j] = q <=> In(cl, u, q, j)
    BY <1>3, <2>1, <2>2
  <2>4. f[j] \in 0 .. 10
    BY <2>2
  <2>5. f[j + 1] = IF cl[j] \in Classes /\ f[j] # 0 THEN Row(cl[j], f[j]) ELSE 0
    BY <1>1, <2>2
  <2>6. \A q \in 1 .. 10 : f[j + 1] = q <=> In(cl, u, q, j + 1)
    <3>1. PICK c, v, r : c = cl /\ v = u /\ r = f[j + 1] /\ v = Signless(c)
      OBVIOUS
    <3>2. PICK p \in 0 .. 10 : p = f[j]
      BY <2>4
    <3>3. Tells(c, v, p, j)
      BY <2>3, <3>1, <3>2 DEF Tells
    <3>4. r = IF c[j] \in Classes /\ p # 0 THEN Row(c[j], p) ELSE 0
      BY <2>5, <3>1, <3>2
    <3>5. j \in Nat \ {0} /\ p \in 0 .. 10 /\ v = Signless(c)
      BY <3>1
    <3>6. Tells(c, v, r, j + 1)
      BY ONLY <3>3, <3>4, <3>5, InStep
    <3>7. QED
      BY <3>1, <3>6 DEF Tells
  <2>7. QED
    BY <2>2, <2>6
<1>4. Nat \subseteq T
  <2> HIDE DEF T
  <2> QED BY <1>2, <1>3, SetInduction
<1>5. \A q \in 1 .. 10 : f[N] = q <=> In(cl, u, q, N)
  <2>1. N - 1 \in Nat /\ (N - 1) + 1 = N /\ N <= N
    OBVIOUS
  <2>2. QED
    BY <1>4, <2>1
<1>6. /\ f[N] = 2 <=> Fig(cl, u, N)
      /\ f[N] = 5 <=> Frac(cl, u, N)
      /\ f[N] = 8 <=> Expo(cl, u, N)
  BY <1>5 DEF In
<1>7. QED
  BY <1>1, <1>6 DEF Mant, cl

-----------------------------------------------------------------------------
(* Numbers as texts.                                                       *)

LEMMA PartClass ==
  ASSUME NEW w, Len(w) \in Nat, NEW a \in Nat, NEW b \in Nat, a <= b, b <= Len(w),
         NEW i \in 0 .. b - a - 1
  PROVE  NumberClass(CharAt(Part(w, a, b), i)) = ClassesOf(w)[a + i]
<1>1. CharAt(Part(w, a, b), i) = Part(w, a + i, a + i + 1)
  BY CharOfPart
<1>2. PICK j : j = a + i /\ j \in 0 .. Len(w) - 1 /\ j < Len(w)
  OBVIOUS
<1>3. CharAt(w, j) = Part(w, j, j + 1)
  BY <1>2, Zenon DEF CharAt, Part
<1>4. ClassesOf(w)[j] = NumberClass(CharAt(w, j))
  BY <1>2 DEF ClassesOf
<1>5. QED
  BY <1>1, <1>2, <1>3, <1>4

LEMMA FiguresAre ==
  ASSUME NEW w, Len(w) \in Nat, NEW a \in Nat, NEW b \in Nat, a <= b, b <= Len(w)
  PROVE  Figures(Part(w, a, b)) <=> Fig(ClassesOf(w), a, b)
<1>1. PICK p : p = Part(w, a, b)
  OBVIOUS
<1>2. PICK cl : cl = ClassesOf(w)
  OBVIOUS
<1>3. /\ Len(p) = b - a
      /\ \A i \in 0 .. b - a - 1 : NumberClass(CharAt(p, i)) = cl[a + i]
  <2>1. Len(Part(w, a, b)) = b - a
    BY LenOfPart
  <2>2. \A i \in 0 .. b - a - 1 : NumberClass(CharAt(Part(w, a, b), i)) = ClassesOf(w)[a + i]
    BY PartClass
  <2>3. QED
    BY <1>1, <1>2, <2>1, <2>2
<1>4. ASSUME NEW i \in a .. b - 1
      PROVE  /\ i - a \in 0 .. b - a - 1
             /\ cl[i] \in {"digit", "comma"} <=> CharAt(p, i - a) \in Digits \cup {","}
             /\ cl[i] = "comma" <=> CharAt(p, i - a) = ","
  <2>1. i - a \in 0 .. b - a - 1 /\ a + (i - a) = i
    OBVIOUS
  <2>2. PICK c : c = CharAt(p, i - a)
    OBVIOUS
  <2>3. cl[i] = NumberClass(c)
    BY <1>3, <2>1, <2>2
  <2>4. QED
    BY <2>1, <2>2, <2>3, NumberClasses
<1>5. Figures(p) <=>
        /\ a < b
        /\ \A i \in 0 .. b - a - 1 : CharAt(p, i) \in Digits \cup {","}
        /\ CharAt(p, 0) # "," /\ CharAt(p, b - a - 1) # ","
        /\ \A i \in 1 .. b - a - 1 : CharAt(p, i - 1) = "," => CharAt(p, i) # ","
  <2>1. CharsOf(p) \subseteq Digits \cup {","} <=>
          \A i \in 0 .. b - a - 1 : CharAt(p, i) \in Digits \cup {","}
    BY <1>3 DEF CharsOf
  <2>2. LastOf(p) = CharAt(p, b - a - 1)
    BY <1>3 DEF LastOf
  <2>3. (Len(p) > 0 <=> a < b) /\ 1 .. Len(p) - 1 = 1 .. b - a - 1
    BY <1>3
  <2>4. QED
    BY <2>1, <2>2, <2>3, Zenon DEF Figures
<1>6. (\A i \in 0 .. b - a - 1 : CharAt(p, i) \in Digits \cup {","}) <=>
      \A i \in a .. b - 1 : cl[i] \in {"digit", "comma"}
  <2>1. ASSUME NEW i \in 0 .. b - a - 1
        PROVE  a + i \in a .. b - 1 /\ (a + i) - a = i
    OBVIOUS
  <2>2. QED
    BY <1>4, <2>1
<1>7. a < b => /\ CharAt(p, 0) = "," <=> cl[a] = "comma"
               /\ CharAt(p, b - a - 1) = "," <=> cl[b - 1] = "comma"
  <2>1. SUFFICES ASSUME a < b
                 PROVE  /\ CharAt(p, 0) = "," <=> cl[a] = "comma"
                        /\ CharAt(p, b - a - 1) = "," <=> cl[b - 1] = "comma"
    OBVIOUS
  <2>2. a \in a .. b - 1 /\ b - 1 \in a .. b - 1 /\ a - a = 0 /\ (b - 1) - a = b - a - 1
    BY <2>1
  <2>3. QED
    BY <1>4, <2>2
<1>8. (\A i \in 1 .. b - a - 1 : CharAt(p, i - 1) = "," => CharAt(p, i) # ",") <=>
      \A i \in a + 1 .. b - 1 : cl[i - 1] = "comma" => cl[i] # "comma"
  <2>1. ASSUME NEW i \in 1 .. b - a - 1
        PROVE  /\ a + i \in a + 1 .. b - 1
               /\ CharAt(p, i - 1) = "," <=> cl[(a + i) - 1] = "comma"
               /\ CharAt(p, i) = "," <=> cl[a + i] = "comma"
    <3>1. /\ a + i \in a + 1 .. b - 1 /\ a + i \in a .. b - 1 /\ (a + i) - a = i
          /\ (a + i) - 1 \in a .. b - 1 /\ ((a + i) - 1) - a = i - 1
      OBVIOUS
    <3>2. QED
      BY <1>4, <3>1
  <2>2. ASSUME NEW i \in a + 1 .. b - 1
        PROVE  /\ i - a \in 1 .. b - a - 1 /\ a + (i - a) = i
    OBVIOUS
  <2>3. QED
    BY <2>1, <2>2
<1>9. a < b => a \in a .. b - 1 /\ b - 1 \in a .. b - 1
  OBVIOUS
<1>10. Figures(p) <=> Fig(cl, a, b)
  BY <1>5, <1>6, <1>7, <1>8, <1>9 DEF Fig
<1>11. QED
  BY <1>1, <1>2, <1>10

LEMMA UnsignedIs ==
  ASSUME NEW w, Len(w) \in Nat, NEW a \in Nat, NEW b \in Nat, a <= b, b <= Len(w)
  PROVE  Unsigned(Part(w, a, b)) =
           Part(w, IF a < b /\ ClassesOf(w)[a] = "sign" THEN a + 1 ELSE a, b)
<1>1. PICK p : p = Part(w, a, b)
  OBVIOUS
<1>2. PICK cl : cl = ClassesOf(w)
  OBVIOUS
<1>3. Len(p) = b - a
  BY <1>1, LenOfPart
<1>4. CASE a < b
  <2>1. 0 \in 0 .. b - a - 1 /\ a + 0 = a
    BY <1>4
  <2>2. NumberClass(CharAt(p, 0)) = cl[a]
    <3>1. PICK z \in 0 .. b - a - 1 : z = 0
      BY <2>1
    <3>2. NumberClass(CharAt(Part(w, a, b), z)) = ClassesOf(w)[a + z]
      BY PartClass
    <3>3. QED
      BY <1>1, <1>2, <3>1, <3>2
  <2>3. cl[a] = "sign" <=> CharAt(p, 0) \in {"+", "-"}
    BY <2>2, NumberClasses
  <2>4. From(p, 1) = Part(w, a + 1, b)
    <3>1. PICK o \in 0 .. b - a : o = 1
      BY <1>4
    <3>2. From(Part(w, a, b), o) = Part(w, a + o, b)
      BY RestOfPart
    <3>3. QED
      BY <1>1, <3>1, <3>2
  <2>5. Len(p) > 0
    BY <1>3, <1>4
  <2>6. QED
    BY <1>1, <1>2, <1>4, <2>3, <2>4, <2>5 DEF Unsigned
<1>5. CASE ~(a < b)
  <2>1. ~(Len(p) > 0)
    BY <1>3, <1>5
  <2>2. QED
    BY <1>1, <1>5, <2>1, Zenon DEF Unsigned
<1>6. QED
  BY <1>4, <1>5

LEMMA SplitsAre ==
  ASSUME NEW w, Len(w) \in Nat, NEW a \in Nat, NEW b \in Nat, a <= b, b <= Len(w), NEW S
  PROVE  LET p == Part(w, a, b)
         IN  Splits(p, S) = {i \in 0 .. b - a - 1 : CharAt(p, i) \in S}
BY LenOfPart DEF Splits

LEMMA MantissaIs ==
  ASSUME NEW w, Len(w) \in Nat, NEW a \in Nat, NEW b \in Nat, a <= b, b <= Len(w)
  PROVE  Mantissa(Part(w, a, b)) <=> Mant(ClassesOf(w), a, b)
<1>1. PICK p : p = Part(w, a, b)
  OBVIOUS
<1>2. PICK cl : cl = ClassesOf(w)
  OBVIOUS
<1>3. Splits(p, {"."}) = {i \in 0 .. b - a - 1 : cl[a + i] = "dot"}
  <2>1. Splits(p, {"."}) = {i \in 0 .. b - a - 1 : CharAt(p, i) \in {"."}}
    BY <1>1, SplitsAre
  <2>2. ASSUME NEW i \in 0 .. b - a - 1
        PROVE  CharAt(p, i) \in {"."} <=> cl[a + i] = "dot"
    <3>1. NumberClass(CharAt(Part(w, a, b), i)) = ClassesOf(w)[a + i]
      BY PartClass
    <3>2. QED
      BY <1>1, <1>2, <3>1, NumberClasses
  <2>3. QED
    BY <2>1, <2>2
<1>4. ASSUME NEW i \in 0 .. b - a - 1
      PROVE  /\ Figures(SubSeq(p, 1, i)) <=> Fig(cl, a, a + i)
             /\ Figures(From(p, i + 1)) <=> Fig(cl, a + i + 1, b)
  <2>1. SubSeq(p, 1, i) = Part(w, a, a + i)
    <3>1. i \in 0 .. b - a
      OBVIOUS
    <3>2. SubSeq(Part(w, a, b), 1, i) = Part(w, a, a + i)
      BY <3>1, HeadOfPart
    <3>3. QED
      BY <1>1, <3>2
  <2>2. PICK j \in 0 .. b - a : j = i + 1 /\ a + j = a + i + 1
    OBVIOUS
  <2>3. From(p, i + 1) = Part(w, a + i + 1, b)
    <3>1. From(Part(w, a, b), j) = Part(w, a + j, b)
      BY RestOfPart
    <3>2. QED
      BY <1>1, <2>2, <3>1
  <2>4. PICK m \in Nat : m = a + i /\ a <= m /\ m + 1 <= b /\ m + 1 \in Nat
    OBVIOUS
  <2>5. Figures(Part(w, a, m)) <=> Fig(cl, a, m)
    BY <1>2, <2>4, FiguresAre
  <2>6. Figures(Part(w, m + 1, b)) <=> Fig(cl, m + 1, b)
    BY <1>2, <2>4, FiguresAre
  <2>7. QED
    BY <2>1, <2>3, <2>4, <2>5, <2>6
<1>5. Mantissa(p) <=> \/ Figures(p)
                      \/ \E i \in 0 .. b - a - 1 : /\ cl[a + i] = "dot"
                                                   /\ i = 0 \/ Fig(cl, a, a + i)
                                                   /\ Fig(cl, a + i + 1, b)
  BY <1>3, <1>4 DEF Mantissa
<1>6. (\E i \in 0 .. b - a - 1 : /\ cl[a + i] = "dot"
                                 /\ i = 0 \/ Fig(cl, a, a + i)
                                 /\ Fig(cl, a + i + 1, b))
      <=> Frac(cl, a, b)
  <2>1. ASSUME NEW i \in 0 .. b - a - 1
        PROVE  a + i \in a .. b - 1 /\ (i = 0 <=> a + i = a)
    OBVIOUS
  <2>2. ASSUME NEW i \in a .. b - 1
        PROVE  i - a \in 0 .. b - a - 1 /\ a + (i - a) = i
    OBVIOUS
  <2>3. QED
    BY <2>1, <2>2 DEF Frac, Point
<1>7. Figures(p) <=> Fig(cl, a, b)
  BY <1>1, <1>2, FiguresAre
<1>8. QED
  BY <1>1, <1>2, <1>5, <1>6, <1>7 DEF Mant

LEMMA NumberTextIs ==
  ASSUME NEW w, Len(w) \in Nat, Len(w) > 0, w = Part(w, 0, Len(w))
  PROVE  LET cl == ClassesOf(w)
             u  == Signless(cl)
         IN  NumberText(w) <=> Mant(cl, u, Len(w)) \/ Expo(cl, u, Len(w))
<1>1. PICK cl : cl = ClassesOf(w)
  OBVIOUS
<1>2. PICK N \in Nat : N = Len(w) /\ N > 0
  OBVIOUS
<1>3. PICK u \in Nat : u = Signless(cl) /\ u <= N
  BY <1>2 DEF Signless
<1>4. PICK p : p = Part(w, u, N)
  OBVIOUS
<1>5. Unsigned(w) = p
  <2>1. PICK z \in Nat : z = 0
    OBVIOUS
  <2>2. z <= N /\ N <= Len(w)
    BY <1>2, <2>1
  <2>3. Unsigned(Part(w, z, N)) = Part(w, IF z < N /\ cl[z] = "sign" THEN z + 1 ELSE z, N)
    BY <1>1, <2>2, UnsignedIs
  <2>4. (IF z < N /\ cl[z] = "sign" THEN z + 1 ELSE z) = u
    BY <1>2, <1>3, <2>1 DEF Signless
  <2>5. Part(w, z, N) = w
    BY <1>2, <2>1
  <2>6. QED
    BY <1>4, <2>3, <2>4, <2>5
<1>6. Splits(p, {"e", "E"}) = {i \in 0 .. N - u - 1 : cl[u + i] = "exp"}
  <2>1. Splits(p, {"e", "E"}) = {i \in 0 .. N - u - 1 : CharAt(p, i) \in {"e", "E"}}
    BY <1>2, <1>3, <1>4, SplitsAre
  <2>2. ASSUME NEW i \in 0 .. N - u - 1
        PROVE  CharAt(p, i) \in {"e", "E"} <=> cl[u + i] = "exp"
    <3>1. N <= Len(w)
      BY <1>2
    <3>2. NumberClass(CharAt(Part(w, u, N), i)) = ClassesOf(w)[u + i]
      BY <1>3, <3>1, PartClass
    <3>3. QED
      BY <1>1, <1>4, <3>2, NumberClasses
  <2>3. QED
    BY <2>1, <2>2
<1>7. ASSUME NEW i \in 0 .. N - u - 1
      PROVE  /\ Mantissa(SubSeq(p, 1, i)) <=> Mant(cl, u, u + i)
             /\ Figures(Unsigned(From(p, i + 1))) <=> Fig(cl, After(cl, u + i), N)
  <2>1. SubSeq(p, 1, i) = Part(w, u, u + i)
    <3>1. i \in 0 .. N - u
      OBVIOUS
    <3>2. SubSeq(Part(w, u, N), 1, i) = Part(w, u, u + i)
      BY <1>3, <3>1, HeadOfPart
    <3>3. QED
      BY <1>4, <3>2
  <2>2. PICK j \in 0 .. N - u : j = i + 1 /\ u + j = u + i + 1
    OBVIOUS
  <2>3. From(p, i + 1) = Part(w, u + i + 1, N)
    <3>1. From(Part(w, u, N), j) = Part(w, u + j, N)
      BY <1>3, RestOfPart
    <3>2. QED
      BY <1>4, <2>2, <3>1
  <2>4. PICK m \in Nat : m = u + i /\ u <= m /\ m <= N /\ m + 1 <= N /\ m + 1 \in Nat /\ N <= Len(w)
    BY <1>2, <1>3
  <2>5. Mantissa(Part(w, u, m)) <=> Mant(cl, u, m)
    BY <1>1, <1>2, <2>4, MantissaIs
  <2>6. Unsigned(Part(w, m + 1, N)) =
          Part(w, IF m + 1 < N /\ cl[m + 1] = "sign" THEN (m + 1) + 1 ELSE m + 1, N)
    BY <1>1, <2>4, UnsignedIs
  <2>7. CASE m + 1 < N
    <3>1. PICK v \in Nat : v = After(cl, m) /\ v <= N
      BY <2>4, <2>7 DEF After
    <3>2. v = IF m + 1 < N /\ cl[m + 1] = "sign" THEN (m + 1) + 1 ELSE m + 1
      BY <2>7, <3>1 DEF After
    <3>3. Figures(Part(w, v, N)) <=> Fig(cl, v, N)
      BY <1>1, <2>4, <3>1, FiguresAre
    <3>4. QED
      BY <2>1, <2>3, <2>4, <2>5, <2>6, <3>1, <3>2, <3>3
  <2>8. CASE m + 1 = N
    <3>1. ~Fig(cl, After(cl, m), N) /\ ~Fig(cl, N, N)
      BY <2>8 DEF Fig, After
    <3>2. Unsigned(Part(w, m + 1, N)) = Part(w, N, N)
      BY <2>6, <2>8
    <3>3. Figures(Part(w, N, N)) <=> Fig(cl, N, N)
      BY <1>1, <1>2, FiguresAre
    <3>4. QED
      BY <2>1, <2>3, <2>4, <2>5, <3>1, <3>2, <3>3
  <2>9. QED
    BY <2>4, <2>7, <2>8
<1>8. (\E i \in Splits(p, {"e", "E"}) : /\ Mantissa(SubSeq(p, 1, i))
                                        /\ Figures(Unsigned(From(p, i + 1))))
      <=> Expo(cl, u, N)
  <2>1. ASSUME NEW i \in 0 .. N - u - 1
        PROVE  u + i \in u .. N - 1
    OBVIOUS
  <2>2. ASSUME NEW i \in u .. N - 1
        PROVE  i - u \in 0 .. N - u - 1 /\ u + (i - u) = i
    OBVIOUS
  <2>3. Expo(cl, u, N) <=> \E i \in 0 .. N - u - 1 : /\ cl[u + i] = "exp"
                                                     /\ Mant(cl, u, u + i)
                                                     /\ Fig(cl, After(cl, u + i), N)
    BY <2>1, <2>2 DEF Expo
  <2>4. QED
    BY <1>6, <1>7, <2>3
<1>9. Mantissa(p) <=> Mant(cl, u, N)
  BY <1>1, <1>2, <1>3, <1>4, MantissaIs
<1>10. QED
  BY <1>1, <1>2, <1>3, <1>5, <1>8, <1>9 DEF NumberText

-----------------------------------------------------------------------------
(* The kinds of the tokens.                                                *)

KindsFit ==
  /\ phase = "tokenize" => kinds = <<>>
  /\ kinds = <<>> \/ kinds = [i \in 1 .. Len(tokens) |-> KindOf(Lexeme(i))]

LEMMA KindsFitStep ==
  ASSUME KindsFit, [Next]_vars
  PROVE  KindsFit'
<1>1. CASE fpTokenize /\ UNCHANGED rvars
  BY <1>1 DEF KindsFit, fpTokenize, rvars
<1>2. CASE fpClassifyTokens
  <2>1. /\ kinds' = [i \in 1 .. Len(tokens) |-> KindOf(Lexeme(i))]
        /\ tokens' = tokens /\ source' = source /\ phase' \in {"parse", "done"}
    BY <1>2 DEF fpClassifyTokens
  <2>2. \A i : Lexeme(i)' = Lexeme(i)
    BY <2>1 DEF Lexeme
  <2>3. QED
    BY <2>1, <2>2 DEF KindsFit
<1>3. CASE BeginProgram \/ fpParseBody \/ EndProgram \/ UNCHANGED vars
  <2>1. /\ tokens' = tokens /\ source' = source /\ kinds' = kinds
        /\ phase' = "tokenize" => phase = "tokenize"
    BY <1>3 DEF BeginProgram, fpParseBody, EndProgram, vars, tvars, rvars
  <2>2. \A i : Lexeme(i)' = Lexeme(i)
    BY <2>1 DEF Lexeme
  <2>3. QED
    BY <2>1, <2>2 DEF KindsFit
<1>4. QED
  BY <1>1, <1>2, <1>3 DEF Next, fpParse

LEMMA KindNamed ==
  ASSUME NEW w
  PROVE  KindOf(w) # "end" /\ (KindOf(w) = "NUMBER" <=> IsNumber(w))
<1>1. \A k \in Keywords \cup Punctuation : k # "end" /\ k # "NUMBER"
  BY Zenon DEF Keywords, Punctuation
<1>2. \A c \in DOMAIN IdentKinds : IdentKinds[c] # "end" /\ IdentKinds[c] # "NUMBER"
  BY Zenon DEF IdentKinds
<1>3. \A c \in DOMAIN PrefixChain : PrefixChain[c] # "end" /\ PrefixChain[c] # "NUMBER"
  BY DEF PrefixChain
<1>4. \A c \in DOMAIN ChainSuffix : ChainSuffix[c] # "end" /\ ChainSuffix[c] # "NUMBER"
  BY DEF ChainSuffix
<1>5. QED
  BY <1>1, <1>2, <1>3, <1>4 DEF KindOf

LEMMA WholePart ==
  ASSUME NEW w, NEW a \in Nat, NEW b \in Nat, a < b, NEW r, r = Part(w, a, b)
  PROVE  Len(r) \in Nat /\ Len(r) > 0 /\ r = Part(r, 0, Len(r))
<1>1. a <= b
  OBVIOUS
<1>2. PICK z \in Nat, n \in Nat : z = 0 /\ n = b - a /\ n > 0 /\ z <= n /\ n <= b - a
  OBVIOUS
<1>3. Part(Part(w, a, b), z, n) = Part(w, a + z, a + n)
  BY <1>1, <1>2, PartOfPart
<1>4. a + z = a /\ a + n = b
  BY <1>2
<1>5. Len(r) = n
  BY <1>1, <1>2, LenOfPart
<1>6. QED
  BY <1>2, <1>3, <1>4, <1>5

LEMMA WholeLexeme ==
  ASSUME Progress, NEW i \in 1 .. Len(tokens)
  PROVE  LET w == Lexeme(i)
         IN  Len(w) \in Nat /\ Len(w) > 0 /\ w = Part(w, 0, Len(w))
<1>1. tokens[i] \in Token /\ tokens[i].begin < tokens[i].end
  BY ElementOfSeq, ProgressOrders DEF Progress, TokensInOrder
<1>2. PICK a \in Nat, b \in Nat : a = tokens[i].begin /\ b = tokens[i].end /\ a < b
  BY <1>1 DEF Token
<1>3. PICK w : w = Part(source, a, b)
  OBVIOUS
<1>4. Lexeme(i) = w
  BY <1>2, <1>3 DEF Lexeme, Part
<1>5. Len(w) \in Nat /\ Len(w) > 0 /\ w = Part(w, 0, Len(w))
  BY ONLY <1>2, <1>3, WholePart
<1>6. QED
  BY <1>4, <1>5

LEMMA NumbersAreTexts == Progress /\ KindsFit => NumberSyntax
<1> SUFFICES ASSUME Progress, KindsFit, NEW i \in DOMAIN kinds
             PROVE  kinds[i] = "NUMBER" <=> NumberText(Lexeme(i))
  BY DEF NumberSyntax
<1>1. i \in 1 .. Len(tokens) /\ kinds[i] = KindOf(Lexeme(i))
  BY DEF KindsFit
<1>2. PICK w : w = Lexeme(i)
  OBVIOUS
<1>3. Len(w) \in Nat /\ Len(w) > 0 /\ w = Part(w, 0, Len(w))
  BY <1>1, <1>2, WholeLexeme
<1>4. kinds[i] = "NUMBER" <=> IsNumber(w)
  BY <1>1, <1>2, KindNamed
<1>5. IsNumber(w) <=> NumberText(w)
  BY <1>3, NumberIs, NumberTextIs
<1>6. QED
  BY <1>2, <1>4, <1>5

\* Whatever text a program is, the tokens that fpIsValidNumber takes for
\* numbers are those that are written as a number is: a sign, figures with
\* commas between them, a fraction, an exponent, each where it may be
\* (parser.c, fpIsValidNumber, whose table has eleven states).
THEOREM NumbersAreWrittenAsSuch == Spec => []NumberSyntax
<1>1. ReaderInit => ReadInv /\ KindsFit
  BY ReadInvInit DEF KindsFit, ReaderInit
<1>2. ReadInv /\ KindsFit /\ [Next]_vars => ReadInv' /\ KindsFit'
  BY ReadStep, KindsFitStep
<1>3. ReadInv /\ KindsFit => NumberSyntax
  BY NumbersAreTexts DEF ReadInv, LexInv
<1>4. QED
  BY <1>1, <1>2, <1>3, PTL DEF Spec
-----------------------------------------------------------------------------
(* The literal of a string that the interpreter prints.                    *)

LEMMA LiteralEndIs ==
  ASSUME NEW t, Len(t) \in Nat
  PROVE  \E E : IsScan(E, t, 0) /\ Literal(t)!StringEnd = E[1]
<1> DEFINE E == CHOOSE E : IsScan(E, t, 0)
<1>1. IsScan(E, t, 0)
  BY ScanExists
<1>2. Literal(t)!StringEnd = E[0 + 1]
  BY Zenon DEF Literal!StringEnd, Literal!Sign, IsScan, Sign, Escapes, Quotes
<1>3. 0 + 1 = 1
  OBVIOUS
<1>4. Literal(t)!StringEnd = E[1]
  BY <1>2, <1>3, Zenon
<1>5. QED
  BY <1>1, <1>4, Zenon

-----------------------------------------------------------------------------
(* Texts: sequences of characters.                                         *)

Nil   == ""
Back  == "\\"
Quo   == "'"
Dot   == "."
Marks == {"'", "\\", "n", "t", "\n", "\t", "."}

LEMMA MarksAre ==
  /\ Len(Nil) = 0 /\ SubSeq(Nil, 1, 0) = Nil
  /\ \A c \in Marks : Len(c) = 1 /\ SubSeq(c, 1, 1) = c
  /\ Back \in Marks /\ Quo \in Marks /\ Dot \in Marks
BY CharactersAssumption, Zenon DEF Nil, Back, Quo, Dot, Marks

LEMMA NilIs == Nil = <<>>
<1>1. PICK z : z = Nil
  OBVIOUS
<1>2. SubSeq(z, 1, 0) = z
  BY <1>1, MarksAre
<1>3. SubSeq(z, 1, 0) = <<>>
  OBVIOUS
<1>4. QED
  BY <1>1, <1>2, <1>3

LEMMA OneCharacter ==
  ASSUME NEW S, NEW c, SubSeq(c, 1, 1) = c, c[1] \in S
  PROVE  c \in Seq(S) /\ Len(c) = 1
<1>1. SubSeq(c, 1, 1) \in Seq(S) /\ Len(SubSeq(c, 1, 1)) = 1
  OBVIOUS
<1>2. QED
  BY <1>1

LEMMA CharIs ==
  ASSUME NEW S, NEW s \in Seq(S), NEW i \in 0 .. Len(s) - 1
  PROVE  /\ CharAt(s, i) = SubSeq(s, i + 1, i + 1)
         /\ CharAt(s, i) \in Seq(S) /\ Len(CharAt(s, i)) = 1 /\ CharAt(s, i)[1] = s[i + 1]
<1>1. i < Len(s)
  BY LenProperties
<1>2. CharAt(s, i) = SubSeq(s, i + 1, i + 1)
  BY <1>1, Zenon DEF CharAt
<1>3. i + 1 \in 1 .. Len(s)
  BY LenProperties
<1>4. SubSeq(s, i + 1, i + 1) \in Seq(S) /\ Len(SubSeq(s, i + 1, i + 1)) = 1
      /\ SubSeq(s, i + 1, i + 1)[1] = s[i + 1]
  BY <1>3
<1>5. QED
  BY <1>2, <1>4

\* Texts of one character.
LEMMA SameCharacter ==
  ASSUME NEW S, NEW c \in Seq(S), NEW d \in Seq(S), Len(c) = 1, Len(d) = 1, c[1] = d[1]
  PROVE  c = d
OBVIOUS

LEMMA JoinIs ==
  ASSUME NEW S, NEW s \in Seq(S), NEW t \in Seq(S)
  PROVE  /\ s \o t \in Seq(S) /\ Len(s \o t) = Len(s) + Len(t)
         /\ \A i \in 1 .. Len(s) : (s \o t)[i] = s[i]
         /\ \A i \in 1 .. Len(t) : (s \o t)[Len(s) + i] = t[i]
BY ConcatProperties, LenProperties

LEMMA CharOfFirst ==
  ASSUME NEW S, NEW s \in Seq(S), NEW t \in Seq(S), NEW i \in 0 .. Len(s) - 1
  PROVE  CharAt(s \o t, i) = CharAt(s, i)
<1>1. PICK r : r = s \o t
  OBVIOUS
<1>2. r \in Seq(S) /\ Len(r) = Len(s) + Len(t) /\ \A k \in 1 .. Len(s) : r[k] = s[k]
  BY <1>1, JoinIs
<1>3. i \in 0 .. Len(r) - 1 /\ i + 1 \in 1 .. Len(s)
  BY <1>2, LenProperties
<1>4. PICK c : c = CharAt(r, i)
  OBVIOUS
<1>5. PICK d : d = CharAt(s, i)
  OBVIOUS
<1>6. c \in Seq(S) /\ Len(c) = 1 /\ c[1] = r[i + 1]
  BY <1>2, <1>3, <1>4, CharIs
<1>7. d \in Seq(S) /\ Len(d) = 1 /\ d[1] = s[i + 1]
  BY <1>5, CharIs
<1>8. c[1] = d[1]
  BY <1>2, <1>3, <1>6, <1>7
<1>9. c = d
  BY <1>6, <1>7, <1>8, SameCharacter
<1>10. QED
  BY <1>1, <1>4, <1>5, <1>9

LEMMA RestOfJoin ==
  ASSUME NEW S, NEW s \in Seq(S), NEW t \in Seq(S)
  PROVE  From(s \o t, Len(s)) = t
<1>0. PICK r : r = s \o t
  OBVIOUS
<1>1. /\ r \in Seq(S) /\ r = s \o t /\ Len(r) = Len(s) + Len(t)
      /\ \A i \in 1 .. Len(t) : r[Len(s) + i] = t[i]
  BY <1>0, JoinIs
<1>2. PICK a \in Nat, b \in Nat : a = Len(s) /\ b = Len(t)
  BY LenProperties
<1>3. PICK u : u = SubSeq(r, a + 1, a + b)
  OBVIOUS
<1>4. u = [i \in 1 .. b |-> r[a + i]]
  BY <1>2, <1>3
<1>5. t = [i \in 1 .. b |-> t[i]]
  BY <1>2
<1>6. u = t
  BY <1>1, <1>2, <1>4, <1>5
<1>7. QED
  BY <1>1, <1>2, <1>3, <1>6 DEF From

LEMMA RestIs ==
  ASSUME NEW S, NEW s \in Seq(S), NEW i \in 0 .. Len(s)
  PROVE  /\ From(s, i) \in Seq(S) /\ Len(From(s, i)) = Len(s) - i
         /\ \A j \in 1 .. Len(s) - i : From(s, i)[j] = s[i + j]
<1>1. PICK n \in Nat : n = Len(s)
  BY LenProperties
<1>2. /\ SubSeq(s, i + 1, n) \in Seq(S)
      /\ Len(SubSeq(s, i + 1, n)) = n - i
      /\ \A j \in 1 .. n - i : SubSeq(s, i + 1, n)[j] = s[i + j]
  BY <1>1
<1>3. QED
  BY <1>1, <1>2 DEF From

LEMMA SameCharacters ==
  ASSUME NEW S, NEW s \in Seq(S), NEW t \in Seq(S), Len(s) = Len(t),
         \A i \in 1 .. Len(s) : s[i] = t[i]
  PROVE  s = t
OBVIOUS

LEMMA RestOfRest ==
  ASSUME NEW S, NEW s \in Seq(S), NEW i \in 0 .. Len(s), NEW j \in 0 .. Len(s) - i
  PROVE  From(From(s, i), j) = From(s, i + j)
<1>1. PICK n \in Nat : n = Len(s)
  BY LenProperties
<1>2. PICK r : r = From(s, i)
  OBVIOUS
<1>3. r \in Seq(S) /\ Len(r) = n - i /\ \A k \in 1 .. n - i : r[k] = s[i + k]
  BY <1>1, <1>2, RestIs
<1>4. j \in 0 .. Len(r)
  BY <1>1, <1>3
<1>5. PICK a : a = From(r, j)
  OBVIOUS
<1>6. a \in Seq(S) /\ Len(a) = n - i - j /\ \A k \in 1 .. n - i - j : a[k] = r[j + k]
  <2>1. r \in Seq(S)
    BY <1>3
  <2>2. /\ From(r, j) \in Seq(S) /\ Len(From(r, j)) = Len(r) - j
        /\ \A k \in 1 .. Len(r) - j : From(r, j)[k] = r[j + k]
    BY <1>4, <2>1, RestIs
  <2>3. QED
    BY <1>3, <1>5, <2>2
<1>7. PICK m : m = i + j /\ m \in 0 .. Len(s)
  BY <1>1
<1>8. PICK b : b = From(s, m)
  OBVIOUS
<1>9. b \in Seq(S) /\ Len(b) = n - m /\ \A k \in 1 .. n - m : b[k] = s[m + k]
  BY <1>1, <1>7, <1>8, RestIs
<1>10. \A k \in 1 .. Len(a) : a[k] = b[k]
  <2>1. SUFFICES ASSUME NEW k \in 1 .. n - i - j
                 PROVE  a[k] = b[k]
    BY <1>6
  <2>2. j + k \in 1 .. n - i /\ k \in 1 .. n - m /\ i + (j + k) = m + k
    BY <1>1, <1>7
  <2>3. QED
    BY <1>3, <1>6, <1>9, <2>2
<1>11. Len(a) = Len(b)
  BY <1>6, <1>7, <1>9
<1>12. a = b
  BY <1>6, <1>9, <1>10, <1>11, SameCharacters
<1>13. QED
  BY <1>2, <1>5, <1>7, <1>8, <1>12

LEMMA CharOfRest ==
  ASSUME NEW S, NEW s \in Seq(S), NEW i \in 0 .. Len(s), NEW j \in 0 .. Len(s) - i - 1
  PROVE  CharAt(From(s, i), j) = CharAt(s, i + j)
<1>1. PICK n \in Nat : n = Len(s)
  BY LenProperties
<1>2. PICK r : r = From(s, i)
  OBVIOUS
<1>3. r \in Seq(S) /\ Len(r) = n - i /\ \A k \in 1 .. n - i : r[k] = s[i + k]
  BY <1>1, <1>2, RestIs
<1>4. PICK m : m = i + j /\ m \in 0 .. Len(s) - 1 /\ j \in 0 .. Len(r) - 1 /\ j + 1 \in 1 .. n - i
              /\ i + (j + 1) = m + 1
  BY <1>1, <1>3
<1>5. PICK c : c = CharAt(r, j)
  OBVIOUS
<1>6. PICK d : d = CharAt(s, m)
  OBVIOUS
<1>7. c \in Seq(S) /\ Len(c) = 1 /\ c[1] = r[j + 1]
  BY <1>3, <1>4, <1>5, CharIs
<1>8. d \in Seq(S) /\ Len(d) = 1 /\ d[1] = s[m + 1]
  BY <1>4, <1>6, CharIs
<1>9. c[1] = d[1]
  BY <1>3, <1>4, <1>7, <1>8
<1>10. c = d
  BY <1>7, <1>8, <1>9, SameCharacter
<1>11. QED
  BY <1>2, <1>4, <1>5, <1>6, <1>10

\* A text is its first character and the rest.
LEMMA FirstAndRest ==
  ASSUME NEW S, NEW s \in Seq(S), NEW i \in 0 .. Len(s) - 1
  PROVE  CharAt(s, i) \o From(s, i + 1) = From(s, i)
<1>1. PICK n \in Nat : n = Len(s)
  BY LenProperties
<1>2. PICK c : c = CharAt(s, i)
  OBVIOUS
<1>3. c \in Seq(S) /\ Len(c) = 1 /\ c[1] = s[i + 1]
  BY <1>2, CharIs
<1>4. PICK m : m = i + 1 /\ m \in 0 .. Len(s) /\ i \in 0 .. Len(s)
  BY <1>1
<1>5. PICK r : r = From(s, m)
  OBVIOUS
<1>6. r \in Seq(S) /\ Len(r) = n - m /\ \A k \in 1 .. n - m : r[k] = s[m + k]
  BY <1>1, <1>4, <1>5, RestIs
<1>7. PICK b : b = From(s, i)
  OBVIOUS
<1>8. b \in Seq(S) /\ Len(b) = n - i /\ \A k \in 1 .. n - i : b[k] = s[i + k]
  BY <1>1, <1>4, <1>7, RestIs
<1>9. PICK a : a = c \o r
  OBVIOUS
<1>10. /\ a \in Seq(S) /\ Len(a) = 1 + (n - m)
       /\ a[1] = c[1]
       /\ \A k \in 1 .. n - m : a[1 + k] = r[k]
  <2>0. c \in Seq(S) /\ r \in Seq(S)
    BY <1>3, <1>6
  <2>1. /\ c \o r \in Seq(S) /\ Len(c \o r) = Len(c) + Len(r)
        /\ \A k \in 1 .. Len(c) : (c \o r)[k] = c[k]
        /\ \A k \in 1 .. Len(r) : (c \o r)[Len(c) + k] = r[k]
    BY ONLY <2>0, JoinIs
  <2>2. 1 \in 1 .. 1
    OBVIOUS
  <2>3. QED
    BY <1>3, <1>6, <1>9, <2>1, <2>2
<1>11. ASSUME NEW k \in 1 .. n - i
       PROVE  a[k] = b[k]
  <2>1. CASE k = 1
    BY <1>3, <1>8, <1>10, <2>1
  <2>2. CASE k # 1
    <3>1. PICK l : l = k - 1 /\ l \in 1 .. n - m /\ 1 + l = k /\ m + l = i + k
      BY <1>1, <1>4, <2>2
    <3>2. QED
      BY <1>6, <1>8, <1>10, <3>1
  <2>3. QED
    BY <2>1, <2>2
<1>12. Len(a) = n - i /\ Len(b) = n - i
  BY <1>4, <1>8, <1>10
<1>13. a = b
  BY <1>8, <1>10, <1>11, <1>12, SameCharacters
<1>14. QED
  BY <1>2, <1>4, <1>5, <1>7, <1>9, <1>13

-----------------------------------------------------------------------------
(* Escaping.                                                               *)

Escaped == {Unescaped[e] : e \in DOMAIN Unescaped}

LEMMA EscapesAre ==
  /\ DOMAIN Unescaped \subseteq Escapes /\ DOMAIN Unescaped \subseteq Marks
  /\ Escaped \subseteq Marks
  /\ Quo \in Escaped /\ Back \in Escaped /\ "\n" \in Escaped
  /\ \A c \in Escaped : EscapeOf(c) \in DOMAIN Unescaped /\ Unescaped[EscapeOf(c)] = c
<1>1. DOMAIN Unescaped = {"'", "\\", "n", "t"}
  BY Zenon DEF Unescaped
<1>2. /\ Unescaped["'"] = "'" /\ Unescaped["\\"] = "\\"
      /\ Unescaped["n"] = "\n" /\ Unescaped["t"] = "\t"
  BY DEF Unescaped
<1>3. DOMAIN Unescaped \subseteq Escapes /\ DOMAIN Unescaped \subseteq Marks
  BY <1>1, Zenon DEF Escapes, Marks
<1>4. Escaped = {"'", "\\", "\n", "\t"}
  BY <1>1, <1>2, Zenon DEF Escaped
<1>5. \A c \in Escaped : EscapeOf(c) \in DOMAIN Unescaped /\ Unescaped[EscapeOf(c)] = c
  BY Zenon DEF Escaped, EscapeOf
<1>6. QED
  BY <1>3, <1>4, <1>5, Zenon DEF Marks, Quo, Back

\* The characters of a text and of the escapes.
Alphabet(S) == \A c \in Marks : c[1] \in S

LEMMA MarkText ==
  ASSUME NEW S, Alphabet(S), NEW c \in Marks
  PROVE  c \in Seq(S) /\ Len(c) = 1
<1>1. SubSeq(c, 1, 1) = c /\ c[1] \in S
  BY MarksAre DEF Alphabet
<1>2. QED
  BY <1>1, OneCharacter

Piece(v, i) == IF CharAt(v, i) \in Escaped THEN Back \o EscapeOf(CharAt(v, i)) ELSE CharAt(v, i)

LEMMA PieceIs ==
  ASSUME NEW S, Alphabet(S), NEW v \in Seq(S), NEW i \in 0 .. Len(v) - 1
  PROVE  /\ Piece(v, i) \in Seq(S)
         /\ IF CharAt(v, i) \in Escaped
            THEN /\ Len(Piece(v, i)) = 2 /\ CharAt(Piece(v, i), 0) = Back
                 /\ CharAt(Piece(v, i), 1) = EscapeOf(CharAt(v, i))
            ELSE Len(Piece(v, i)) = 1 /\ CharAt(Piece(v, i), 0) = CharAt(v, i)
<1>1. PICK c : c = CharAt(v, i)
  OBVIOUS
<1>2. c \in Seq(S) /\ Len(c) = 1
  BY <1>1, CharIs
<1>3. CASE c \in Escaped
  <2>1. PICK d : d = EscapeOf(c)
    OBVIOUS
  <2>2. PICK b : b = Back
    OBVIOUS
  <2>3. d \in Seq(S) /\ Len(d) = 1
    BY <1>3, <2>1, EscapesAre, MarkText
  <2>4. b \in Seq(S) /\ Len(b) = 1
    BY <2>2, MarksAre, MarkText
  <2>5. PICK p : p = b \o d
    OBVIOUS
  <2>6. p \in Seq(S) /\ Len(p) = 2 /\ p[1] = b[1] /\ p[2] = d[1]
    <3>1. b \in Seq(S) /\ d \in Seq(S)
      BY <2>3, <2>4
    <3>2. /\ b \o d \in Seq(S) /\ Len(b \o d) = Len(b) + Len(d)
          /\ \A k \in 1 .. Len(b) : (b \o d)[k] = b[k]
          /\ \A k \in 1 .. Len(d) : (b \o d)[Len(b) + k] = d[k]
      BY ONLY <3>1, JoinIs
    <3>3. 1 \in 1 .. 1 /\ 1 + 1 = 2
      OBVIOUS
    <3>4. QED
      BY <2>3, <2>4, <2>5, <3>2, <3>3
  <2>7. ASSUME NEW k \in {0, 1}
        PROVE  CharAt(p, k) \in Seq(S) /\ Len(CharAt(p, k)) = 1 /\ CharAt(p, k)[1] = p[k + 1]
    <3>1. k \in 0 .. Len(p) - 1
      BY <2>6
    <3>2. QED
      BY <2>6, <3>1, CharIs
  <2>8. PICK x, y : x = CharAt(p, 0) /\ y = CharAt(p, 1)
    OBVIOUS
  <2>9. /\ x \in Seq(S) /\ Len(x) = 1 /\ x[1] = p[1]
        /\ y \in Seq(S) /\ Len(y) = 1 /\ y[1] = p[2]
    BY <2>7, <2>8
  <2>10. x = b
    BY <2>4, <2>6, <2>9, SameCharacter
  <2>11. y = d
    BY <2>3, <2>6, <2>9, SameCharacter
  <2>12. Piece(v, i) = p
    BY <1>1, <1>3, <2>1, <2>2, <2>5, Zenon DEF Piece
  <2>13. QED
    BY <1>1, <1>3, <2>1, <2>2, <2>6, <2>8, <2>10, <2>11, <2>12
<1>4. CASE c \notin Escaped
  <2>1. Piece(v, i) = c
    BY <1>1, <1>4, Zenon DEF Piece
  <2>2. PICK x : x = CharAt(c, 0)
    OBVIOUS
  <2>3. x \in Seq(S) /\ Len(x) = 1 /\ x[1] = c[1]
    <3>1. PICK z : z = 0 /\ z \in 0 .. Len(c) - 1 /\ z + 1 = 1
      BY <1>2
    <3>2. CharAt(c, z) \in Seq(S) /\ Len(CharAt(c, z)) = 1 /\ CharAt(c, z)[1] = c[z + 1]
      BY <1>2, <3>1, CharIs
    <3>3. QED
      BY <2>2, <3>1, <3>2
  <2>4. x = c
    BY <1>2, <2>3, SameCharacter
  <2>5. QED
    BY <1>1, <1>2, <1>4, <2>1, <2>2, <2>4
<1>5. QED
  BY <1>3, <1>4

IsEscape(f, v) ==
  f = [i \in 0 .. Len(v) |->
        LET c == CharAt(v, i)
        IN  IF i = Len(v) THEN ""
            ELSE (IF c \in {Unescaped[e] : e \in DOMAIN Unescaped}
                  THEN "\\" \o EscapeOf(c) ELSE c) \o f[i + 1]]

LEMMA EscapeIs ==
  ASSUME NEW S, Alphabet(S), NEW v \in Seq(S)
  PROVE  \E f : /\ fpStringEscape(v) = f[0] /\ f[Len(v)] = Nil
                /\ \A i \in 0 .. Len(v) : f[i] \in Seq(S)
                /\ \A i \in 0 .. Len(v) - 1 : f[i] = Piece(v, i) \o f[i + 1]
<1>1. PICK n \in Nat : n = Len(v)
  BY LenProperties
<1> DEFINE V == Seq(S)
           F == [k \in 1 .. n |-> [y \in V |-> Piece(v, n - k) \o y]]
           f == CHOOSE f : IsEscape(f, v)
<1>2. ASSUME NEW k \in 1 .. n, NEW y \in V
      PROVE  Piece(v, n - k) \o y \in V
  <2>1. PICK i : i = n - k /\ i \in 0 .. Len(v) - 1
    BY <1>1
  <2>2. Piece(v, i) \in Seq(S)
    BY <2>1, PieceIs
  <2>3. QED
    BY <2>1, <2>2, JoinIs
<1>3. Steps(F, n, V)
  <2> HIDE DEF V
  <2> QED BY <1>2 DEF Steps
<1>4. Nil \in V
  BY NilIs, EmptySeq
<1>5. PICK h \in [0 .. n -> V] : Iterates(h, F, Nil, n)
  <2> HIDE DEF V, F
  <2> QED BY <1>3, <1>4, IterationExists
<1>6. h[0] = Nil /\ \A k \in 1 .. n : h[k] = Piece(v, n - k) \o h[k - 1]
  <2>1. h[0] = Nil /\ \A k \in 1 .. n : h[k] = F[k][h[k - 1]]
    BY <1>5 DEF Iterates
  <2>2. ASSUME NEW k \in 1 .. n
        PROVE  h[k] = Piece(v, n - k) \o h[k - 1]
    <3>1. k - 1 \in 0 .. n
      OBVIOUS
    <3>2. PICK y \in V : y = h[k - 1]
      BY <3>1
    <3> HIDE DEF V
    <3>3. F[k][y] = Piece(v, n - k) \o y
      OBVIOUS
    <3>4. QED
      BY <2>1, <3>2, <3>3
  <2>3. QED
    BY <2>1, <2>2
<1> DEFINE E == [i \in 0 .. n |-> h[n - i]]
<1>7. /\ E[n] = Nil
      /\ \A i \in 0 .. n : E[i] \in V
      /\ \A i \in 0 .. n - 1 : E[i] = Piece(v, i) \o E[i + 1]
  <2>1. n \in 0 .. n /\ n - n = 0
    OBVIOUS
  <2>2. ASSUME NEW i \in 0 .. n
        PROVE  n - i \in 0 .. n
    OBVIOUS
  <2>3. ASSUME NEW i \in 0 .. n - 1
        PROVE  E[i] = Piece(v, i) \o E[i + 1]
    <3>1. PICK k : k = n - i /\ k \in 1 .. n /\ n - k = i /\ i + 1 \in 0 .. n /\ n - (i + 1) = k - 1
                   /\ i \in 0 .. n
      OBVIOUS
    <3>2. E[i] = h[k] /\ E[i + 1] = h[k - 1]
      BY <3>1
    <3>3. QED
      BY <1>6, <3>1, <3>2
  <2> HIDE DEF V
  <2>4. QED
    BY <1>6, <2>1, <2>2, <2>3
<1>8. IsEscape(E, v)
  <2>1. ASSUME NEW i \in 0 .. n
        PROVE  E[i] = LET c == CharAt(v, i)
                      IN  IF i = n THEN ""
                          ELSE (IF c \in {Unescaped[e] : e \in DOMAIN Unescaped}
                                THEN "\\" \o EscapeOf(c) ELSE c) \o E[i + 1]
    <3>1. CASE i = n
      BY <1>7, <3>1, Zenon DEF Nil
    <3>2. CASE i # n
      <4>1. i \in 0 .. n - 1
        BY <3>2
      <4>2. E[i] = Piece(v, i) \o E[i + 1]
        BY <1>7, <4>1
      <4> HIDE DEF E
      <4>3. QED
        BY <3>2, <4>2, Zenon DEF Piece, Escaped, Back
    <3>3. QED
      BY <3>1, <3>2
  <2>2. E = [i \in 0 .. n |-> E[i]]
    OBVIOUS
  <2> HIDE DEF E
  <2>3. E = [i \in 0 .. n |->
               LET c == CharAt(v, i)
               IN  IF i = n THEN ""
                   ELSE (IF c \in {Unescaped[e] : e \in DOMAIN Unescaped}
                         THEN "\\" \o EscapeOf(c) ELSE c) \o E[i + 1]]
    BY <2>1, <2>2, Zenon
  <2>4. QED
    BY <1>1, <2>3, Zenon DEF IsEscape
<1>9. IsEscape(f, v)
  BY <1>8
<1>10. fpStringEscape(v) = f[0]
  BY Zenon DEF fpStringEscape, IsEscape
<1> HIDE DEF f, E
<1>11. /\ f[n] = Nil
       /\ \A i \in 0 .. n - 1 : f[i] = Piece(v, i) \o f[i + 1]
  <2>1. ASSUME NEW i \in 0 .. n
        PROVE  f[i] = IF i = n THEN Nil ELSE Piece(v, i) \o f[i + 1]
    <3>1. f = [j \in 0 .. n |->
                 LET c == CharAt(v, j)
                 IN  IF j = n THEN ""
                     ELSE (IF c \in {Unescaped[e] : e \in DOMAIN Unescaped}
                           THEN "\\" \o EscapeOf(c) ELSE c) \o f[j + 1]]
      BY <1>1, <1>9, Zenon DEF IsEscape
    <3>2. f[i] = LET c == CharAt(v, i)
                 IN  IF i = n THEN ""
                     ELSE (IF c \in {Unescaped[e] : e \in DOMAIN Unescaped}
                           THEN "\\" \o EscapeOf(c) ELSE c) \o f[i + 1]
      BY <3>1, Zenon
    <3>3. QED
      BY <3>2, Zenon DEF Piece, Escaped, Back, Nil
  <2>2. n \in 0 .. n /\ \A i \in 0 .. n - 1 : i \in 0 .. n /\ i # n
    OBVIOUS
  <2>3. QED
    BY <2>1, <2>2
<1> DEFINE T == {k \in Nat : k <= n => f[n - k] \in V}
<1>12. Nat \subseteq T
  <2>1. 0 \in T
    <3>1. n - 0 = n
      OBVIOUS
    <3> HIDE DEF V
    <3>2. QED
      BY <1>4, <1>11, <3>1
  <2>2. ASSUME NEW k \in Nat, k \in T
        PROVE  k + 1 \in T
    <3>1. SUFFICES ASSUME k + 1 <= n
                   PROVE  f[n - (k + 1)] \in V
      OBVIOUS
    <3>2. PICK i : i = n - (k + 1) /\ i \in 0 .. n - 1 /\ i + 1 = n - k /\ i = n - (k + 1) /\ k + 1 \in 1 .. n
      BY <3>1
    <3>3. f[i + 1] \in V
      BY <2>2, <3>1, <3>2
    <3>4. Piece(v, i) \o f[i + 1] \in V
      BY <1>2, <3>2, <3>3
    <3> HIDE DEF V
    <3>5. QED
      BY <1>11, <3>2, <3>4
  <2> HIDE DEF T
  <2>3. QED
    BY <2>1, <2>2, SetInduction
<1>13. \A i \in 0 .. n : f[i] \in V
  <2>1. ASSUME NEW i \in 0 .. n
        PROVE  n - i \in Nat /\ n - i <= n /\ n - (n - i) = i
    OBVIOUS
  <2> HIDE DEF V
  <2>2. QED
    BY <1>12, <2>1
<1>14. QED
  BY <1>1, <1>10, <1>11, <1>13, Zenon

\* A text of one character.
LEMMA OnlyCharacter ==
  ASSUME NEW S, NEW c \in Seq(S), Len(c) = 1
  PROVE  CharAt(c, 0) = c
<1>1. PICK z : z = 0 /\ z \in 0 .. Len(c) - 1 /\ z + 1 = 1
  OBVIOUS
<1>2. PICK x : x = CharAt(c, z)
  OBVIOUS
<1>3. x \in Seq(S) /\ Len(x) = 1 /\ x[1] = c[z + 1]
  BY <1>1, <1>2, CharIs
<1>4. x = c
  BY <1>1, <1>3, SameCharacter
<1>5. QED
  BY <1>1, <1>2, <1>4

\* A text whose rest from m on is q and then r.
LEMMA PieceAt ==
  ASSUME NEW S, NEW s \in Seq(S), NEW m \in 0 .. Len(s), NEW q \in Seq(S), NEW r \in Seq(S),
         From(s, m) = q \o r
  PROVE  /\ Len(s) = m + Len(q) + Len(r)
         /\ From(s, m + Len(q)) = r
         /\ \A k \in 0 .. Len(q) - 1 : CharAt(s, m + k) = CharAt(q, k)
<1>1. PICK t : t = From(s, m)
  OBVIOUS
<1>2. t \in Seq(S) /\ Len(t) = Len(s) - m
  BY <1>1, RestIs
<1>3. q \in Seq(S) /\ r \in Seq(S)
  OBVIOUS
<1>4. Len(q \o r) = Len(q) + Len(r) /\ From(q \o r, Len(q)) = r
  BY ONLY <1>3, JoinIs, RestOfJoin
<1>5. PICK n \in Nat, a \in Nat, b \in Nat : n = Len(s) /\ a = Len(q) /\ b = Len(r)
  BY LenProperties
<1>6. n = m + a + b
  BY <1>1, <1>2, <1>4, <1>5
<1>7. a \in 0 .. Len(s) - m
  BY <1>5, <1>6
<1>8. From(From(s, m), a) = From(s, m + a)
  BY <1>7, RestOfRest
<1>9. ASSUME NEW k \in 0 .. a - 1
      PROVE  CharAt(s, m + k) = CharAt(q, k)
  <2>1. k \in 0 .. Len(s) - m - 1 /\ k \in 0 .. Len(q) - 1
    BY <1>5, <1>6
  <2>2. CharAt(From(s, m), k) = CharAt(s, m + k)
    BY <2>1, CharOfRest
  <2>3. CharAt(q \o r, k) = CharAt(q, k)
    BY <1>3, <2>1, CharOfFirst
  <2>4. QED
    BY <2>2, <2>3
<1>10. QED
  BY <1>4, <1>5, <1>6, <1>8, <1>9

\* v is spelled in shown, character i at p[i], between quotes.
Spelled(v, shown, p) ==
  /\ p[0] = 1 /\ p[Len(v)] = Len(shown) - 1
  /\ CharAt(shown, 0) = Quo /\ CharAt(shown, Len(shown) - 1) = Quo
  /\ \A i \in 0 .. Len(v) : p[i] \in 1 .. Len(shown) - 1
  /\ \A i \in 0 .. Len(v) - 1 :
       IF CharAt(v, i) \in Escaped
       THEN /\ p[i + 1] = p[i] + 2 /\ CharAt(shown, p[i]) = Back
            /\ CharAt(shown, p[i] + 1) = EscapeOf(CharAt(v, i))
       ELSE p[i + 1] = p[i] + 1 /\ CharAt(shown, p[i]) = CharAt(v, i)

LEMMA QuoteSpells ==
  ASSUME NEW S, Alphabet(S), NEW v \in Seq(S)
  PROVE  Quote(v) \in Seq(S) /\ \E p : Spelled(v, Quote(v), p)
<1>1. PICK n \in Nat : n = Len(v)
  BY LenProperties
<1>2. PICK E : /\ fpStringEscape(v) = E[0] /\ E[n] = Nil
               /\ \A i \in 0 .. n : E[i] \in Seq(S)
               /\ \A i \in 0 .. n - 1 : E[i] = Piece(v, i) \o E[i + 1]
  BY <1>1, EscapeIs
<1>3. PICK o : o = Quo
  OBVIOUS
<1>4. o \in Seq(S) /\ Len(o) = 1
  BY <1>3, MarksAre, MarkText
<1>5. PICK w : w = Quote(v)
  OBVIOUS
<1>6. 0 \in 0 .. n /\ n \in 0 .. n
  OBVIOUS
<1> DEFINE R(i) == E[i] \o o
<1>7. ASSUME NEW i \in 0 .. n
      PROVE  R(i) \in Seq(S) /\ Len(R(i)) = Len(E[i]) + 1 /\ Len(E[i]) \in Nat
  <2>1. E[i] \in Seq(S)
    BY <1>2
  <2>2. E[i] \o o \in Seq(S) /\ Len(E[i] \o o) = Len(E[i]) + Len(o)
    BY <1>4, <2>1, JoinIs
  <2>3. QED
    BY <1>4, <2>1, <2>2, LenProperties
<1>8. w = o \o R(0)
  <2>1. PICK l : l = E[0] /\ l \in Seq(S)
    BY <1>2, <1>6
  <2>2. w = (o \o l) \o o
    BY <1>2, <1>3, <1>5, <2>1, Zenon DEF Quote, Quo
  <2>3. o \in Seq(S) /\ l \in Seq(S)
    BY <1>4, <2>1
  <2>4. (o \o l) \o o = o \o (l \o o)
    BY ONLY <2>3, ConcatAssociative
  <2>5. QED
    BY <2>1, <2>2, <2>4
<1>9. w \in Seq(S) /\ Len(w) = 1 + Len(R(0))
  <2>1. PICK r : r = R(0) /\ r \in Seq(S)
    BY <1>6, <1>7
  <2>2. o \o r \in Seq(S) /\ Len(o \o r) = Len(o) + Len(r)
    BY <1>4, <2>1, JoinIs
  <2>3. QED
    BY <1>4, <1>8, <2>1, <2>2
<1> DEFINE p == [i \in 0 .. n |-> Len(w) - Len(R(i))]
<1>10. ASSUME NEW i \in 0 .. n - 1
       PROVE  LET P == Piece(v, i)
              IN  P \in Seq(S) /\ R(i) = P \o R(i + 1) /\ Len(R(i)) = Len(P) + Len(R(i + 1))
  <2>1. i \in 0 .. n /\ i + 1 \in 0 .. n /\ i \in 0 .. Len(v) - 1
    BY <1>1
  <2>2. PICK P : P = Piece(v, i)
    OBVIOUS
  <2>3. P \in Seq(S)
    BY <2>1, <2>2, PieceIs
  <2>4. PICK F : F = E[i + 1] /\ F \in Seq(S)
    BY <1>2, <2>1
  <2>5. E[i] = P \o F
    BY <1>2, <2>2, <2>4
  <2>6. (P \o F) \o o = P \o (F \o o)
    <3>1. P \in Seq(S) /\ F \in Seq(S) /\ o \in Seq(S)
      BY <1>4, <2>3, <2>4
    <3>2. QED
      BY ONLY <3>1, ConcatAssociative
  <2>7. PICK G : G = F \o o /\ G \in Seq(S)
    BY <1>7, <2>1, <2>4
  <2>8. Len(P \o G) = Len(P) + Len(G)
    BY <2>3, <2>7, JoinIs
  <2>9. QED
    BY <2>2, <2>3, <2>4, <2>5, <2>6, <2>7, <2>8
<1>11. ASSUME NEW i \in 0 .. n
       PROVE  Len(R(i)) \in Nat /\ Len(R(i)) >= 1
  BY <1>7
<1> HIDE DEF R
<1>12. Len(w) \in Nat
  BY <1>9, LenProperties
<1> DEFINE T == {i \in Nat : i <= n => p[i] \in 1 .. Len(w) /\ From(w, p[i]) = R(i)}
<1>13. 0 \in T
  <2>1. p[0] = 1
    BY <1>6, <1>9, <1>11
  <2>2. PICK r : r = R(0) /\ r \in Seq(S)
    BY <1>6, <1>7 DEF R
  <2>3. From(o \o r, Len(o)) = r
    BY <1>4, <2>2, RestOfJoin
  <2>4. QED
    BY <1>4, <1>6, <1>8, <1>9, <1>11, <2>1, <2>2, <2>3
<1>14. ASSUME NEW i \in 0 .. n - 1, i \in T
       PROVE  LET P == Piece(v, i)
              IN  /\ p[i + 1] = p[i] + Len(P) /\ p[i + 1] \in 1 .. Len(w)
                  /\ From(w, p[i + 1]) = R(i + 1)
                  /\ \A k \in 0 .. Len(P) - 1 : CharAt(w, p[i] + k) = CharAt(P, k)
  <2>1. i \in 0 .. n /\ i + 1 \in 0 .. n
    OBVIOUS
  <2>2. PICK P : P = Piece(v, i)
    OBVIOUS
  <2>3. PICK r : r = R(i + 1) /\ r \in Seq(S) /\ Len(r) \in Nat /\ Len(r) >= 1
    BY <1>7, <1>11, <2>1 DEF R
  <2>4. P \in Seq(S) /\ R(i) = P \o r /\ Len(R(i)) = Len(P) + Len(r)
    BY <1>10, <2>2, <2>3
  <2>5. PICK m : m = p[i] /\ m \in 1 .. Len(w) /\ From(w, m) = R(i)
    <3>1. p[i] \in 1 .. Len(w) /\ From(w, p[i]) = R(i)
      BY <1>14, <2>1
    <3> HIDE DEF p
    <3>2. QED
      BY <3>1
  <2>6. m \in 0 .. Len(w) /\ From(w, m) = P \o r
    BY <2>4, <2>5
  <2>7. /\ Len(w) = m + Len(P) + Len(r)
        /\ From(w, m + Len(P)) = r
        /\ \A k \in 0 .. Len(P) - 1 : CharAt(w, m + k) = CharAt(P, k)
    <3>1. w \in Seq(S) /\ P \in Seq(S) /\ r \in Seq(S)
      BY <1>9, <2>3, <2>4
    <3>2. QED
      BY ONLY <2>6, <3>1, PieceAt, Zenon
  <2>8. p[i + 1] = Len(w) - Len(r)
    BY <2>1, <2>3
  <2>9. Len(P) \in Nat
    BY <2>4, LenProperties
  <2>10. p[i + 1] = m + Len(P) /\ p[i + 1] \in 1 .. Len(w)
    <3>1. PICK a \in Nat, b \in Nat, c \in Nat : a = Len(P) /\ b = Len(r) /\ c = Len(w)
      BY <1>12, <2>3, <2>9, Zenon
    <3>2. c - b = p[i + 1] /\ c = m + a + b /\ b >= 1 /\ m \in 1 .. c
      BY <2>3, <2>5, <2>7, <2>8, <3>1, Zenon
    <3>3. c - b = m + a /\ c - b \in 1 .. c
      BY ONLY <3>2
    <3> HIDE DEF p
    <3>4. QED
      BY <3>1, <3>2, <3>3, Zenon
  <2> HIDE DEF p, T
  <2>11. QED
    BY <2>2, <2>3, <2>5, <2>7, <2>10
<1>15. Nat \subseteq T
  <2>1. ASSUME NEW i \in Nat, i \in T
        PROVE  i + 1 \in T
    <3>1. SUFFICES ASSUME i + 1 <= n
                   PROVE  p[i + 1] \in 1 .. Len(w) /\ From(w, p[i + 1]) = R(i + 1)
      OBVIOUS
    <3>2. i \in 0 .. n - 1
      BY <3>1
    <3> HIDE DEF p, T
    <3>3. QED
      BY <1>14, <2>1, <3>2
  <2> HIDE DEF T
  <2>2. QED
    BY <1>13, <2>1, SetInduction
<1>16. ASSUME NEW i \in 0 .. n
       PROVE  p[i] \in 1 .. Len(w) - 1 /\ From(w, p[i]) = R(i)
  <2>1. i \in Nat /\ i <= n
    OBVIOUS
  <2>2. p[i] \in 1 .. Len(w) /\ From(w, p[i]) = R(i)
    <3> HIDE DEF p
    <3> QED BY <1>15, <2>1
  <2>3. p[i] = Len(w) - Len(R(i)) /\ Len(R(i)) >= 1 /\ Len(R(i)) \in Nat
    BY <1>11
  <2>4. p[i] \in 1 .. Len(w) - 1
    BY <1>12, <2>2, <2>3
  <2> HIDE DEF p
  <2>5. QED
    BY <2>2, <2>4
<1>17. p[0] = 1 /\ CharAt(w, 0) = o
  <2>1. p[0] = 1
    BY <1>6, <1>9, <1>11
  <2>2. PICK r : r = R(0) /\ r \in Seq(S)
    BY <1>6, <1>7 DEF R
  <2>3. PICK z : z = 0 /\ z \in 0 .. Len(o) - 1
    BY <1>4
  <2>4. CharAt(o \o r, z) = CharAt(o, z)
    BY <1>4, <2>2, <2>3, CharOfFirst
  <2>5. CharAt(o, 0) = o
    BY <1>4, OnlyCharacter
  <2>6. QED
    BY <1>8, <2>1, <2>2, <2>3, <2>4, <2>5
<1>18. p[n] = Len(w) - 1 /\ CharAt(w, Len(w) - 1) = o
  <2>1. PICK l : l = E[n] /\ l \in Seq(S) /\ Len(l) = 0
    BY <1>2, <1>6, MarksAre
  <2>2. R(n) = l \o o /\ Len(R(n)) = 1
    BY <1>6, <1>7, <2>1 DEF R
  <2>3. PICK m : m = p[n] /\ m \in 1 .. Len(w) /\ From(w, m) = R(n) /\ m = Len(w) - 1
    <3>1. p[n] = Len(w) - 1
      BY <1>6, <2>2
    <3>2. p[n] \in 1 .. Len(w) - 1 /\ From(w, p[n]) = R(n)
      BY <1>6, <1>16
    <3> HIDE DEF p
    <3>3. QED
      BY <1>12, <3>1, <3>2
  <2>4. m \in 0 .. Len(w) /\ From(w, m) = l \o o
    BY <2>2, <2>3
  <2>5. l \o o = o
    <3>1. o \in Seq(S) /\ l = <<>>
      BY <1>2, <1>4, <2>1, NilIs
    <3>2. QED
      BY ONLY <3>1, ConcatEmptySeq
  <2>6. From(w, m) = o
    BY <2>4, <2>5
  <2>7. PICK z : z = 0 /\ z \in 0 .. Len(w) - m - 1 /\ m + z = m
    BY <1>12, <2>3
  <2>8. CharAt(From(w, m), z) = CharAt(w, m + z)
    BY <1>9, <2>4, <2>7, CharOfRest
  <2>9. CharAt(o, 0) = o
    BY <1>4, OnlyCharacter
  <2>10. QED
    BY <2>3, <2>6, <2>7, <2>8, <2>9
<1>19. ASSUME NEW i \in 0 .. n - 1
       PROVE  IF CharAt(v, i) \in Escaped
              THEN /\ p[i + 1] = p[i] + 2 /\ CharAt(w, p[i]) = Back
                   /\ CharAt(w, p[i] + 1) = EscapeOf(CharAt(v, i))
              ELSE p[i + 1] = p[i] + 1 /\ CharAt(w, p[i]) = CharAt(v, i)
  <2>1. i \in T /\ i \in 0 .. Len(v) - 1
    <3>1. i \in Nat
      OBVIOUS
    <3> HIDE DEF T
    <3>2. QED
      BY <1>1, <1>15, <3>1
  <2>2. PICK P : P = Piece(v, i)
    OBVIOUS
  <2>3. PICK m, e : m = p[i] /\ e = p[i + 1] /\ m \in Int
    <3>1. i \in 0 .. n
      OBVIOUS
    <3>2. p[i] \in Int
      BY <1>12, <1>16, <3>1
    <3> HIDE DEF p
    <3>3. QED
      BY <3>2
  <2> HIDE DEF p, T
  <2>4. e = m + Len(P) /\ \A k \in 0 .. Len(P) - 1 : CharAt(w, m + k) = CharAt(P, k)
    BY <1>14, <2>1, <2>2, <2>3
  <2>5. IF CharAt(v, i) \in Escaped
        THEN /\ Len(P) = 2 /\ CharAt(P, 0) = Back
             /\ CharAt(P, 1) = EscapeOf(CharAt(v, i))
        ELSE Len(P) = 1 /\ CharAt(P, 0) = CharAt(v, i)
    BY <2>1, <2>2, PieceIs
  <2>6. CASE CharAt(v, i) \in Escaped
    <3>0. Len(P) = 2 /\ 0 \in 0 .. 2 - 1 /\ 1 \in 0 .. 2 - 1
      BY <2>5, <2>6
    <3>1. e = m + 2 /\ CharAt(w, m + 0) = CharAt(P, 0) /\ CharAt(w, m + 1) = CharAt(P, 1)
      BY ONLY <2>4, <3>0
    <3>2. m + 0 = m
      BY <2>3
    <3>3. QED
      BY <2>3, <2>5, <2>6, <3>1, <3>2
  <2>7. CASE CharAt(v, i) \notin Escaped
    <3>0. Len(P) = 1 /\ 0 \in 0 .. 1 - 1
      BY <2>5, <2>7
    <3>1. e = m + 1 /\ CharAt(w, m + 0) = CharAt(P, 0)
      BY ONLY <2>4, <3>0
    <3>2. m + 0 = m
      BY <2>3
    <3>3. QED
      BY <2>3, <2>5, <2>7, <3>1, <3>2
  <2>8. QED
    BY <2>6, <2>7
<1> HIDE DEF p
<1>20. Spelled(v, w, p)
  BY <1>1, <1>3, <1>16, <1>17, <1>18, <1>19 DEF Spelled
<1>21. QED
  BY <1>5, <1>9, <1>20

LEMMA QuotedEnds ==
  ASSUME NEW S, NEW s \in Seq(S), NEW v, Len(v) \in Nat, NEW p, Spelled(v, s, p)
  PROVE  Literal(s)!StringEnd = Len(s) - 1
<1>1. PICK n \in Nat, l \in Nat : n = Len(v) /\ l = Len(s)
  BY LenProperties
<1>2. PICK E : IsScan(E, s, 0) /\ Literal(s)!StringEnd = E[1]
  BY <1>1, LiteralEndIs
<1>3. /\ p[0] = 1 /\ p[n] = l - 1 /\ \A i \in 0 .. n : p[i] \in 1 .. l - 1
      /\ CharAt(s, 0) = Quo /\ CharAt(s, l - 1) = Quo
  BY <1>1 DEF Spelled
<1>4. ASSUME NEW i \in 0 .. l - 1
      PROVE  Sign(s, i) = CharAt(s, i)
  <2>1. ~(i >= l) /\ i < l
    OBVIOUS
  <2>2. QED
    BY <1>1, <2>1 DEF Sign, CharAt
<1>5. l >= 2 /\ 0 \in 0 .. l /\ 0 \in 0 .. l - 1 /\ l - 1 \in 0 .. l - 1
  <2>1. 0 \in 0 .. n
    OBVIOUS
  <2>2. QED
    BY <1>3, <2>1
<1>6. Sign(s, 0) = Quo /\ Quo \in Quotes
  BY <1>3, <1>4, <1>5 DEF Quotes, Quo
<1>7. ASSUME NEW i \in 1 .. l - 1
      PROVE  /\ CharAt(s, i) = Quo => E[i] = i
             /\ CharAt(s, i) \notin {Quo, Back, "\n"} => E[i] = E[i + 1]
             /\ CharAt(s, i) = Back /\ i + 1 <= l - 1 /\ CharAt(s, i + 1) \in Escapes => E[i] = E[i + 2]
  <2>1. PICK b : b = 0 /\ b \in 0 .. Len(s) /\ i \in b .. Len(s) + 6
    BY <1>1, <1>5
  <2>2. IsScan(E, s, b) /\ Sign(s, b) \in Quotes /\ Len(s) \in Nat
    BY <1>1, <1>2, <1>6, <2>1
  <2>3. /\ i <= Len(s) /\ Sign(s, i) = Sign(s, b) => E[i] = i
        /\ i <= Len(s) /\ Sign(s, i) \notin {Sign(s, b), "\\", "\n"} => E[i] = E[i + 1]
        /\ i <= Len(s) /\ Sign(s, i) = "\\" => (Sign(s, i + 1) \in Escapes => E[i] = E[i + 2])
    BY ONLY <2>1, <2>2, ScanIs
  <2>4. i <= Len(s) /\ Sign(s, i) = CharAt(s, i) /\ Sign(s, b) = Quo
    BY <1>1, <1>4, <1>6, <2>1
  <2>5. ASSUME i + 1 <= l - 1
        PROVE  Sign(s, i + 1) = CharAt(s, i + 1)
    <3>1. i + 1 \in 0 .. l - 1
      BY <2>5
    <3>2. QED
      BY <1>4, <3>1
  <2>6. Back = "\\"
    BY DEF Back
  <2>7. QED
    BY <2>3, <2>4, <2>5, <2>6
<1> DEFINE T == {k \in Nat : k <= n => E[p[n - k]] = l - 1}
<1>8. 0 \in T
  <2>1. n - 0 = n
    OBVIOUS
  <2>2. l - 1 \in 1 .. l - 1
    BY <1>5
  <2>3. E[l - 1] = l - 1
    BY <1>3, <1>7, <2>2
  <2>4. QED
    BY <1>3, <2>1, <2>3
<1>9. ASSUME NEW k \in Nat, k \in T
      PROVE  k + 1 \in T
  <2>1. SUFFICES ASSUME k + 1 <= n
                 PROVE  E[p[n - (k + 1)]] = l - 1
    OBVIOUS
  <2>2. PICK i : i = n - (k + 1) /\ i \in 0 .. n - 1 /\ i \in 0 .. n /\ i + 1 \in 0 .. n /\ i + 1 = n - k
    BY <2>1
  <2>3. PICK m, e : m = p[i] /\ e = p[i + 1] /\ m \in 1 .. l - 1 /\ e \in 1 .. l - 1
    BY <1>3, <2>2
  <2>4. E[e] = l - 1
    BY <1>9, <2>1, <2>2, <2>3
  <2>5. IF CharAt(v, i) \in Escaped
        THEN /\ e = m + 2 /\ CharAt(s, m) = Back
             /\ CharAt(s, m + 1) = EscapeOf(CharAt(v, i))
        ELSE e = m + 1 /\ CharAt(s, m) = CharAt(v, i)
    BY <1>1, <2>2, <2>3 DEF Spelled
  <2> HIDE DEF T
  <2>6. CASE CharAt(v, i) \in Escaped
    <3>1. EscapeOf(CharAt(v, i)) \in Escapes
      BY <2>6, EscapesAre
    <3>2. m + 1 <= l - 1
      BY <2>3, <2>5, <2>6
    <3>3. E[m] = E[m + 2]
      BY <1>7, <2>3, <2>5, <2>6, <3>1, <3>2
    <3>4. QED
      BY <2>2, <2>3, <2>4, <2>5, <2>6, <3>3
  <2>7. CASE CharAt(v, i) \notin Escaped
    <3>1. CharAt(v, i) \notin {Quo, Back, "\n"}
      BY <2>7, EscapesAre
    <3>2. E[m] = E[m + 1]
      BY <1>7, <2>3, <2>5, <2>7, <3>1
    <3>3. QED
      BY <2>2, <2>3, <2>4, <2>5, <2>7, <3>2
  <2>8. QED
    BY <2>6, <2>7
<1>10. n \in T
  <2> HIDE DEF T
  <2> QED BY <1>8, <1>9, SetInduction
<1>11. E[p[n - n]] = l - 1 /\ n - n = 0
  BY <1>10
<1>12. QED
  BY <1>1, <1>2, <1>3, <1>11

-----------------------------------------------------------------------------
(* Unescaping.                                                             *)

IsUnescape(U, s, b, length) ==
  U = [i \in 0 .. length + 1 |->
        LET c == CharAt(s, b + i)
            d == CharAt(s, b + i + 1)
        IN  IF i >= length \/ b + i >= Len(s) THEN ""
            ELSE IF c = "\\" /\ d \in DOMAIN Unescaped THEN Unescaped[d] \o U[i + 2]
            ELSE c \o U[i + 1]]

\* s is a text over A, whatever its encoding.
TextOver(A, s) == Len(s) \in Nat /\ \A i \in 0 .. Len(s) - 1 : CharAt(s, i) \in Seq(A)

LEMMA UnescapedMark ==
  ASSUME NEW A, Alphabet(A), NEW d \in DOMAIN Unescaped
  PROVE  Unescaped[d] \in Seq(A)
<1>1. Unescaped[d] \in Escaped
  BY Zenon DEF Escaped
<1>2. QED
  BY <1>1, EscapesAre, MarkText

LEMMA UnescapeIs ==
  ASSUME NEW A, Alphabet(A), NEW s, TextOver(A, s), NEW b \in Nat, NEW length \in Int, length >= -1
  PROVE  \E U : /\ fpStringUnescape(s, b, length) = U[0]
                /\ IsUnescape(U, s, b, length)
                /\ \A i \in 0 .. length + 1 : U[i] \in Seq(A)
<1> DEFINE S == 0 .. length + 1
           V == Seq(A)
           Value(g, i) ==
             LET c == CharAt(s, b + i)
                 d == CharAt(s, b + i + 1)
             IN  IF i >= length \/ b + i >= Len(s) THEN ""
                 ELSE IF c = "\\" /\ d \in DOMAIN Unescaped THEN Unescaped[d] \o g[i + 2]
                 ELSE c \o g[i + 1]
           G == [g \in [S -> V] |-> [i \in S |-> Value(g, i)]]
           m == [i \in S |-> length + 1 - i]
<1>1. ASSUME NEW g, NEW i \in S, \A k \in S : k > i => g[k] \in V
      PROVE  Value(g, i) \in V
  <2> DEFINE c == CharAt(s, b + i)
             d == CharAt(s, b + i + 1)
  <2>1. CASE i >= length \/ b + i >= Len(s)
    <3>1. Value(g, i) = Nil
      BY <2>1, Zenon DEF Nil
    <3> HIDE DEF Value
    <3>2. QED
      BY <3>1, NilIs, EmptySeq
  <2>2. CASE ~(i >= length \/ b + i >= Len(s))
    <3>1. i + 1 \in S /\ i + 2 \in S /\ b + i \in 0 .. Len(s) - 1
      BY <2>2 DEF TextOver
    <3>2. g[i + 1] \in V /\ g[i + 2] \in V
      BY <1>1, <3>1
    <3>3. c \in V
      BY <3>1 DEF TextOver
    <3>4. CASE c = "\\" /\ d \in DOMAIN Unescaped
      <4>1. Value(g, i) = Unescaped[d] \o g[i + 2]
        BY <2>2, <3>4, Zenon
      <4>2. Unescaped[d] \in V
        BY <3>4, UnescapedMark
      <4> HIDE DEF Value, d
      <4>3. QED
        BY <3>2, <4>1, <4>2, JoinIs
    <3>5. CASE ~(c = "\\" /\ d \in DOMAIN Unescaped)
      <4>1. Value(g, i) = c \o g[i + 1]
        BY <2>2, <3>5, Zenon
      <4> HIDE DEF Value, c
      <4>2. QED
        BY <3>2, <3>3, <4>1, JoinIs
    <3>6. QED
      BY <3>4, <3>5
  <2>3. QED
    BY <2>1, <2>2
<1>2. ASSUME NEW g \in [S -> V], NEW h \in [S -> V], NEW i \in S,
             \A k \in S : m[k] < m[i] => g[k] = h[k]
      PROVE  Value(g, i) = Value(h, i)
  <2>1. CASE i >= length
    BY <2>1, Zenon
  <2>2. CASE ~(i >= length)
    <3>1. /\ i + 1 \in S /\ m[i + 1] < m[i]
          /\ i + 2 \in S /\ m[i + 2] < m[i]
      BY <2>2
    <3>2. g[i + 1] = h[i + 1] /\ g[i + 2] = h[i + 2]
      BY <1>2, <3>1
    <3>3. QED
      BY <3>2, Zenon
  <2>3. QED
    BY <2>1, <2>2
<1>3. Recursive(G, S, V, m)
  <2>1. m \in [S -> Nat]
    OBVIOUS
  <2>2. G \in [[S -> V] -> [S -> V]]
    <3>1. ASSUME NEW g \in [S -> V], NEW i \in S
          PROVE  Value(g, i) \in V
      <4> HIDE DEF Value, V
      <4> QED BY <1>1
    <3> HIDE DEF Value, V, S
    <3>2. QED
      BY <3>1
  <2>3. ASSUME NEW g \in [S -> V], NEW h \in [S -> V], NEW i \in S,
               \A k \in S : m[k] < m[i] => g[k] = h[k]
        PROVE  G[g][i] = G[h][i]
    <3>1. Value(g, i) = Value(h, i)
      BY <1>2, <2>3
    <3> HIDE DEF Value, m, V, S
    <3>2. QED
      BY <3>1
  <2> HIDE DEF G, m, S, V
  <2>4. QED
    BY <2>1, <2>2, <2>3 DEF Recursive
<1>4. PICK E \in [S -> V] : E = G[E]
  <2>1. V # {}
    BY EmptySeq
  <2> HIDE DEF G, m, S, V
  <2>2. QED
    BY <1>3, <2>1, RecursionTheorem
<1>5. E = [i \in S |-> Value(E, i)]
  <2> HIDE DEF Value, V, S
  <2> QED BY <1>4
<1>6. IsUnescape(E, s, b, length)
  BY <1>5, Zenon DEF IsUnescape
<1> DEFINE U == CHOOSE U : IsUnescape(U, s, b, length)
<1>7. IsUnescape(U, s, b, length)
  BY <1>6, Zenon
<1>8. fpStringUnescape(s, b, length) = U[0]
  BY Zenon DEF fpStringUnescape, IsUnescape
<1> HIDE DEF U
<1>9. \A i \in S : U[i] = Value(U, i)
  BY <1>7, Zenon DEF IsUnescape
<1> DEFINE T == {k \in Nat : \A i \in S : m[i] < k => U[i] \in V}
<1>10. Nat \subseteq T
  <2>1. 0 \in T
    <3>1. \A i \in S : ~(m[i] < 0)
      OBVIOUS
    <3> HIDE DEF V, m, S
    <3>2. QED
      BY <3>1
  <2>2. ASSUME NEW k \in Nat, k \in T
        PROVE  k + 1 \in T
    <3>1. ASSUME NEW i \in S, m[i] < k + 1
          PROVE  U[i] \in V
      <4>1. \A j \in S : j > i => m[j] < k
        BY <3>1
      <4> HIDE DEF Value, V, m, S
      <4>2. \A j \in S : j > i => U[j] \in V
        BY <2>2, <4>1
      <4>3. QED
        BY <1>1, <1>9, <4>2
    <3> HIDE DEF V, m, S
    <3>2. QED
      BY <3>1
  <2> HIDE DEF T
  <2>3. QED
    BY <2>1, <2>2, SetInduction
<1>11. \A i \in S : U[i] \in V
  <2>1. length + 2 \in Nat /\ \A i \in S : m[i] < length + 2
    OBVIOUS
  <2> HIDE DEF V, m, S
  <2>2. QED
    BY <1>10, <2>1
<1>12. QED
  BY <1>7, <1>8, <1>11, Zenon

LEMMA RestAtEnds ==
  ASSUME NEW S, NEW v \in Seq(S)
  PROVE  From(v, Len(v)) = Nil /\ From(v, 0) = v
<1>1. PICK n \in Nat, z \in Nat : n = Len(v) /\ z = 0
  BY LenProperties
<1>2. From(v, n) = Nil
  <2>1. SubSeq(v, n + 1, n) = <<>>
    OBVIOUS
  <2>2. QED
    BY <1>1, <2>1, NilIs DEF From
<1>3. PICK w : w = From(v, z)
  OBVIOUS
<1>4. z \in 0 .. Len(v)
  BY <1>1
<1>5. w \in Seq(S) /\ Len(w) = n - z /\ \A j \in 1 .. n - z : w[j] = v[z + j]
  BY <1>1, <1>3, <1>4, RestIs
<1>6. Len(w) = Len(v) /\ \A j \in 1 .. Len(w) : w[j] = v[j]
  BY <1>1, <1>5
<1>7. w = v
  BY <1>5, <1>6, SameCharacters
<1>8. QED
  BY <1>1, <1>2, <1>3, <1>7

LEMMA TextOfSeq ==
  ASSUME NEW S, NEW s \in Seq(S)
  PROVE  TextOver(S, s)
BY CharIs, LenProperties DEF TextOver

\* A string that is escaped and put between quotes is the literal of the string.
LEMMA QuoteReadsBack ==
  ASSUME NEW S, Alphabet(S), NEW v \in Seq(S)
  PROVE  /\ Literal(Quote(v))!StringEnd = Len(Quote(v)) - 1
         /\ fpStringUnescape(Quote(v), 1, Len(Quote(v)) - 2) = v
<1>1. PICK s, p : s = Quote(v) /\ s \in Seq(S) /\ Spelled(v, s, p)
  BY QuoteSpells
<1>2. PICK n \in Nat, l \in Nat : n = Len(v) /\ l = Len(s)
  BY <1>1, LenProperties
<1>3. Literal(s)!StringEnd = l - 1
  BY <1>1, <1>2, QuotedEnds
<1>4. p[0] = 1 /\ p[n] = l - 1 /\ \A i \in 0 .. n : p[i] \in 1 .. l - 1
  BY <1>1, <1>2 DEF Spelled
<1>5. PICK o \in Nat, length \in Int : o = 1 /\ length = l - 2 /\ length >= 0
  <2>1. 0 \in 0 .. n
    OBVIOUS
  <2>2. l >= 2
    BY <1>4, <2>1
  <2>3. QED
    BY <2>2
<1>6. TextOver(S, s)
  BY <1>1, TextOfSeq
<1>7. PICK U : /\ fpStringUnescape(s, o, length) = U[0]
               /\ IsUnescape(U, s, o, length)
               /\ \A i \in 0 .. length + 1 : U[i] \in Seq(S)
  <2>1. Alphabet(S) /\ TextOver(S, s) /\ o \in Nat /\ length \in Int /\ length >= -1
    BY <1>5, <1>6
  <2>2. QED
    BY ONLY <2>1, UnescapeIs
<1>8. ASSUME NEW j \in 0 .. length + 1
      PROVE  U[j] = LET c == CharAt(s, o + j)
                        d == CharAt(s, o + j + 1)
                    IN  IF j >= length \/ o + j >= Len(s) THEN ""
                        ELSE IF c = "\\" /\ d \in DOMAIN Unescaped THEN Unescaped[d] \o U[j + 2]
                        ELSE c \o U[j + 1]
  BY <1>7, Zenon DEF IsUnescape
<1> DEFINE T == {k \in Nat : k <= n => U[p[n - k] - 1] = From(v, n - k)}
<1>9. 0 \in T
  <2>1. n - 0 = n /\ length \in 0 .. length + 1 /\ length >= length
    BY <1>5
  <2>2. U[length] = Nil
    BY <1>8, <2>1, Zenon DEF Nil
  <2>3. From(v, n) = Nil
    BY <1>2, RestAtEnds
  <2>4. p[n] - 1 = length
    BY <1>4, <1>5
  <2>5. QED
    BY <2>1, <2>2, <2>3, <2>4
<1>10. ASSUME NEW k \in Nat, k \in T
       PROVE  k + 1 \in T
  <2>1. SUFFICES ASSUME k + 1 <= n
                 PROVE  U[p[n - (k + 1)] - 1] = From(v, n - (k + 1))
    OBVIOUS
  <2>2. PICK i : i = n - (k + 1) /\ i \in 0 .. n - 1 /\ i \in 0 .. n /\ i + 1 \in 0 .. n /\ i + 1 = n - k
    BY <2>1
  <2>3. PICK m, e : m = p[i] /\ e = p[i + 1] /\ m \in 1 .. l - 1 /\ e \in 1 .. l - 1
    BY <1>4, <2>2
  <2>4. PICK r : r = U[e - 1] /\ r = From(v, i + 1)
    BY <1>10, <2>1, <2>2, <2>3
  <2>5. IF CharAt(v, i) \in Escaped
        THEN /\ e = m + 2 /\ CharAt(s, m) = Back
             /\ CharAt(s, m + 1) = EscapeOf(CharAt(v, i))
        ELSE e = m + 1 /\ CharAt(s, m) = CharAt(v, i)
    BY <1>1, <1>2, <2>2, <2>3 DEF Spelled
  <2> HIDE DEF T
  <2>6. m < e
    BY <2>3, <2>5
  <2>7. PICK j : /\ j = m - 1 /\ j \in 0 .. length + 1 /\ ~(j >= length) /\ o + j = m
                 /\ o + j + 1 = m + 1 /\ ~(o + j >= Len(s))
    BY <1>2, <1>5, <2>3, <2>6
  <2>8. PICK c : c = CharAt(v, i)
    OBVIOUS
  <2>9. c \o r = From(v, i)
    <3>1. i \in 0 .. Len(v) - 1
      BY <1>2, <2>2
    <3>2. QED
      BY <2>4, <2>8, <3>1, FirstAndRest
  <2>10. U[j] = IF CharAt(s, m) = Back /\ CharAt(s, m + 1) \in DOMAIN Unescaped
                THEN Unescaped[CharAt(s, m + 1)] \o U[j + 2]
                ELSE CharAt(s, m) \o U[j + 1]
    BY <1>8, <2>7, Zenon DEF Back
  <2>11. CASE c \in Escaped
    <3>0. e = m + 2 /\ CharAt(s, m) = Back /\ CharAt(s, m + 1) = EscapeOf(c)
      BY <2>5, <2>8, <2>11, Zenon
    <3>1. /\ CharAt(s, m) = Back /\ CharAt(s, m + 1) = EscapeOf(c) /\ e - 1 = j + 2
      BY <2>3, <2>7, <3>0
    <3>2. EscapeOf(c) \in DOMAIN Unescaped /\ Unescaped[EscapeOf(c)] = c
      BY <2>11, EscapesAre
    <3>3. U[j] = c \o U[j + 2]
      BY <2>10, <3>1, <3>2, Zenon
    <3>4. QED
      BY <2>2, <2>3, <2>4, <2>7, <2>9, <3>1, <3>3
  <2>12. CASE c \notin Escaped
    <3>0. e = m + 1 /\ CharAt(s, m) = c
      BY <2>5, <2>8, <2>12, Zenon
    <3>1. CharAt(s, m) = c /\ e - 1 = j + 1
      BY <2>3, <2>7, <3>0
    <3>2. CharAt(s, m) # Back
      BY <2>12, <3>1, EscapesAre
    <3>3. U[j] = c \o U[j + 1]
      BY <2>10, <3>1, <3>2, Zenon
    <3>4. QED
      BY <2>2, <2>3, <2>4, <2>7, <2>9, <3>1, <3>3
  <2>13. QED
    BY <2>11, <2>12
<1>11. n \in T
  <2> HIDE DEF T
  <2> QED BY <1>9, <1>10, SetInduction
<1>12. U[p[n - n] - 1] = From(v, n - n) /\ n - n = 0
  BY <1>11
<1>13. U[0] = From(v, 0)
  <2>1. p[0] - 1 = 0
    BY <1>4
  <2>2. QED
    BY <1>12, <2>1
<1>14. From(v, 0) = v
  BY RestAtEnds
<1>15. Literal(Quote(v))!StringEnd = Len(Quote(v)) - 1
  BY <1>1, <1>2, <1>3, Zenon
<1>16. fpStringUnescape(Quote(v), 1, Len(Quote(v)) - 2) = v
  BY <1>1, <1>2, <1>5, <1>7, <1>13, <1>14, Zenon
<1>17. QED
  BY <1>15, <1>16

\* Whatever a text is, its characters are.
LEMMA SourceIsText ==
  ASSUME NEW s, Len(s) \in Nat
  PROVE  \E A : Alphabet(A) /\ TextOver(A, s)
<1> DEFINE A == {s[k] : k \in Nat} \cup {c[1] : c \in Marks}
<1>1. Alphabet(A)
  BY DEF Alphabet
<1>2. ASSUME NEW i \in 0 .. Len(s) - 1
      PROVE  CharAt(s, i) \in Seq(A)
  <2>1. PICK k \in Nat : k = i + 1
    OBVIOUS
  <2>2. s[k] \in A
    OBVIOUS
  <2>3. CharAt(s, i) = SubSeq(s, k, k)
    <3>1. i < Len(s)
      OBVIOUS
    <3>2. QED
      BY <2>1, <3>1, Zenon DEF CharAt
  <2> HIDE DEF A
  <2>4. SubSeq(s, k, k) \in Seq(A)
    BY <2>2
  <2>5. QED
    BY <2>3, <2>4
<1>3. TextOver(A, s)
  BY <1>2 DEF TextOver
<1>4. QED
  BY <1>1, <1>3

LEMMA LiteralsRead == Progress /\ KindsFit => ReprReadsBack
<1> SUFFICES ASSUME Progress, KindsFit, NEW i \in DOMAIN kinds
             PROVE  LET shown == Quote(LiteralValue(i))
                    IN  /\ Literal(shown)!StringEnd = Len(shown) - 1
                        /\ fpStringUnescape(shown, 1, Len(shown) - 2) = LiteralValue(i)
  BY DEF ReprReadsBack
<1>1. i \in 1 .. Len(tokens)
  BY DEF KindsFit
<1>2. tokens[i] \in Token /\ tokens[i].begin < tokens[i].end /\ Len(source) \in Nat
  BY <1>1, ElementOfSeq, ProgressOrders DEF Progress, TokensInOrder
<1>3. PICK b \in Nat, length \in Int :
        b = tokens[i].begin + 1 /\ length = tokens[i].end - tokens[i].begin - 2 /\ length >= -1
  BY <1>2 DEF Token
<1>4. PICK A : Alphabet(A) /\ TextOver(A, source)
  BY <1>2, SourceIsText
<1>5. PICK v : v = LiteralValue(i)
  OBVIOUS
<1>6. v \in Seq(A)
  <2>1. PICK U : /\ fpStringUnescape(source, b, length) = U[0]
                 /\ \A k \in 0 .. length + 1 : U[k] \in Seq(A)
    <3>1. /\ Alphabet(A) /\ TextOver(A, source) /\ b \in Nat
          /\ length \in Int /\ length >= -1
      BY <1>3, <1>4
    <3>2. QED
      BY ONLY <3>1, UnescapeIs
  <2>2. 0 \in 0 .. length + 1
    BY <1>3
  <2>3. QED
    BY <1>3, <1>5, <2>1, <2>2 DEF LiteralValue
<1>7. /\ Literal(Quote(v))!StringEnd = Len(Quote(v)) - 1
      /\ fpStringUnescape(Quote(v), 1, Len(Quote(v)) - 2) = v
  BY <1>4, <1>6, QuoteReadsBack
<1>8. QED
  BY <1>5, <1>7, Zenon

\* For every program, what the interpreter prints for a string that the program
\* writes is a literal of that same string: the tokenizer ends it at its last
\* character and its escapes give back every character (util.c, fpStringEscape
\* and fpStringUnescape; value.c, fpRepr).
THEOREM PrintedStringsReadBack == Spec => []ReprReadsBack
<1>1. ReaderInit => ReadInv /\ KindsFit
  BY ReadInvInit DEF KindsFit, ReaderInit
<1>2. ReadInv /\ KindsFit /\ [Next]_vars => ReadInv' /\ KindsFit'
  BY ReadStep, KindsFitStep
<1>3. ReadInv /\ KindsFit => ReprReadsBack
  BY LiteralsRead DEF ReadInv, LexInv
<1>4. QED
  BY <1>1, <1>2, <1>3, PTL DEF Spec
=============================================================================

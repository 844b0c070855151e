-------------------------------- MODULE Blobs --------------------------------
(***************************************************************************)
(* blobenc and blobdec (src/src/builtin.c): values are packed into bytes   *)
(* along a format such as "2h4sx" and unpacked again.  A format is a       *)
(* sequence of characters; each of the functions that go through one,      *)
(* blobFmtCalc for the number of values and the size, then blobenc or      *)
(* blobdec for the bytes, has a table of the letters of its own.  That the *)
(* three agree is what keeps the bytes inside the buffer.                  *)
(***************************************************************************)
EXTENDS Integers, FiniteSets, SequencesExt

CONSTANTS
  Byte,          \* how many values a byte has; 256 in the code
  Formats,       \* the formats tried, sequences of characters
  Operands,      \* the stacks tried, sequences of values
  Packable,      \* the numbers in them
  Precision,     \* a float holds the integers below it; 2^24 in the code
  LargestFloat,  \* the largest number a float holds
  Single,        \* the four bytes of a number that a float holds, by number
  Double         \* the eight bytes of a number as a double, by number

\* A value is a type and a sequence of integers: one number, or the characters
\* of a string, which the terminator is not one of, or the bytes of a blob.
\* (Numbers are doubles in the code; those without a fraction are modelled.)
Operand == [t : {"number", "string", "blob"}, v : Seq(Int)]

ASSUME BlobsAssumption ==
  /\ Byte \in Nat \ {0, 1}
  /\ \A f \in Formats : Len(f) \in Nat
  /\ Operands \subseteq Seq(Operand)
  /\ \A vs \in Operands : \A k \in DOMAIN vs :
       /\ vs[k].t = "number" => Len(vs[k].v) = 1 /\ vs[k].v[1] \in Packable
       /\ vs[k].t = "string" => \A j \in DOMAIN vs[k].v : vs[k].v[j] # 0

VARIABLES
  fmt,     \* the format
  given,   \* the values blobenc is called on
  packed,  \* the bytes it makes
  result,  \* the values blobdec pushes
  phase    \* "encode", "decode", "done", or "raised"

bvars == <<fmt, given, packed, result, phase>>

BlobsInit ==
  /\ fmt \in Formats
  /\ given \in Operands
  /\ packed = <<>>
  /\ result = <<>>
  /\ phase = "encode"
-----------------------------------------------------------------------------
(* Formats                                                                 *)

Digit == [d \in {"0", "1", "2", "3", "4"} |->
            CASE d = "0" -> 0 [] d = "1" -> 1 [] d = "2" -> 2 [] d = "3" -> 3 [] d = "4" -> 4]

\* The letters with the number in front of each; rest is a number at the end.
Parse(acc, c) ==
  IF c \in DOMAIN Digit THEN [acc EXCEPT !.rest = @ * 10 + Digit[c]]
  ELSE [items |-> Append(acc.items, [c |-> c, n |-> acc.rest]), rest |-> 0]
Parsed(f) ==
  LET upTo[k \in 0 .. Len(f)] ==
        IF k = 0 THEN [items |-> <<>>, rest |-> 0] ELSE Parse(upTo[k - 1], f[k])
  IN  upTo[Len(f)]
Items(f) == Parsed(f).items

Texts == {"s", "S"}
Integral == {"b", "B", "h", "H", "i", "I"}
Floating == {"f", "d"}
Letters == Texts \cup Integral \cup Floating \cup {"x"}

Times(item) == IF item.n = 0 THEN 1 ELSE item.n

Width(c) == CASE c \in {"h", "H"} -> 2
              [] c \in {"i", "I", "f"} -> 4
              [] c = "d" -> 8
              [] OTHER -> 1

\* How many values an item takes from the stack.
Taken(item) == IF item.c = "x" THEN 0 ELSE IF item.c \in Texts THEN 1 ELSE Times(item)

Total(amounts) ==
  LET upTo[k \in 0 .. Len(amounts)] == IF k = 0 THEN 0 ELSE upTo[k - 1] + amounts[k]
  IN  upTo[Len(amounts)]
Offsets(items) == Total([k \in DOMAIN items |-> Taken(items[k])])
Sizes(items) == Total([k \in DOMAIN items |-> Times(items[k]) * Width(items[k].c)])

\* A string or a blob needs a size, and a number a letter.
Invalid(f) ==
  \/ \E k \in DOMAIN Items(f) : \/ Items(f)[k].c \notin Letters
                                \/ Items(f)[k].c \in Texts /\ Items(f)[k].n = 0
  \/ Parsed(f).rest # 0

\* offs and size stay 0 when it fails.
blobFmtCalc(f) ==
  IF Invalid(f) THEN [ok |-> FALSE, offs |-> 0, size |-> 0]
  ELSE [ok |-> TRUE, offs |-> Offsets(Items(f)), size |-> Sizes(Items(f))]
-----------------------------------------------------------------------------
(* Bytes                                                                   *)

Zeros(n) == [k \in 1 .. n |-> 0]

\* How many numbers k bytes can hold.
Reach[k \in Nat] == IF k = 0 THEN 1 ELSE Byte * Reach[k - 1]

\* n in w bytes, the lowest first.  (C leaves open what a cast of a number that
\* is out of range gives; nothing is said of such numbers below.)
IntBytes(n, w) == [k \in 1 .. w |-> (n \div Reach[k - 1]) % Byte]
FromBytes(bytes) == Total([k \in DOMAIN bytes |-> bytes[k] * Reach[k - 1]])
Signed(n, w) == IF 2 * n >= Reach[w] THEN n - Reach[w] ELSE n

Abs(n) == IF n < 0 THEN -n ELSE n

\* How far the floats around a are apart: there are as many of them from one
\* power of two to the next, whatever the power.
Ulp[a \in Nat] == IF a < Precision THEN 1 ELSE 2 * Ulp[a \div 2]

\* (float) n: the float nearest to n, the even one of two at the same distance.
Rounded(n) ==
  LET unit == Ulp[Abs(n)]
      down == Abs(n) \div unit
      rest == 2 * (Abs(n) % unit)
      up == rest > unit \/ (rest = unit /\ down % 2 = 1)
      a == unit * (IF up THEN down + 1 ELSE down)
  IN IF n < 0 THEN -a ELSE a

\* n as a float or a double, which have their bytes from the compiler.  (A
\* number beyond every float is infinity as a float, or whatever C gives.)
FloatBytes(n, w) == IF w = 4 THEN Single[Rounded(n)] ELSE Double[n]

\* The numbers to be read as a float or a double.
Readable(w) == IF w = 4 THEN {Rounded(n) : n \in {m \in Packable : Abs(m) <= LargestFloat}}
           ELSE Packable

\* The number with these bytes; bytes that none of the numbers above has stand
\* for whatever else they are the bytes of.
Meant(bytes) ==
  {n \in Readable(Len(bytes)) : bytes = IF Len(bytes) = 4 THEN Single[n] ELSE Double[n]}
FromFloat(bytes) == IF Meant(bytes) = {} THEN bytes ELSE <<CHOOSE n \in Meant(bytes) : TRUE>>

\* No two numbers have the same bytes.
ASSUME FloatsAssumption ==
  /\ Precision \in Nat \ {0} /\ LargestFloat \in Nat /\ Packable \subseteq Int
  /\ \A n \in Packable : \A w \in {4, 8} :
       FloatBytes(n, w) \in Seq(0 .. Byte - 1) /\ Len(FloatBytes(n, w)) = w
  /\ \A m, n \in Readable(4) : Single[m] = Single[n] => m = n
  /\ \A m, n \in Readable(8) : Double[m] = Double[n] => m = n

\* n bytes of vs, filled up with zeros.
Fitted(vs, n) == SubSeq(vs \o Zeros(n), 1, n)

TypeOf(c) == CASE c = "s" -> "string" [] c = "S" -> "blob" [] OTHER -> "number"

Packed(item, vs) ==
  CASE item.c = "x" -> Zeros(Times(item))
    [] item.c \in Texts -> Fitted(vs[1].v, Times(item))
    [] item.c \in Integral ->
         FlattenSeq([k \in DOMAIN vs |-> IntBytes(vs[k].v[1], Width(item.c))])
    [] item.c \in Floating ->
         FlattenSeq([k \in DOMAIN vs |-> FloatBytes(vs[k].v[1], Width(item.c))])

Chars(bytes) ==
  LET ends == {k \in DOMAIN bytes : bytes[k] = 0}
  IN IF ends = {} THEN bytes
     ELSE SubSeq(bytes, 1, (CHOOSE k \in ends : \A j \in ends : k <= j) - 1)

Value(type, v) == [t |-> type, v |-> v]

\* The values of an item from the bytes at its head.  The lower case letters
\* are read as unsigned numbers, the others as signed ones.
Unpacked(item, head, data) ==
  LET n == Times(item)
      w == Width(item.c)
      at(k) == SubSeq(data, head + k * w + 1, head + (k + 1) * w)
      bytes == SubSeq(data, head + 1, head + n)
  IN CASE item.c = "x" -> <<>>
       [] item.c = "s" -> <<Value("string", Chars(bytes))>>
       [] item.c = "S" -> <<Value("blob", bytes)>>
       [] item.c \in {"b", "h", "i"} ->
            [k \in 1 .. n |-> Value("number", <<FromBytes(at(k - 1))>>)]
       [] item.c \in {"B", "H", "I"} ->
            [k \in 1 .. n |-> Value("number", <<Signed(FromBytes(at(k - 1)), w)>>)]
       [] item.c \in Floating ->
            [k \in 1 .. n |-> Value("number", FromFloat(at(k - 1)))]
       [] OTHER -> <<>>

\* As if every item were of one value.
AdvanceOnce(item) == IF item.c \notin Letters THEN 0 ELSE Width(item.c)

\* How far blobdec moves: 4 bytes for a double as well, and not at all for a
\* letter it does not know.
Advance(item) ==
  IF item.c \notin Letters THEN 0
  ELSE Times(item) * (IF item.c = "d" THEN 4 ELSE Width(item.c))
-----------------------------------------------------------------------------
(* The native functions                                                    *)

\* The values item k takes from vs.
Share(items, k, vs) ==
  LET from == Offsets(SubSeq(items, 1, k - 1))
  IN SubSeq(vs, from + 1, from + Taken(items[k]))

\* Fails when the format is invalid, when the stack has too few values or when
\* one has the wrong type; the values are only popped at the end.
blobenc ==
  /\ phase = "encode"
  /\ LET calc == blobFmtCalc(fmt)
         items == Items(fmt)
         vs == SubSeq(given, Len(given) - calc.offs + 1, Len(given))
         typed == \A k \in DOMAIN items : \A j \in DOMAIN Share(items, k, vs) :
                    Share(items, k, vs)[j].t = TypeOf(items[k].c)
     IN IF calc.ok /\ calc.offs <= Len(given) /\ typed
        THEN /\ packed' = FlattenSeq([k \in DOMAIN items |->
                                        Packed(items[k], Share(items, k, vs))])
             /\ phase' = "decode"
        ELSE phase' = "raised" /\ UNCHANGED packed
  /\ UNCHANGED <<fmt, given, result>>

\* Of the blob just made, with the same format.
blobdec ==
  /\ phase = "decode"
  /\ LET items == Items(fmt)
         head(k) == Total([j \in 1 .. k - 1 |-> Advance(items[j])])
     IN IF blobFmtCalc(fmt).size = Len(packed)
        THEN /\ result' = FlattenSeq([k \in DOMAIN items |->
                                        Unpacked(items[k], head(k), packed)])
             /\ phase' = "done"
        ELSE phase' = "raised" /\ UNCHANGED result
  /\ UNCHANGED <<fmt, given, packed>>

BlobsNext == blobenc \/ blobdec
-----------------------------------------------------------------------------
(* Properties                                                              *)

\* What a round trip makes of the value v: a string or a blob is cut or filled
\* up to its size, a number is the same, and as a float as near as floats are to
\* each other, which is the same for a number below Precision.
Restores(item, v, r) ==
  CASE item.c = "s" -> r = Value("string", SubSeq(v.v, 1, IF Len(v.v) < item.n THEN Len(v.v) ELSE item.n))
    [] item.c = "S" -> r = Value("blob", Fitted(v.v, item.n))
    [] item.c = "f" -> /\ r.t = "number" /\ Len(r.v) = 1
                       /\ Precision * Abs(r.v[1] - v.v[1]) <= Abs(v.v[1])
    [] OTHER -> r = v

\* The numbers that both letters of a pair can represent, h and H for example:
\* blobenc and blobdec take opposite ones for signed.  As a float, those that
\* no float is below.
InRange(item, vs) ==
  /\ item.c \in Integral =>
       \A k \in DOMAIN vs : 0 <= vs[k].v[1] /\ 2 * vs[k].v[1] < Reach[Width(item.c)]
  /\ item.c = "f" => \A k \in DOMAIN vs : Abs(vs[k].v[1]) <= LargestFloat

\* The values that a format takes, from the top of the stack.
Top(items) == SubSeq(given, Len(given) - Offsets(items) + 1, Len(given))

\* The values of item k came back at their place.
ComesBack(items, k) ==
  LET vs == Share(items, k, Top(items))
  IN InRange(items[k], vs) =>
       \A j \in 1 .. Taken(items[k]) : Restores(items[k], vs[j], Share(items, k, result)[j])

\* blobdec gets back from a blob what blobenc put into it with the same format:
\* as many values, and every one at the place it was, none shifted or read from
\* the bytes of its neighbour.  Left out are numbers beyond the sign bit or
\* beyond every float, and the items after a double, where blobdec goes on too
\* early.
BlobsRoundTrip ==
  LET items == Items(fmt)
  IN /\ phase = "decode" => Len(packed) = blobFmtCalc(fmt).size
     /\ phase = "done" =>
          /\ Len(result) = Offsets(items)
          /\ \A k \in DOMAIN items :
               (\A i \in 1 .. k - 1 : items[i].c # "d") => ComesBack(items, k)

\* The same of every item.  blobdec only tests that the blob has the size of the
\* format, "blob size does not match format" (builtin.c:1107), and then takes
\* the bytes of every value to be where the format says.
EveryItemComesBack ==
  phase = "done" => \A k \in DOMAIN Items(fmt) : ComesBack(Items(fmt), k)
=============================================================================

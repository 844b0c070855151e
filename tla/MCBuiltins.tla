----------------------------- MODULE MCBuiltins -----------------------------
EXTENDS Builtins

bufferNames == {"b1", "b2", "b3", "b4"}
listLiterals == {IntValue(-1), IntValue(1), [t |-> "nil", v |-> 0]}

\* Every format of at most two characters, and of three of these.
chars == DOMAIN Digit \cup Letters \cup {"?"}
formats == BoundedSeq(chars, 2) \cup BoundedSeq({"2", "x", "s", "S", "b", "H", "i", "d"}, 3)

\* Small and large numbers: one beyond the sign bit of a byte, one that floats
\* round, one beyond every float.
numbers == {5, 21, -2051, 70000}

\* With a short and a long string and a blob with a zero.
operands == BoundedSeq({Value("number", <<n>>) : n \in numbers} \cup
                       {Value("string", <<7>>), Value("string", <<8, 9, 7, 8>>),
                        Value("blob", <<7, 0, 8>>)}, 2)

\* A byte has four bits, so a float is of half and a double of single precision
\* in the formats of IEEE 754: the exponent of n, then its fraction of f bits,
\* and the sign as the highest bit.
exponent(n) == CHOOSE e \in 0 .. 20 : 2 ^ e <= Abs(n) /\ Abs(n) < 2 ^ (e + 1)
fraction(n, f) ==
  LET e == exponent(n)
  IN (IF e <= f THEN Abs(n) * 2 ^ (f - e) ELSE Abs(n) \div 2 ^ (e - f)) - 2 ^ f
ieee(n, w, f, bias) ==
  LET bits == IF n = 0 THEN 0 ELSE (exponent(n) + bias) * 2 ^ f + fraction(n, f)
  IN [IntBytes(bits, w) EXCEPT ![w] = IF n < 0 THEN @ + 8 ELSE @]

singles == [n \in {Rounded(m) : m \in numbers} |->
              IF n > LargestFloat THEN IntBytes(31 * 2 ^ 10, 4) ELSE ieee(n, 4, 10, 15)]
doubles == [n \in numbers |-> ieee(n, 8, 23, 127)]

\* Doubles, and something before and behind them.
doubleFormats == {<<"d">>, <<"d", "d">>, <<"2", "d">>, <<"b", "d">>, <<"d", "b">>, <<"d", "f">>}
=============================================================================

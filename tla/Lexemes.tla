------------------------------ MODULE Lexemes ------------------------------
(***************************************************************************)
(* The text of a program and the words in it: characters, the classes of   *)
(* lexeme of fpClassifyTokens, the numbers, identifiers and chains it      *)
(* recognises, the value a string literal stands for, and the place of a   *)
(* range in the lines of the text.                                         *)
(***************************************************************************)
EXTENDS Integers, FiniteSetsExt, SequencesExt

\* Characters are counted from 0, as in C.  The terminator reads as "".
CharAt(s, i) == IF i < Len(s) THEN SubSeq(s, i + 1, i + 1) ELSE ""
From(s, i)   == SubSeq(s, i + 1, Len(s))
LastOf(s)    == CharAt(s, Len(s) - 1)
CharsOf(s)   == {CharAt(s, i) : i \in 0 .. Len(s) - 1}

Lower  == {"a", "b", "c", "d", "e", "f", "g", "h", "i", "j", "k", "l", "m",
           "n", "o", "p", "q", "r", "s", "t", "u", "v", "w", "x", "y", "z"}
Upper  == {"A", "B", "C", "D", "E", "F", "G", "H", "I", "J", "K", "L", "M",
           "N", "O", "P", "Q", "R", "S", "T", "U", "V", "W", "X", "Y", "Z"}
Digits == {"0", "1", "2", "3", "4", "5", "6", "7", "8", "9"}

IdentChars == Lower \cup Upper \cup Digits \cup {"_"}
-----------------------------------------------------------------------------
(* Numbers: an automaton of eleven states, one row of successors per class *)
(* of character.  State 0 is the start and, once left, failure.            *)

\* A second dot allowed in the fraction.
NumberStepTwoDots == [digit |-> <<2, 2, 2, 2, 5, 5, 5, 8, 8, 8, 8>>,
                      sign  |-> <<1, 0, 0, 0, 0, 0, 0, 10, 0, 0, 0>>,
                      comma |-> <<0, 0, 3, 0, 0, 6, 0, 0, 9, 0, 0>>,
                      dot   |-> <<4, 4, 4, 0, 0, 4, 0, 0, 0, 0, 0>>,
                      exp   |-> <<0, 0, 7, 0, 0, 7, 0, 0, 0, 0, 0>>]

NumberStep == [digit |-> <<2, 2, 2, 2, 5, 5, 5, 8, 8, 8, 8>>,
               sign  |-> <<1, 0, 0, 0, 0, 0, 0, 10, 0, 0, 0>>,
               comma |-> <<0, 0, 3, 0, 0, 6, 0, 0, 9, 0, 0>>,
               dot   |-> <<4, 4, 4, 0, 0, 0, 0, 0, 0, 0, 0>>,
               exp   |-> <<0, 0, 7, 0, 0, 7, 0, 0, 0, 0, 0>>]

NumberClass(c) ==
  CASE c \in Digits     -> "digit"
    [] c \in {"+", "-"} -> "sign"
    [] c = ","          -> "comma"
    [] c = "."          -> "dot"
    [] c \in {"e", "E"} -> "exp"
    [] OTHER            -> "none"

IsNumber(w) ==
  LET run[i \in 0 .. Len(w)] ==
        IF i = 0 THEN 0
        ELSE LET q == run[i - 1]
                 class == NumberClass(CharAt(w, i - 1))
             IN  IF class = "none" \/ (i > 1 /\ q = 0) THEN 0 ELSE NumberStep[class][q + 1]
  IN  run[Len(w)] \in {2, 5, 8}

IsIdent(w) == /\ CharsOf(w) \subseteq IdentChars
              /\ Len(w) > 0 => CharAt(w, 0) \notin Digits

\* a.b.c, or .a.b with the value on the stack for its first element.
IsChain(w) ==
  /\ Len(w) > 0
  /\ LastOf(w) # "."
  /\ \A i \in 0 .. Len(w) - 1 :
       LET c == CharAt(w, i)
           fresh == i = 0 \/ CharAt(w, i - 1) = "."   \* identLen = 0
       IN  /\ c \in IdentChars \cup {"."}
           /\ fresh => c \notin Digits
           /\ fresh /\ c = "." => i = 0

\* The symbols of a chain, the marker "." first when it starts with a dot.
ChainElems(w) ==
  LET start == IF CharAt(w, 0) = "." THEN 1 ELSE 0
      Stop(b) == Min({i \in b .. Len(w) : i = Len(w) \/ CharAt(w, i) = "."})
      from[b \in 0 .. Len(w) + 1] ==
        IF b > Len(w) THEN <<>> ELSE <<SubSeq(w, b + 1, Stop(b))>> \o from[Stop(b) + 1]
  IN  IF start = 1 THEN <<CharAt(w, 0)>> \o from[start] ELSE from[start]

\* fpParseChain gives up on a chain with an element of no characters.
ChainParses(w) == \A i \in DOMAIN ChainElems(w) : Len(ChainElems(w)[i]) > 0
-----------------------------------------------------------------------------
(* Kinds of tokens, named by their labels.                                 *)

Keywords == {"true", "false", "default", "nil", "then", "else", "until", "do",
             "map", "fold", "filter", "zip", "is", "as", "to", "dot", "join",
             "repeat", "with", "catch", "and", "or", "import", "this"}
Punctuation == {"+", "-", "*", "/", "(", ")", "{", "}", "=", "<", ">", "^", "%",
                ":{", "!=", "<=", ">=", "=>", "<>"}

IsDots(w) == CharsOf(w) = {"."}

IdentKinds  == [c \in {"#", "@", "\\"} |->
                  IF c = "#" THEN "#IDENT" ELSE IF c = "@" THEN "@IDENT" ELSE "\\IDENT"]
PrefixChain == [c \in {"$", ">", "?", "&"} |->
                  CASE c = "$" -> "$CHAIN" [] c = ">" -> ">CHAIN"
                    [] c = "?" -> "?CHAIN" [] c = "&" -> "&CHAIN"]
ChainSuffix == [c \in {":", "(", "!"} |->
                  CASE c = ":" -> "CHAIN:" [] c = "(" -> "CHAIN(" [] c = "!" -> "CHAIN!"]

\* The first form that fits.
KindOf(w) ==
  LET first == CharAt(w, 0)
      rest  == From(w, 1)
      stem  == SubSeq(w, 1, Len(w) - 1)
  IN  IF IsNumber(w) THEN "NUMBER"
      ELSE IF w \in Keywords \cup Punctuation THEN w
      ELSE IF IsDots(w) THEN "DOTS"
      ELSE IF IsChain(w) THEN "CHAIN"
      ELSE IF first = "'" THEN "STRING"
      ELSE IF first \in DOMAIN IdentKinds /\ IsIdent(rest) /\ Len(rest) > 0
      THEN IdentKinds[first]
      ELSE IF first \in DOMAIN PrefixChain /\ IsChain(rest) THEN PrefixChain[first]
      ELSE IF first = ">" /\ CharAt(w, 1) = ">" /\ IsChain(From(w, 2)) THEN ">>CHAIN"
      ELSE IF LastOf(w) \in DOMAIN ChainSuffix /\ IsChain(stem) THEN ChainSuffix[LastOf(w)]
      ELSE "ERROR"

\* The number of characters before the chain of a token, and after it.
ChainMargins ==
  [kind \in {"CHAIN", "$CHAIN", ">CHAIN", ">>CHAIN", "?CHAIN", "&CHAIN",
             "CHAIN:", "CHAIN(", "CHAIN!"} |->
     CASE kind = "CHAIN" -> <<0, 0>>
       [] kind = ">>CHAIN" -> <<2, 0>>
       [] kind \in {"CHAIN:", "CHAIN(", "CHAIN!"} -> <<0, 1>>
       [] OTHER -> <<1, 0>>]

ChainText(kind, w) ==
  SubSeq(w, ChainMargins[kind][1] + 1, Len(w) - ChainMargins[kind][2])
-----------------------------------------------------------------------------
(* String literals: \n \t \' \\ stand for one character; \u, \$ and \" are *)
(* kept as they are.  (\b, \f and \r behave as \n and \t do.)              *)

Unescaped == [c \in {"'", "\\", "n", "t"} |->
                IF c = "n" THEN "\n" ELSE IF c = "t" THEN "\t" ELSE c]
EscapeOf(c) == CHOOSE e \in DOMAIN Unescaped : Unescaped[e] = c

\* A string is the sequence of its characters.
ASSUME CharactersAssumption ==
  /\ Len("") = 0 /\ SubSeq("", 1, 0) = ""
  /\ \A c \in {"'", "\\", "n", "t", "\n", "\t", "."} : Len(c) = 1 /\ SubSeq(c, 1, 1) = c

\* fpStringUnescape of the length characters of s from begin: the character
\* after a backslash is read wherever it is.
fpStringUnescape(s, begin, length) ==
  LET out[i \in 0 .. length + 1] ==
        LET c == CharAt(s, begin + i)
            d == CharAt(s, begin + i + 1)
        IN  IF i >= length \/ begin + i >= Len(s) THEN ""
            ELSE IF c = "\\" /\ d \in DOMAIN Unescaped THEN Unescaped[d] \o out[i + 2]
            ELSE c \o out[i + 1]
  IN  out[0]

\* Escapes all but the backslash itself.
fpStringEscapeNoBackslash(s) ==
  LET special == {Unescaped[e] : e \in DOMAIN Unescaped \ {"\\"}}
      out[i \in 0 .. Len(s)] ==
        LET c == CharAt(s, i)
        IN  IF i = Len(s) THEN ""
            ELSE (IF c \in special THEN "\\" \o EscapeOf(c) ELSE c) \o out[i + 1]
  IN  out[0]

fpStringEscape(s) ==
  LET special == {Unescaped[e] : e \in DOMAIN Unescaped}
      out[i \in 0 .. Len(s)] ==
        LET c == CharAt(s, i)
        IN  IF i = Len(s) THEN ""
            ELSE (IF c \in special THEN "\\" \o EscapeOf(c) ELSE c) \o out[i + 1]
  IN  out[0]

\* fpRepr of a string.
Quote(s) == "'" \o fpStringEscape(s) \o "'"
-----------------------------------------------------------------------------
(* Lines and columns are counted from 1.                                   *)

Newlines(s, a, b) == {i \in a .. b - 1 : CharAt(s, i) = "\n"}

\* The column is not set back at the end of a line.
findRangeInfoOneLine(s, range) ==
  LET first == Max({0} \cup {j + 1 : j \in Newlines(s, 0, range.begin)})
      lineEnd == Min({Len(s)} \cup Newlines(s, first, Len(s)))
  IN  [startLine   |-> 1 + Cardinality(Newlines(s, 0, range.begin)),
       startColumn |-> 1 + range.begin,
       endLine     |-> 1 + Cardinality(Newlines(s, 0, range.end)),
       endColumn   |-> 1 + range.end,
       firstLine   |-> first,
       firstLineLength |-> lineEnd - first]

findRangeInfo(s, range) ==
  LET LineStart(i) == Max({0} \cup {j + 1 : j \in Newlines(s, 0, i)})
      first == LineStart(range.begin)
      lineEnd == Min({Len(s)} \cup Newlines(s, first, Len(s)))
  IN  [startLine   |-> 1 + Cardinality(Newlines(s, 0, range.begin)),
       startColumn |-> 1 + range.begin - first,
       endLine     |-> 1 + Cardinality(Newlines(s, 0, range.end)),
       endColumn   |-> 1 + range.end - LineStart(range.end),
       firstLine   |-> first,
       firstLineLength |-> lineEnd - first]
=============================================================================

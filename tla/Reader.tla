------------------------------- MODULE Reader -------------------------------
(***************************************************************************)
(* What the reader promises: the tokenizer implements the lexicon, numbers *)
(* and string literals are what they look like, and an error is shown at   *)
(* its place.  What the parser promises is in Grammar.                     *)
(***************************************************************************)
EXTENDS Parser

LexicalErrors == {"expected delimiter", "expected whitespace after string",
                  "invalid escape sequence", "expected */"}
Lexed == \A i \in DOMAIN errors : errors[i].message \notin LexicalErrors

\* While an item is being read the abstract reader is still where it began; a
\* line comment it has skipped at once.
ItemBegin ==
  CASE curr > Len(source) /\ state # 5 -> curr
    [] curr <= Len(source) /\ state = 0 -> curr
    [] curr <= Len(source) /\ state = 4 ->
         Min({i \in curr .. Len(source) : Char(i) = "\n"}) + 1
    [] OTHER -> begin

Verdict == IF phase = "tokenize" THEN "reading" ELSE IF Lexed THEN "read" ELSE "rejected"

Items == INSTANCE Lexicon
           WITH text <- source, pos <- ItemBegin, items <- tokens, verdict <- Verdict

\* Character by character, fpTokenize reads the items of the lexicon: none is
\* lost, cut or joined whatever comes next to it.
ImplementsLexicon == Items!LexiconSpec
-----------------------------------------------------------------------------
(* Numbers, as one would write them down.                                  *)

Figures(w) == /\ Len(w) > 0
              /\ CharsOf(w) \subseteq Digits \cup {","}
              /\ CharAt(w, 0) # "," /\ LastOf(w) # ","
              /\ \A i \in 1 .. Len(w) - 1 : CharAt(w, i - 1) = "," => CharAt(w, i) # ","
Unsigned(w) == IF Len(w) > 0 /\ CharAt(w, 0) \in {"+", "-"} THEN From(w, 1) ELSE w
Splits(w, S) == {i \in 0 .. Len(w) - 1 : CharAt(w, i) \in S}
Mantissa(w) == \/ Figures(w)
               \/ \E i \in Splits(w, {"."}) :
                    /\ i = 0 \/ Figures(SubSeq(w, 1, i))
                    /\ Figures(From(w, i + 1))
NumberText(w) ==
  \/ Mantissa(Unsigned(w))
  \/ \E i \in Splits(Unsigned(w), {"e", "E"}) :
       /\ Mantissa(SubSeq(Unsigned(w), 1, i))
       /\ Figures(Unsigned(From(Unsigned(w), i + 1)))

\* The automaton of fpIsValidNumber accepts a sign, figures with a fraction,
\* and an exponent, each optional where it may be, and nothing else; atof then
\* reads all of the token.
NumberSyntax == \A i \in DOMAIN kinds : kinds[i] = "NUMBER" <=> NumberText(Lexeme(i))
-----------------------------------------------------------------------------
LiteralValue(i) ==
  fpStringUnescape(source, tokens[i].begin + 1, tokens[i].end - tokens[i].begin - 2)

Literal(t) == INSTANCE Lexicon
                WITH text <- t, pos <- 0, items <- <<>>, verdict <- "reading"

\* What the interpreter prints for a string is a literal of that same string:
\* one token to the tokenizer, whose escapes give back every character.
ReprReadsBack ==
  \A i \in DOMAIN kinds : kinds[i] = "STRING" =>
    LET shown == Quote(LiteralValue(i))
    IN  /\ Literal(shown)!StringEnd = Len(shown) - 1
        /\ fpStringUnescape(shown, 1, Len(shown) - 2) = LiteralValue(i)
-----------------------------------------------------------------------------
\* printTraceLine takes a range whose end is in the column of its beginning for
\* an empty one.
Printed(info) == info.endColumn # info.startColumn

\* What it highlights: as many characters from the beginning of the range as it
\* takes to be wide, or as there are in the text.
Highlight(info) ==
  LET width == IF info.startLine = info.endLine
               THEN info.endColumn - info.startColumn
               ELSE info.firstLineLength - (info.startColumn - 1)
      from  == info.firstLine + info.startColumn - 1
  IN  SubSeq(source, from + 1, Min({from + width, Len(source)}))

\* The range of an error is in the text or reaches the terminator, which is as
\* far as findRangeInfo reads, and it is shown on the line it begins on, with
\* the text of the range, or the part of it on that line, highlighted.  Only a
\* range over several lines can be taken for an empty one.
ErrorsShowText ==
  \A i \in DOMAIN errors :
    LET range == errors[i].range
        end   == Min({range.end, Len(source)})
        stop  == Min({end} \cup Newlines(source, range.begin, end))
        info  == findRangeInfo(source, range)
    IN  /\ range.begin < range.end /\ range.end <= Len(source) + 1
        /\ Highlight(info) = SubSeq(source, range.begin + 1, stop)
        /\ range.begin \in info.firstLine .. info.firstLine + info.firstLineLength
        /\ Newlines(source, info.firstLine, info.firstLine + info.firstLineLength) = {}
        /\ Printed(info) \/ info.startLine # info.endLine
-----------------------------------------------------------------------------
\* Every source is read to its end: fpParse returns a block or NULL.
Finishes == <>(phase = "done")
=============================================================================

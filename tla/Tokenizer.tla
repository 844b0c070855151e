----------------------------- MODULE Tokenizer -----------------------------
(***************************************************************************)
(* fpTokenize: one pass over the characters of a source with a state of    *)
(* sixteen values, cutting it into tokens.  The end of the text is read as *)
(* one more line end.                                                      *)
(***************************************************************************)
EXTENDS Integers, Sequences

CONSTANT Sources   \* the texts of programs

ASSUME SourcesAssumption == \A s \in Sources : Len(s) \in Nat

VARIABLES
  source,   \* the text
  curr,     \* the next character
  begin,    \* where the token being read began
  state,    \* what curr is in, see below
  tokens,   \* the ranges found, first to last
  errors,   \* the errors of the parser, first to last
  phase     \* the function of the reader that runs

tvars == <<source, curr, begin, state, tokens, errors, phase>>

\* state: 0 between tokens, 1 in a word, 2 in '...', 3 in "...", 4 in //...,
\* 5 in /*...*/, 6 and 7 after a backslash in 2 and 3, 8 to 11 and 12 to 15
\* in the four characters after \u in 2 and 3.
Blanks   == {" ", "\n", "\t"}
Openers  == {"(", "{"}
Closers  == {")", "}"}
Escapes  == {"'", "\"", "\\", "b", "f", "n", "r", "t", "$"}
Quotes   == {"'", "\""}
Delim(q) == IF q \in {2, 6, 8, 9, 10, 11} THEN "'" ELSE "\""

Char(i) == IF i = Len(source) THEN "\n" ELSE SubSeq(source, i + 1, i + 1)
Cur     == Char(curr)
HasMore == curr + 1 < Len(source)
Ahead   == Char(curr + 1)

Span(b, e) == [begin |-> b, end |-> e]
-----------------------------------------------------------------------------
TokenizerInit ==
  /\ source \in Sources
  /\ curr = 0
  /\ begin = 0
  /\ state = 0
  /\ tokens = <<>>
  /\ errors = <<>>
  /\ phase = "tokenize"

\* The rest of the loop body: the next state, the tokens yielded.
Step(q, yielded) ==
  /\ state' = q
  /\ tokens' = tokens \o yielded
  /\ curr' = curr + 1
  /\ UNCHANGED <<source, errors, phase>>

\* parserError and return: parser->tokens is never set.
Reject(message, e) ==
  /\ errors' = Append(errors, [message |-> message, range |-> Span(begin, e)])
  /\ tokens' = <<>>
  /\ phase' = "classify"
  /\ UNCHANGED <<source, curr, begin, state>>

Between ==
  /\ state = 0
  /\ \/ /\ Cur \in Quotes
        /\ begin' = curr
        /\ Step(IF Cur = "'" THEN 2 ELSE 3, <<>>)
     \/ /\ Cur = "/" /\ HasMore /\ Ahead = "/"
        /\ Step(4, <<>>)
        /\ UNCHANGED begin
     \/ /\ Cur = "/" /\ HasMore /\ Ahead = "*"
        /\ begin' = curr
        /\ Step(5, <<>>)
     \/ /\ Cur \in Openers \cup Closers
        /\ Step(0, <<Span(curr, curr + 1)>>)
        /\ UNCHANGED begin
     \/ /\ Cur \in Blanks
        /\ Step(0, <<>>)
        /\ UNCHANGED begin
     \/ /\ Cur \notin Quotes \cup Openers \cup Closers \cup Blanks
        /\ ~(Cur = "/" /\ HasMore /\ Ahead \in {"/", "*"})
        /\ begin' = curr
        /\ Step(1, <<>>)

\* A word that keeps its opening bracket and yields it on its own as well.
WordTwice ==
  /\ state = 1
  /\ UNCHANGED begin
  /\ \/ /\ Cur \in Blanks
        /\ Step(0, <<Span(begin, curr)>>)
     \/ /\ Cur \in Openers \cup Closers
        /\ Step(0, <<Span(begin, curr + 1), Span(curr, curr + 1)>>)
     \/ /\ Cur \notin Blanks \cup Closers \cup Openers
        /\ Step(1, <<>>)

Word ==
  /\ state = 1
  /\ UNCHANGED begin
  /\ \/ /\ Cur \in Blanks
        /\ Step(0, <<Span(begin, curr)>>)
     \/ /\ Cur \in Closers
        /\ Step(0, <<Span(begin, curr), Span(curr, curr + 1)>>)
     \/ /\ Cur \in Openers
        /\ Step(0, <<Span(begin, curr + 1)>>)
     \/ /\ Cur \notin Blanks \cup Closers \cup Openers
        /\ Step(1, <<>>)

InString ==
  /\ state \in {2, 3}
  /\ \/ /\ Cur = Delim(state)
        /\ HasMore => Ahead \in Blanks \cup Closers
        /\ Step(0, <<Span(begin, curr + 1)>>)
        /\ UNCHANGED begin
     \/ /\ Cur = Delim(state)
        /\ HasMore /\ Ahead \notin Blanks \cup Closers
        /\ Reject("expected whitespace after string", curr + 1)
     \/ /\ Cur = "\\"
        /\ Step(state + 4, <<>>)
        /\ UNCHANGED begin
     \/ /\ Cur = "\n"
        /\ Reject("expected delimiter", curr)
     \/ /\ Cur \notin {Delim(state), "\\", "\n"}
        /\ Step(state, <<>>)
        /\ UNCHANGED begin

\* Every escape goes back to a string in single quotes.
InEscapeSingle ==
  /\ state \in {6, 7}
  /\ \/ /\ Cur \in Escapes
        /\ Step(2, <<>>)
        /\ UNCHANGED begin
     \/ /\ Cur = "u"
        /\ Step(8, <<>>)
        /\ UNCHANGED begin
     \/ /\ Cur \notin Escapes \cup {"u"}
        /\ Reject("invalid escape sequence", curr)

InEscape ==
  /\ state \in {6, 7}
  /\ \/ /\ Cur \in Escapes
        /\ Step(state - 4, <<>>)
        /\ UNCHANGED begin
     \/ /\ Cur = "u"
        /\ Step(IF state = 6 THEN 8 ELSE 12, <<>>)
        /\ UNCHANGED begin
     \/ /\ Cur \notin Escapes \cup {"u"}
        /\ Reject("invalid escape sequence", curr)

InUnicode ==
  /\ state \in 8 .. 15
  /\ \/ /\ Cur \in Quotes
        /\ Reject("invalid escape sequence", curr)
     \/ /\ Cur \notin Quotes
        /\ Step(CASE state = 11 -> 2 [] state = 15 -> 3 [] OTHER -> state + 1, <<>>)
        /\ UNCHANGED begin

InComment ==
  /\ state \in {4, 5}
  /\ UNCHANGED begin
  /\ LET closed == \/ state = 4 /\ Cur = "\n"
                   \/ state = 5 /\ curr > 0 /\ Cur = "/" /\ Char(curr - 1) = "*"
     IN  Step(IF closed THEN 0 ELSE state, <<>>)

EndOfText ==
  IF state = 5
  THEN Reject("expected */", curr)
  ELSE /\ phase' = "classify"
       /\ UNCHANGED <<source, curr, begin, state, tokens, errors>>

fpTokenize ==
  /\ phase = "tokenize"
  /\ IF curr <= Len(source)
     THEN Between \/ Word \/ InString \/ InEscape \/ InUnicode \/ InComment
     ELSE EndOfText

TokenizerSpec == TokenizerInit /\ [][fpTokenize]_tvars
-----------------------------------------------------------------------------
\* Tokens are ranges of the text, none empty, in order and without overlap;
\* the range being read begins after them.  Every later stage reads the text
\* through these ranges (fpClassifyTokens, fpParseBody, the trace printer).
TokensInOrder ==
  /\ \A i \in 1 .. Len(tokens) :
       /\ 0 <= tokens[i].begin
       /\ tokens[i].begin < tokens[i].end
       /\ tokens[i].end <= Len(source)
  /\ \A i, j \in 1 .. Len(tokens) : i < j => tokens[i].end <= tokens[j].begin
=============================================================================

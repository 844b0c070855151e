------------------------------ MODULE Lexicon ------------------------------
(***************************************************************************)
(* What fpTokenize promises: a text is a sequence of whole items, blanks,  *)
(* brackets, words, strings and comments, and each is read in one step.    *)
(* A word ends before a blank or a closing bracket and after an opening    *)
(* one; a string ends at its delimiter, which whitespace or a closing      *)
(* bracket must follow.  A text may end inside a word, inside a line       *)
(* comment and, an oversight of the code, inside the characters of a \u.   *)
(***************************************************************************)
EXTENDS Integers, Sequences, FiniteSetsExt

VARIABLES
  text,      \* the text, any
  pos,       \* where the next item begins
  items,     \* the ranges of the tokens read
  verdict    \* "reading", "read" or "rejected"

lvars == <<text, pos, items, verdict>>

Sign(i) == IF i >= Len(text) THEN "\n" ELSE SubSeq(text, i + 1, i + 1)
Blank   == {" ", "\n", "\t"}
Opening == {"(", "{"}
Closing == {")", "}"}
Item(b, e) == [begin |-> b, end |-> e]

\* The first place from i on, up to the end of the text, with such a sign.
FirstOf(S, i) == Min({j \in i .. Len(text) : Sign(j) \in S})

Read(yielded, next) ==
  /\ items' = items \o yielded
  /\ pos' = next
  /\ UNCHANGED <<text, verdict>>

Refused == verdict' = "rejected" /\ items' = <<>> /\ UNCHANGED <<text, pos>>
-----------------------------------------------------------------------------
LexiconInit == pos = 0 /\ items = <<>> /\ verdict = "reading"

CommentSign == IF Sign(pos) = "/" /\ pos + 1 < Len(text) THEN Sign(pos + 1) ELSE "none"

SkipBlank == Sign(pos) \in Blank /\ Read(<<>>, pos + 1)

OneBracket == Sign(pos) \in Opening \cup Closing /\ Read(<<Item(pos, pos + 1)>>, pos + 1)

OneWord ==
  /\ Sign(pos) \notin Blank \cup Opening \cup Closing \cup {"'", "\""}
  /\ CommentSign \notin {"/", "*"}
  /\ LET e == FirstOf(Blank \cup Opening \cup Closing, pos + 1)
     IN  Read(CASE Sign(e) \in Blank   -> <<Item(pos, e)>>
                [] Sign(e) \in Opening -> <<Item(pos, e + 1)>>
                [] Sign(e) \in Closing -> <<Item(pos, e), Item(e, e + 1)>>, e + 1)

LineComment == CommentSign = "/" /\ Read(<<>>, FirstOf({"\n"}, pos) + 1)

\* The star of the opening may be that of the closing: /*/ is a comment.
BlockComment ==
  /\ CommentSign = "*"
  /\ LET ends == {j \in pos + 2 .. Len(text) - 1 : Sign(j) = "/" /\ Sign(j - 1) = "*"}
     IN  IF ends = {} THEN Refused ELSE Read(<<>>, Min(ends) + 1)

\* Where the string that begins at pos ends: the place of its delimiter, -1
\* when it is malformed, -2 when the text ends inside the four signs of \u.
StringEnd ==
  LET delim == Sign(pos)
      end[i \in pos .. Len(text) + 6] ==
        CASE i > Len(text) -> -2
          [] i <= Len(text) /\ Sign(i) = delim -> i
          [] i <= Len(text) /\ Sign(i) = "\n"  -> -1
          [] i <= Len(text) /\ Sign(i) = "\\"  ->
               IF Sign(i + 1) \in {"'", "\"", "\\", "b", "f", "n", "r", "t", "$"}
               THEN end[i + 2]
               ELSE IF Sign(i + 1) # "u" \/ \E j \in 2 .. 5 : Sign(i + j) \in {"'", "\""}
               THEN -1
               ELSE end[i + 6]
          [] OTHER -> end[i + 1]
  IN  end[pos + 1]

OneString ==
  /\ Sign(pos) \in {"'", "\""}
  /\ LET e == StringEnd
     IN  CASE e = -1 -> Refused
           [] e = -2 -> Read(<<>>, Len(text) + 1)
           [] OTHER  ->
                IF e + 1 < Len(text) /\ Sign(e + 1) \notin Blank \cup Closing
                THEN Refused
                ELSE Read(<<Item(pos, e + 1)>>, e + 1)

EndOfInput == /\ verdict' = "read"
              /\ UNCHANGED <<text, pos, items>>

LexiconNext ==
  /\ verdict = "reading"
  /\ IF pos > Len(text)
     THEN EndOfInput
     ELSE \/ SkipBlank \/ OneBracket \/ OneWord \/ OneString
          \/ LineComment \/ BlockComment

LexiconSpec == LexiconInit /\ [][LexiconNext]_lvars
=============================================================================

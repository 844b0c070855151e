------------------------------ MODULE MCReader ------------------------------
EXTENDS Grammar

\* All texts of at most k of the given pieces.
Texts(pieces, k) ==
  FoldLeft(LAMBDA S, i : S \cup {t \o p : t \in S, p \in pieces}, {""}, [i \in 1 .. k |-> i])
Spaced(S) == {w \o " " : w \in S}

Quoted == {"'" \o t : t \in Texts({"'", "\\", "u", "n", "a"}, 5)}
Delimited == Texts({"'", "\"", "\\", "a", " ", ")"}, 4)
Unicode   == {"'\\u" \o t : t \in Texts({"a", "\\", "'", "\n"}, 5)}
Comments  == Texts({"/", "*", "\n", "a", " "}, 5)
Brackets  == Texts({"a", "(", "{", ")", "}", " "}, 4)
Numbers   == {m \o t : m \in {"", "1.1", "1e"}, t \in Texts({"1", "+", ",", ".", "e"}, 4)}
Chains    == Texts({"a", ".", "1", ":", "!", ">", "#"}, 4)
Programs  == Texts(Spaced({"a", "{", "}", "(", ")", "=>", "then", "else", "import", "as", "+", "f("}), 3)
Closures  == Texts(Spaced({"a", "{", "}", "=>"}), 5)
Elses   == Texts(Spaced({"then", "else", "a", "+"}), 5)
Loops     == Texts(Spaced({"until", "do", "a", "("}), 4)
Imports   == Texts(Spaced({"import", "as", "a", ".a.b", "$a"}), 4)
Prefixed  == Texts(Spaced({"f(", "x:", "f!", "(", ")", "@a"}), 4)

Kinds     == Texts(Spaced(Keywords \cup Punctuation \cup
               {"a", "#a", "@a", "\\a", "$a", ">a", ">>.a", "?a.b", "&a", "a:", "f(", "f!",
                "1", "'a'", "...", "\"a\"", "a..b", "#"}), 2)

MCSources == UNION {Quoted, Delimited, Unicode, Comments, Brackets, Numbers, Chains,
                    Programs, Closures, Elses, Loops, Imports, Prefixed, Kinds}
=============================================================================

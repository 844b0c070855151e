------------------------------ MODULE Grammar ------------------------------
(***************************************************************************)
(* The language fpParse reads, stated as a grammar, and its trees written  *)
(* back as programs: what the parser must agree with.                      *)
(***************************************************************************)
EXTENDS Reader

(* A context-free grammar over the kinds of the tokens.  At position i,    *)
(* unit is the set of places where a unit that begins at i may end, body   *)
(* that of a sequence of one unit or more.                                 *)

PrefixKinds == Operators \cup Specials \cup {"@IDENT", "CHAIN:", "CHAIN!"}
WordKinds    == (DOMAIN ChainMargins \ {"CHAIN:", "CHAIN(", "CHAIN!"}) \cup Literals

Simple(i) == "." \notin CharsOf(Lexeme(i))

\* at has the ends of the units and bodies that begin after i.
SpansAt(at, i) ==
  LET N == Len(tokens)
      K(j) == IF j <= N THEN kinds[j] ELSE "end"
      Unit(j) == IF j <= N THEN at[j].unit ELSE {}
      Body(j) == IF j <= N THEN at[j].body ELSE {}
      Closed(j, by) == {e + 1 : e \in {x \in {j} \cup Body(j) : K(x) = by}}
      Then(j, word) == UNION {Unit(e + 1) : e \in {x \in Unit(j) : K(x) = word}}
      names == Min({j \in i + 1 .. N + 1 : K(j) # "CHAIN"})
      inside == IF K(names) = "=>" THEN names + 1 ELSE i + 1
      unit ==
        CASE K(i) \in WordKinds       -> {i + 1}
          [] K(i) \in PrefixKinds    -> Unit(i + 1)
          [] K(i) = "CHAIN("      -> Closed(i + 1, ")")
          [] K(i) = "("           -> Closed(i + 1, ")")
          [] K(i) \in {"{", ":{"} -> Closed(inside, "}")
          [] K(i) = "then"        -> Unit(i + 1) \cup Then(i + 1, "else")
          [] K(i) = "until"       -> Unit(i + 1) \cup Then(i + 1, "do")
          [] K(i) \in {"else", "do"} -> Unit(i + 1)
          [] K(i) = "import" /\ K(i + 1) = "CHAIN" ->
               IF K(i + 2) # "as" THEN {i + 2}
               ELSE IF K(i + 3) = "CHAIN" /\ Simple(i + 3) THEN {i + 4} ELSE {}
          [] OTHER -> {}
  IN  [unit |-> unit, body |-> unit \cup UNION {Body(e) : e \in unit}]

\* The table of what begins at each token, filled from the last to the first.
Extend(at, i) == LET here == SpansAt(at, i)
                 IN  [j \in i .. Len(tokens) |-> IF j = i THEN here ELSE at[j]]
Spans ==
  LET from[i \in 1 .. Len(tokens) + 1] ==
        IF i > Len(tokens) THEN <<>> ELSE Extend(from[i + 1], i)
  IN  from[1]

IsProgram == tokens = <<>> \/ Len(tokens) + 1 \in Spans[1].body

\* fpParse returns a block exactly for the programs of the grammar.  (An
\* error forgotten after a NULL, a token skipped, a closing bracket accepted
\* for another, a chain that fails to parse would all tell them apart.)
AcceptsGrammar == phase = "done" /\ Lexed => (result = "block" <=> IsProgram)
-----------------------------------------------------------------------------
(* A tree written back: each token of the program as its node, or as 0     *)
(* with its kind when it is a closing bracket or a word inside a unit.     *)

\* Of node i, when at has what its links lead to.
WrittenAt(at, i) ==
  LET node == nodes[i]
      \* Links only lead forward.
      At(j) == IF j > i THEN at[j] ELSE <<>>
      It == <<[node |-> i, kind |-> kinds[i]]>>
      Mark(kind) == <<[node |-> 0, kind |-> kind]>>
      Binds == {j \in DOMAIN nodes : j > i /\ nodes[j].kind = "SIGBIND"
                                     /\ \A k \in i + 1 .. j : nodes[k].kind = "SIGBIND"}
      Signed == node.sub # 0 /\ nodes[node.sub].kind = "SIGBIND"
      First == IF Signed THEN nodes[i + 1].next ELSE node.sub
      Names == [j \in 1 .. Max({0} \cup Binds) - i |-> [node |-> i + j, kind |-> "CHAIN"]]
      Sig == IF Signed THEN Names \o Mark("=>") ELSE <<>>
      Or(word) == IF node.alt = 0 THEN <<>> ELSE Mark(word) \o At(node.alt)
      unit ==
        CASE node.kind \in {"{", ":{"} -> It \o Sig \o At(First) \o Mark("}")
          [] node.kind \in {"(", "CHAIN("} -> It \o At(node.sub) \o Mark(")")
          [] node.kind = "then"  -> It \o At(node.sub) \o Or("else")
          [] node.kind = "until" -> It \o At(node.sub) \o Or("do")
          [] node.kind \in {"else", "do"} -> It \o At(node.alt)
          [] node.kind = "import" ->
               It \o Mark("CHAIN") \o
               (IF node.sub = 0 THEN <<>> ELSE Mark("as") \o At(node.sub))
          [] OTHER -> It \o At(node.sub)
  IN  unit \o At(node.next)

Written ==
  LET from[i \in 0 .. Len(tokens)] == IF i = 0 THEN <<>> ELSE WrittenAt(from, i)
  IN  from

\* A signature of no names leaves no trace in the tree.
EmptySignature(i) == kinds[i] = "=>" /\ kinds[i - 1] \in {"{", ":{"}
Kept ==
  LET from[n \in 0 .. Len(tokens)] ==
        IF n = 0 THEN <<>>
        ELSE IF EmptySignature(n) THEN from[n - 1] ELSE Append(from[n - 1], n)
  IN  from[Len(tokens)]

\* The text of a chain: its symbols with dots between them.
Dotted(es) ==
  LET from[i \in 1 .. Len(es)] ==
        IF i = Len(es) THEN es[i] ELSE es[i] \o "." \o from[i + 1]
  IN  from[1]
ChainWritten(es) == IF Head(es) = "." THEN "." \o Dotted(Tail(es)) ELSE Dotted(es)

\* The tree of a block, written back, is the program: every token is in it
\* once, in its order and under the construct it belongs to; each chain has
\* the symbols of its text; the names of a signature are bound from the last,
\* which takes the top of the stack, to the first; and the else or do after
\* the unit of a then or until is its own.
TreeIsProgram ==
  result = "block" =>
    LET out == Written[root]
    IN  /\ Len(out) = Len(Kept)
        /\ \A p \in DOMAIN out : /\ out[p].kind = kinds[Kept[p]]
                                 /\ out[p].node \in {0, Kept[p]}
        /\ \A i \in DOMAIN nodes :
             /\ nodes[i].kind \in DOMAIN ChainMargins =>
                  ChainWritten(nodes[i].chain) = ChainText(kinds[i], Lexeme(i))
             /\ i > 1 /\ nodes[i].kind = "SIGBIND" /\ nodes[i - 1].kind = "SIGBIND" =>
                  nodes[i].next = i - 1
        /\ \A p \in DOMAIN out :
             LET node == nodes[out[p].node]
                 after == p + 1 + Len(Written[node.sub])
             IN  out[p].node # 0 /\ node.kind \in {"then", "until"} /\ node.alt = 0
                   /\ after <= Len(out)
                   => out[after].kind # (IF node.kind = "then" THEN "else" ELSE "do")
=============================================================================

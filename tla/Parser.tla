------------------------------- MODULE Parser -------------------------------
(***************************************************************************)
(* fpParse: the tokens of a source are classified, then read by recursive  *)
(* descent into the nodes the evaluator walks.  A node is named by the     *)
(* token it came from and 0 is NULL.  Each call of fpParseBody is a frame  *)
(* with the steps it has left.                                             *)
(***************************************************************************)
EXTENDS Tokenizer, Lexemes, SequencesExt

VARIABLES
  kinds,       \* parser->tokenKinds
  nextToken,   \* the next token to read, from 1
  nodes,       \* the node of each token that has one
  frames,      \* the calls of fpParseBody, innermost last
  root,        \* the first node of the program
  result       \* "none" while fpParse runs, then "block" or "error"

rvars == <<kinds, nextToken, nodes, frames, root, result>>
vars  == <<tvars, rvars>>

Lexeme(i) == SubSeq(source, tokens[i].begin + 1, tokens[i].end)

NoNode == [kind |-> "none", sub |-> 0, alt |-> 0, next |-> 0, chain |-> <<>>]
NewNode(kind) == [NoNode EXCEPT !.kind = kind]

ReaderInit ==
  /\ TokenizerInit
  /\ kinds = <<>>
  /\ nextToken = 1
  /\ nodes = <<>>
  /\ frames = <<>>
  /\ root = 0
  /\ result = "none"

AtEnd         == nextToken > Len(tokens)
NextIs(kind)  == ~AtEnd /\ kinds[nextToken] = kind
fpHasNextUnit == ~AtEnd /\ kinds[nextToken] \notin {"}", ")"}

\* An error found while parsing, at a token.
ErrorAt(message, i) == [message |-> message, range |-> tokens[i]]
-----------------------------------------------------------------------------
\* The errors once every token has its kind: one for each without a kind.
Classified(ks) ==
  LET after[n \in 0 .. Len(tokens)] ==
        IF n = 0 THEN errors
        ELSE IF ks[n] = "ERROR" THEN Append(after[n - 1], ErrorAt("invalid token", n))
        ELSE after[n - 1]
  IN  after[Len(tokens)]

fpClassifyTokens ==
  /\ phase = "classify"
  /\ kinds' = [i \in 1 .. Len(tokens) |-> KindOf(Lexeme(i))]
  /\ errors' = Classified(kinds')
  /\ IF errors' # <<>>
     THEN phase' = "done" /\ result' = "error"
     ELSE phase' = "parse" /\ UNCHANGED result
  /\ nodes' = [i \in 1 .. Len(tokens) |-> NoNode]
  /\ UNCHANGED <<source, curr, begin, state, tokens, nextToken, frames, root>>
-----------------------------------------------------------------------------
(* What fpParseBody does with a unit after its first token, by kind.       *)

Operators == {"+", "-", "*", "/", "=", "!=", "<", ">", "<=", ">=", "^", "%", "<>"}
Specials  == {"map", "fold", "filter", "zip", "is", "as", "to", "dot", "join",
              "repeat", "with", "catch", "and", "or"}
Literals  == {"NUMBER", "#IDENT", "STRING", "true", "false", "default", "nil",
              "DOTS", "this"}

Script(kind) ==
  CASE kind \in Literals              -> <<>>
    [] kind \in {"CHAIN", "$CHAIN", ">CHAIN", ">>CHAIN", "?CHAIN", "&CHAIN"} -> <<"chain">>
    [] kind \in {"{", ":{"}           -> <<"sig", "body", "binds", "}">>
    [] kind \in {"CHAIN:", "CHAIN!"}  -> <<"chain", "sub">>
    [] kind = "CHAIN("                -> <<"chain", "body", ")">>
    [] kind = "("                     -> <<"body", ")">>
    [] kind \in Operators \cup Specials \cup {"@IDENT"} -> <<"sub">>
    [] kind = "then"                  -> <<"sub", "else">>
    [] kind = "until"                 -> <<"sub", "do">>
    [] kind \in {"else", "do"}        -> <<"alt">>
    [] kind = "import"                -> <<"path", "checkPath", "as">>
    [] OTHER                          -> <<"unexpected">>

Frame(i, single, into) ==
  [node |-> i, into |-> into, sigBegin |-> i, sigEnd |-> i,
   todo |-> Script(kinds[i]) \o (IF single THEN <<>> ELSE <<"next">>)]

Top  == Last(frames)
Done == [Top EXCEPT !.todo = Tail(@)]      \* the frame, its first step done
Skip == ReplaceAt(frames, Len(frames), Done)

\* fs is the C stack at a call of fpParseBody whose result goes to a field of
\* the caller's node: at the end of the input, NULL and an error.
CallBody(fs, single, into) ==
  IF AtEnd
  THEN /\ errors' = Append(errors, ErrorAt("unexpected end of input", nextToken - 1))
       /\ frames' = fs
       /\ UNCHANGED <<nextToken, nodes, root>>
  ELSE /\ frames' = Append(fs, Frame(nextToken, single, into))
       /\ nodes' = [nodes EXCEPT ![nextToken] = NewNode(kinds[nextToken])]
       /\ nextToken' = nextToken + 1
       /\ UNCHANGED <<errors, root>>

\* The innermost call returns node i (0 for NULL) to its caller.
ReturnWith(i, table) ==
  /\ frames' = Front(frames)
  /\ IF Len(frames) = 1
     THEN root' = i /\ nodes' = table
     ELSE /\ LET caller == frames[Len(frames) - 1].node
             IN  nodes' = CASE Top.into = "sub"  -> [table EXCEPT ![caller].sub = i]
                            [] Top.into = "alt"  -> [table EXCEPT ![caller].alt = i]
                            [] Top.into = "next" -> [table EXCEPT ![caller].next = i]
          /\ UNCHANGED root
  /\ UNCHANGED nextToken

Fail(message, i) ==
  /\ errors' = Append(errors, ErrorAt(message, i))
  /\ ReturnWith(0, nodes)
-----------------------------------------------------------------------------
Doing(name) == Top.todo # <<>> /\ Head(Top.todo) = name

\* The chain of the token is cut into symbols.
Chain ==
  /\ Doing("chain")
  /\ LET text == ChainText(kinds[Top.node], Lexeme(Top.node))
     IN  IF ChainParses(text)
         THEN /\ nodes' = [nodes EXCEPT ![Top.node].chain = ChainElems(text)]
              /\ frames' = Skip
              /\ UNCHANGED <<nextToken, root, errors>>
         ELSE Fail("invalid chain", Top.node)

\* A signature is a run of chains and then =>.
Signature ==
  /\ Doing("sig")
  /\ LET after == Min({i \in nextToken .. Len(tokens) : kinds[i] # "CHAIN"}
                      \cup {Len(tokens) + 1})
     IN  IF fpHasNextUnit /\ after <= Len(tokens) /\ kinds[after] = "=>"
         THEN /\ frames' = ReplaceAt(frames, Len(frames),
                             [Done EXCEPT !.sigBegin = nextToken, !.sigEnd = after])
              /\ nextToken' = after + 1
         ELSE frames' = Skip /\ UNCHANGED nextToken
  /\ UNCHANGED <<nodes, root, errors>>

\* Names linked first to last, as they were read.
SigBindsInOrder ==
  /\ Doing("binds")
  /\ LET a == Top.sigBegin
         z == Top.sigEnd - 1
         Bind(i) == [NewNode("SIGBIND") EXCEPT
                       !.next = IF i = z THEN nodes[Top.node].sub ELSE i + 1]
     IN  nodes' = [i \in DOMAIN nodes |->
                     CASE i \in a .. z -> Bind(i)
                       [] i = Top.node /\ a <= z -> [nodes[i] EXCEPT !.sub = a]
                       [] OTHER -> nodes[i]]
  /\ frames' = Skip
  /\ UNCHANGED <<nextToken, root, errors>>

\* A node for each name of the signature, in front of the body, last to first.
SigBinds ==
  /\ Doing("binds")
  /\ LET a == Top.sigBegin
         z == Top.sigEnd - 1
         Bind(i) == [NewNode("SIGBIND") EXCEPT
                       !.next = IF i = a THEN nodes[Top.node].sub ELSE i - 1]
     IN  nodes' = [i \in DOMAIN nodes |->
                     CASE i \in a .. z -> Bind(i)
                       [] i = Top.node /\ a <= z -> [nodes[i] EXCEPT !.sub = z]
                       [] OTHER -> nodes[i]]
  /\ frames' = Skip
  /\ UNCHANGED <<nextToken, root, errors>>

\* The units inside braces or parentheses, if any.
Units ==
  /\ Doing("body")
  /\ IF fpHasNextUnit
     THEN CallBody(Skip, FALSE, "sub")
     ELSE frames' = Skip /\ UNCHANGED <<nextToken, nodes, root, errors>>

\* Either closing bracket accepted for the other.
ExpectAny ==
  /\ \E kind \in {"}", ")"} :
       /\ Doing(kind)
       /\ IF ~AtEnd /\ kinds[nextToken] \in {"}", ")"}
          THEN /\ nextToken' = nextToken + 1
               /\ frames' = Skip
               /\ UNCHANGED <<nodes, root, errors>>
          ELSE Fail("expected token", IF AtEnd THEN Len(tokens) ELSE nextToken)

\* fpExpectToken with an error.
Expect ==
  /\ \E kind \in {"}", ")"} :
       /\ Doing(kind)
       /\ IF NextIs(kind)
          THEN /\ nextToken' = nextToken + 1
               /\ frames' = Skip
               /\ UNCHANGED <<nodes, root, errors>>
          ELSE Fail("expected token", IF AtEnd THEN Len(tokens) ELSE nextToken)

\* The one unit an operator, a word or a name: applies to.
Operand ==
  \E field \in {"sub", "alt"} : Doing(field) /\ CallBody(Skip, TRUE, field)

\* Waits for a word that is not there.
OptionalAwaited ==
  /\ \E word \in {"else", "do", "as"} :
       /\ Doing(word)
       /\ NextIs(word)
       /\ nextToken' = nextToken + 1
       /\ frames' = ReplaceAt(frames, Len(frames),
            [Done EXCEPT !.todo = (IF word = "as" THEN <<"name", "checkName">>
                                   ELSE <<"alt">>) \o @])
  /\ UNCHANGED <<nodes, root, errors>>

\* fpExpectToken without an error: else after then, do after until, as.
Optional ==
  /\ \E word \in {"else", "do", "as"} :
       /\ Doing(word)
       /\ IF NextIs(word)
          THEN /\ nextToken' = nextToken + 1
               /\ frames' = ReplaceAt(frames, Len(frames),
                    [Done EXCEPT !.todo = (IF word = "as" THEN <<"name", "checkName">>
                                           ELSE <<"alt">>) \o @])
          ELSE frames' = Skip /\ UNCHANGED nextToken
  /\ UNCHANGED <<nodes, root, errors>>

\* The unit after import is parsed like any other, and must be a chain.  Only
\* its chain is kept.
ImportPath == \E name \in {"path", "name"} : Doing(name) /\ CallBody(Skip, TRUE, "sub")

CheckPath ==
  /\ Doing("checkPath")
  /\ LET unit == nodes[Top.node].sub
     IN  IF unit = 0 \/ nodes[unit].kind # "CHAIN"
         THEN Fail("expected chain after import", Top.node)
         ELSE /\ nodes' = [nodes EXCEPT ![Top.node].sub = 0,
                                        ![Top.node].chain = nodes[unit].chain]
              /\ frames' = Skip
              /\ UNCHANGED <<nextToken, root, errors>>

\* The unit after as must be a chain of one name; NULL has had its error.
CheckName ==
  /\ Doing("checkName")
  /\ LET unit == nodes[Top.node].sub
     IN  IF unit = 0
         THEN ReturnWith(0, nodes) /\ UNCHANGED errors
         ELSE IF nodes[unit].kind # "CHAIN" \/ Len(nodes[unit].chain) # 1
         THEN Fail("expected identifier after import as", Top.node)
         ELSE frames' = Skip /\ UNCHANGED <<nextToken, nodes, root, errors>>

Unexpected == Doing("unexpected") /\ Fail("unexpected token", Top.node)

\* Unless it was asked for a single unit, fpParseBody goes on with the next.
NextUnit ==
  /\ Doing("next")
  /\ IF fpHasNextUnit
     THEN CallBody(Skip, FALSE, "next")
     ELSE frames' = Skip /\ UNCHANGED <<nextToken, nodes, root, errors>>

Return == Top.todo = <<>> /\ ReturnWith(Top.node, nodes) /\ UNCHANGED errors

fpParseBody ==
  /\ phase = "parse"
  /\ frames # <<>>
  /\ \/ Chain \/ Signature \/ SigBinds \/ Units \/ Expect \/ Operand \/ Optional
     \/ ImportPath \/ CheckPath \/ CheckName \/ Unexpected \/ NextUnit \/ Return
  /\ UNCHANGED <<source, curr, begin, state, tokens, phase, kinds, result>>
-----------------------------------------------------------------------------
BeginProgram ==
  /\ phase = "parse"
  /\ frames = <<>>
  /\ nextToken = 1
  /\ fpHasNextUnit
  /\ CallBody(<<>>, FALSE, "root")
  /\ UNCHANGED <<source, curr, begin, state, tokens, phase, kinds, result>>

EndProgram ==
  /\ phase = "parse"
  /\ frames = <<>>
  /\ nextToken > 1 \/ ~fpHasNextUnit
  /\ errors' = IF AtEnd THEN errors
               ELSE Append(errors, ErrorAt("unexpected token", nextToken))
  /\ result' = IF errors' = <<>> THEN "block" ELSE "error"
  /\ phase' = "done"
  /\ UNCHANGED <<source, curr, begin, state, tokens, kinds, nextToken, nodes, frames, root>>

fpParse == fpClassifyTokens \/ BeginProgram \/ fpParseBody \/ EndProgram

Next == \/ fpTokenize /\ UNCHANGED rvars
        \/ fpParse

Spec == ReaderInit /\ [][Next]_vars
FairSpec == Spec /\ WF_vars(Next)
=============================================================================

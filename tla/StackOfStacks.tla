--------------------------- MODULE StackOfStacks ---------------------------
(***************************************************************************)
(* What web/main.kiwi (Groups, Dot) promises of the evaluator: the stack   *)
(* of stacks.  A program works on the top stack alone; a group starts with *)
(* an empty stack and at its end puts what is left on the end of the stack *)
(* below; `.` moves values of the stack below to the top stack, in their   *)
(* order.  A module starts a stack of its own that `.` cannot look below.  *)
(* There are no pools, pointers or buffers here.                           *)
(***************************************************************************)
EXTENDS Naturals, Sequences

CONSTANT Value

VARIABLES
  meta,    \* the values of each stack, the innermost last
  rooted,  \* rooted[n]: the prompt or a module has begun stack n
  walled   \* walled[n]: `.` in stack n raises

vars == <<meta, rooted, walled>>

n == Len(meta)
Outer(s) == SubSeq(s, 1, Len(s) - 1)

Init == /\ meta = << <<>> >>
        /\ rooted = << TRUE >>
        /\ walled = << TRUE >>

\* The values of the top stack change and nothing else does.
TopChanges ==
  /\ Len(meta') = n
  /\ Outer(meta') = Outer(meta)
  /\ meta'[n] \in Seq(Value)

\* Push, pop, map, call a native function: any change of the top stack.
Work == TopChanges /\ UNCHANGED <<rooted, walled>>

BeginStack(root) ==
  /\ meta' = Append(meta, <<>>)
  /\ rooted' = Append(rooted, root)
  /\ walled' = Append(walled, root)

\* A group or a call in a group ends, also if it has failed.
EndGroup ==
  /\ n > 1
  /\ meta' = Append(Outer(Outer(meta)), meta[n - 1] \o meta[n])
  /\ rooted' = Outer(rooted)
  /\ walled' = Outer(walled)

\* A module ends, or a group fails.
DropStack ==
  /\ n > 1
  /\ meta' = Outer(meta)
  /\ rooted' = Outer(rooted)
  /\ walled' = Outer(walled)

\* `.` and `dot`: the top m values of the stack below (dot's operand, which is
\* the top value, has been popped).
Dot(m) ==
  /\ n > 1
  /\ ~walled[n]
  /\ m <= Len(meta[n - 1])
  /\ LET below == meta[n - 1]
         rest  == Len(below) - m
     IN meta' = [meta EXCEPT ![n - 1] = SubSeq(below, 1, rest),
                             ![n] = @ \o SubSeq(below, rest + 1, Len(below))]
  /\ UNCHANGED <<rooted, walled>>

\* A module fails: its stack stays the top one, and the importer's is lost.
LoseImporter ==
  /\ n > 1
  /\ rooted[n]
  /\ meta' = Append(Outer(Outer(meta)), meta[n])
  /\ rooted' = Outer(rooted)
  /\ walled' = Append(Outer(Outer(walled)), TRUE)

\* zip puts its results in the place of the top stack, in which a module may
\* have failed since zip began: `.` reaches the stack below again.
EndZip ==
  /\ TopChanges
  /\ ~rooted[n]
  /\ walled' = [walled EXCEPT ![n] = FALSE]
  /\ UNCHANGED rooted

Next ==
  \/ Work \/ EndZip
  \/ \E root \in BOOLEAN : BeginStack(root)
  \/ EndGroup \/ DropStack \/ LoseImporter
  \/ \E m \in 0 .. (IF n > 1 THEN Len(meta[n - 1]) ELSE 0) : Dot(m)

Spec == Init /\ [][Next]_vars
=============================================================================

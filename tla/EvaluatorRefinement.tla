------------------------ MODULE EvaluatorRefinement ------------------------
(***************************************************************************)
(* The evaluator, with its pointers and its pool, implements the stack of  *)
(* stacks: the stacks the C functions have saved, outermost first, and     *)
(* then vm->stack.                                                         *)
(***************************************************************************)
EXTENDS Evaluator

\* The stacks the first m of the frames F have interrupted, and whether each has
\* done so for a module.
Saved(F, m) ==
  LET saved[j \in 0 .. m] ==
        IF j = 0 THEN <<>>
        ELSE IF F[j].kind \in {"group", "arg", "precall", "module"}
        THEN Append(saved[j - 1], [stk |-> F[j].stk, module |-> F[j].kind = "module"])
        ELSE saved[j - 1]
  IN saved[m]

Interrupted == Saved(frames, Len(frames))
Levels == Len(Interrupted) + 1
Level(k) == IF k < Levels THEN Interrupted[k].stk ELSE stack

Metastack == [k \in 1 .. Levels |-> heap[Level(k)].values]
Rooted == [k \in 1 .. Levels |-> k = 1 \/ Interrupted[k - 1].module]
Walled == [k \in 1 .. Levels |-> heap[Level(k)].previous = NoStack]

Meta == INSTANCE StackOfStacks WITH
  meta <- Metastack, rooted <- Rooted, walled <- Walled

\* Stacks that are recycled, linked by pointers that change meaning in the
\* pool, and buffers that are swapped behave as the documented stack of
\* stacks: only the top stack and, for `.`, the one below it change, nothing
\* is lost, duplicated or reordered on the way, over every nesting of groups,
\* calls, loops, modules and caught failures.
ImplementsStackOfStacks == Meta!Spec
=============================================================================

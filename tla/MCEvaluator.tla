---------------------------- MODULE MCEvaluator ----------------------------
(* Evaluator on small sets of stacks, contexts and values, for TLC.        *)
EXTENDS EvaluatorRefinement

\* What a step can depend on, with stacks and contexts renamed by the order in
\* which the C stack, vm and the pool refer to them: addresses never matter,
\* nor do the contents of what is pooled or garbage.
Depth == Len(frames)

StackAt[k \in 1 .. Depth + 1 + Cardinality(Stack)] ==
  IF k <= Depth THEN frames[k].stk
  ELSE IF k = Depth + 1 THEN stack
  ELSE IF k = Depth + 2 THEN pool
  ELSE LET s == StackAt[k - 1] IN IF s = NoStack THEN NoStack ELSE heap[s].previous

ContextAt == [k \in 1 .. 2 * Depth + 1 |->
  IF k <= Depth THEN frames[k].ctx
  ELSE IF k <= 2 * Depth THEN frames[k - Depth].own
  ELSE context]

\* Every element as the first place it is referred from.
Renamed(refs) ==
  [x \in Range(refs) |-> CHOOSE k \in DOMAIN refs :
     refs[k] = x /\ \A l \in DOMAIN refs : refs[l] = x => k <= l]

View ==
  LET at   == [k \in DOMAIN StackAt |-> StackAt[k]]
      st   == Renamed(at) @@ (NoStack :> 0)
      home == ContextAt
      ctx  == Renamed(home)
  IN <<control,
       [k \in DOMAIN frames |-> <<frames[k].kind, frames[k].i>>],
       [k \in DOMAIN at |->
          LET s == at[k] IN
          IF s = NoStack THEN <<>>
          ELSE IF heap[s].status = "pooled" THEN <<st[s], heap[s].big>>
          ELSE <<st[s], IF heap[s].previous \in DOMAIN st THEN st[heap[s].previous] ELSE 0,
                 heap[s].values, heap[s].big, heap[s].status>>],
       [k \in DOMAIN home |-> <<ctx[home[k]], home[k] \in locked>>]>>

\* Values are only ever moved.
Symmetry == Permutations(Value)

\* The values on the stacks that a frame or the program is working on.
AliveValues ==
  heap[stack].values \o FlattenSeq([k \in DOMAIN frames |->
    IF frames[k].stk = NoStack THEN <<>> ELSE heap[frames[k].stk].values])

\* A bound of TLC's: with as many frames as there may be, one value at most.
Deep == Len(frames) = MaxFrames => Len(AliveValues) <= 1
=============================================================================

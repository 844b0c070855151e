------------------------------- MODULE Stacks -------------------------------
(***************************************************************************)
(* The value stacks of the interpreter and the pool they are recycled      *)
(* through, src/src/stack.c.  A Stack has a buffer of values and a pointer *)
(* `previous`, which links the metastack while the stack is in use and the *)
(* pool once it has been released: whoever still follows the pointer of a  *)
(* released stack walks into the pool.                                     *)
(*                                                                         *)
(* A buffer's capacity only matters to Stack_release, which keeps stacks   *)
(* whose capacity is at most 64.  Capacities are powers of two that never  *)
(* shrink, so the model keeps whether the buffer has ever had to hold more *)
(* than PooledMax values.                                                  *)
(***************************************************************************)
EXTENDS Naturals, Sequences, FiniteSets

CONSTANTS
  Stack,     \* identities of stacks (addresses of Stack structs)
  NoStack,   \* the NULL stack
  Value,     \* values
  PooledMax  \* the capacity above which a released stack is freed

ASSUME StacksAssumption ==
  /\ NoStack \notin Stack
  /\ Stack # {}
  /\ PooledMax \in Nat

VARIABLES
  heap,      \* heap[s]: the struct at s, and whether it is "used", "pooled" or
             \* "gone" (not allocated, or freed)
  pool       \* stackPooled

StackType == [values : Seq(Value), previous : Stack \cup {NoStack},
              big : BOOLEAN, status : {"used", "pooled", "gone"}]

NewStack(prev) ==
  [values |-> <<>>, previous |-> prev, big |-> FALSE, status |-> "used"]

\* What the program can still reach or recycle; the rest is the collector's.
Garbage(held) == {s \in Stack \ held : heap[s].status # "pooled"}

-----------------------------------------------------------------------------
(* The functions that write a buffer, as functions of the heap.            *)

\* The buffer of s has to hold n values from now on (Stack_reserve).
Reserve(h, s, n) == [h EXCEPT ![s].big = @ \/ n > PooledMax]

Write(h, s, values) ==
  Reserve([h EXCEPT ![s].values = values], s, Len(values))

Stack_push(h, s, v) == Write(h, s, Append(h[s].values, v))

\* s without its top n values
Drop(h, s, n) ==
  [h EXCEPT ![s].values = SubSeq(@, 1, Len(@) - n)]

Top(h, s, n) ==
  LET vs == h[s].values IN SubSeq(vs, Len(vs) - n + 1, Len(vs))

\* Swaps buffers whenever all of `from` goes, whatever `to` holds.
Stack_moveAlwaysSwaps(h, from, to, n) ==
  IF Len(h[from].values) = n
  THEN [h EXCEPT ![from].values = h[to].values, ![from].big = h[to].big,
                 ![to].values = h[from].values, ![to].big = h[from].big]
  ELSE Write(Drop(h, from, n), to, h[to].values \o Top(h, from, n))

\* Moves the top n values of `from` onto `to`, in their order; when `to` is
\* empty and all of `from` goes the two stacks swap their buffers instead.
Stack_move(h, from, to, n) ==
  IF h[to].values = <<>> /\ Len(h[from].values) = n
  THEN [h EXCEPT ![from].values = <<>>, ![from].big = h[to].big,
                 ![to].values = h[from].values, ![to].big = h[from].big]
  ELSE Write(Drop(h, from, n), to, h[to].values \o Top(h, from, n))

MoveAll(h, from, to) == Stack_move(h, from, to, Len(h[from].values))
-----------------------------------------------------------------------------
(* The pool                                                                *)

\* The stack Stack_acquire returns when the program holds `held`: the head of
\* the pool, or a struct the collector hands out (none when the bound on the
\* number of stacks is reached).
Acquirable(held) ==
  IF pool # NoStack THEN {pool}
  ELSE IF Garbage(held) = {} THEN {} ELSE {CHOOSE s \in Garbage(held) : TRUE}

\* Hands out the head of the pool but leaves the pool as it was.
Stack_acquireKept(s, prev, h) ==
  /\ heap' = [h EXCEPT ![s] = IF pool # NoStack
                              THEN [@ EXCEPT !.values = <<>>, !.previous = prev,
                                             !.status = "used"]
                              ELSE NewStack(prev)]
  /\ UNCHANGED pool

\* Hands out a stack of the pool without setting its `previous`.
Stack_acquireStale(s, prev, h) ==
  /\ heap' = [h EXCEPT ![s] = IF pool # NoStack
                              THEN [@ EXCEPT !.values = <<>>, !.status = "used"]
                              ELSE NewStack(prev)]
  /\ pool' = IF pool # NoStack THEN heap[pool].previous ELSE pool

\* A pooled stack keeps its buffer and its capacity.  h is the heap the
\* caller has made of `heap` in the same step.
Stack_acquire(s, prev, h) ==
  /\ heap' = [h EXCEPT ![s] = IF pool # NoStack
                              THEN [@ EXCEPT !.values = <<>>, !.previous = prev,
                                             !.status = "used"]
                              ELSE NewStack(prev)]
  /\ pool' = IF pool # NoStack THEN heap[pool].previous ELSE pool

\* Pools every stack, however large its buffer.
Stack_releaseAll(s, h) ==
  /\ heap' = [h EXCEPT ![s].previous = pool, ![s].status = "pooled"]
  /\ pool' = s

Stack_release(s, h) ==
  IF h[s].big
  THEN /\ heap' = [h EXCEPT ![s].status = "gone"]
       /\ UNCHANGED pool
  ELSE /\ heap' = [h EXCEPT ![s].previous = pool, ![s].status = "pooled"]
       /\ pool' = s

=============================================================================

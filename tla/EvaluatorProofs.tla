-------------------------- MODULE EvaluatorProofs --------------------------
(***************************************************************************)
(* Proofs about the evaluator, for any C stack, any number of stacks and   *)
(* contexts and any program: a stack has one owner until it is released,   *)
(* `.` never looks beyond the innermost group, what map and filter iterate *)
(* over stays as it is, failures unwind in order, every node runs in the   *)
(* context of its body, and the whole implements the stack of stacks.      *)
(*                                                                         *)
(* The lemmas of the first part are about a heap H with the pool's head P, *)
(* the current stack S and the first n frames F, and about H2, P2, S2, F2  *)
(* and n2 after a step.  The second part is about the current context, the *)
(* third about the refinement.                                             *)
(***************************************************************************)
EXTENDS EvaluatorRefinement, SequenceTheorems, Induction

GroupKinds == {"group", "arg", "precall", "module"}
OwnerKinds == GroupKinds \cup {"map", "filter", "zip"}

FrameOK(f) ==
  /\ f \in Frame
  /\ f.stk # NoStack <=> f.kind \in OwnerKinds
  /\ f.kind \in {"object", "call", "module"} => f.ctx \in Context /\ f.own \in Context
  /\ f.kind = "repl" => f.own \in Context

FramesOK(F, n) ==
  /\ n \in Nat \ {0}
  /\ \A j \in 1 .. n : FrameOK(F[j]) /\ (F[j].kind = "repl" <=> j = 1)

HeapOK(H, P) ==
  /\ H \in [Stack -> StackType]
  /\ P \in Stack \cup {NoStack}
  /\ \A s \in Stack : H[s].status = "pooled" => ~H[s].big

\* The pool is a chain of pooled stacks in which none occurs twice.
Chained(H, P) ==
  /\ P # NoStack => H[P].status = "pooled"
  /\ \A s \in Stack : H[s].status = "pooled" /\ H[s].previous # NoStack =>
       H[H[s].previous].status = "pooled" /\ H[s].previous # P
  /\ \A s, t \in Stack : /\ H[s].status = "pooled" /\ H[t].status = "pooled"
                         /\ H[s].previous = H[t].previous /\ H[s].previous # NoStack
                         => s = t

Owned(H, S, F, n) ==
  /\ S \in Stack
  /\ H[S].status = "used"
  /\ \A j \in 1 .. n : F[j].stk # NoStack =>
       H[F[j].stk].status = "used" /\ F[j].stk # S
  /\ \A j, k \in 1 .. n : F[j].stk = F[k].stk /\ F[j].stk # NoStack => j = k

\* p is no stack, or the one the innermost of the first m frames that is a
\* group has interrupted.
Linked(p, F, m) ==
  \/ p = NoStack
  \/ \E j \in 1 .. m : /\ F[j].kind \in GroupKinds \ {"module"}
                       /\ F[j].stk = p
                       /\ \A k \in j + 1 .. m : F[k].kind \notin GroupKinds

\* What current and interrupted stacks point to.  A stack taken by map or
\* filter is never current again.
Links(H, S, F, n) ==
  /\ Linked(H[S].previous, F, n)
  /\ \A j \in 1 .. n : F[j].kind \in GroupKinds \cup {"zip"} =>
       Linked(H[F[j].stk].previous, F, j - 1)

StackInv(H, P, S, F, n) ==
  /\ FramesOK(F, n)
  /\ HeapOK(H, P)
  /\ Chained(H, P)
  /\ Owned(H, S, F, n)
  /\ Links(H, S, F, n)
-----------------------------------------------------------------------------
(* Frames                                                                  *)

Pushed(F, n, F2, n2, f) == n2 = n + 1 /\ F2[n2] = f /\ \A j \in 1 .. n : F2[j] = F[j]
Popped(F, n, F2, n2)    == n2 = n - 1 /\ \A j \in 1 .. n2 : F2[j] = F[j]
Swapped(F, n, F2, n2, f) == n2 = n /\ F2[n] = f /\ \A j \in 1 .. n - 1 : F2[j] = F[j]

LEMMA PushedOK ==
  ASSUME NEW n, NEW F, FramesOK(F, n), NEW f, FrameOK(f), f.kind # "repl",
         NEW F2, NEW n2, Pushed(F, n, F2, n2, f)
  PROVE  FramesOK(F2, n2)
<1>1. n2 \in Nat \ {0} /\ n2 # 1
  BY DEF FramesOK, Pushed
<1>2. ASSUME NEW j \in 1 .. n2
      PROVE  FrameOK(F2[j]) /\ (F2[j].kind = "repl" <=> j = 1)
  <2>1. CASE j = n2
    BY <1>1, <2>1 DEF Pushed
  <2>2. CASE j # n2
    <3>1. j \in 1 .. n
      BY <1>2, <2>2 DEF Pushed, FramesOK
    <3>2. F2[j] = F[j]
      BY <3>1 DEF Pushed
    <3>3. QED
      BY <3>1, <3>2 DEF FramesOK
  <2>3. QED
    BY <2>1, <2>2
<1>3. QED
  BY <1>1, <1>2 DEF FramesOK

LEMMA PoppedOK ==
  ASSUME NEW n, NEW F, FramesOK(F, n), F[n].kind # "repl",
         NEW F2, NEW n2, Popped(F, n, F2, n2)
  PROVE  FramesOK(F2, n2)
<1>1. n # 1
  BY DEF FramesOK
<1>2. n2 \in Nat \ {0}
  BY <1>1 DEF FramesOK, Popped
<1>3. ASSUME NEW j \in 1 .. n2
      PROVE  FrameOK(F2[j]) /\ (F2[j].kind = "repl" <=> j = 1)
  <2>1. j \in 1 .. n /\ F2[j] = F[j]
    BY <1>2, <1>3 DEF Popped, FramesOK
  <2>2. QED
    BY <2>1 DEF FramesOK
<1>4. QED
  BY <1>2, <1>3 DEF FramesOK

LEMMA SwappedOK ==
  ASSUME NEW n, NEW F, FramesOK(F, n), NEW f, FrameOK(f),
         f.kind = "repl" <=> F[n].kind = "repl",
         NEW F2, NEW n2, Swapped(F, n, F2, n2, f)
  PROVE  FramesOK(F2, n2)
<1>1. n \in Nat \ {0} /\ n2 = n /\ n \in 1 .. n
  BY DEF FramesOK, Swapped
<1>2. ASSUME NEW j \in 1 .. n
      PROVE  FrameOK(F2[j]) /\ (F2[j].kind = "repl" <=> j = 1)
  <2>1. CASE j = n
    BY <1>1, <2>1 DEF Swapped, FramesOK
  <2>2. CASE j # n
    <3>1. j \in 1 .. n - 1
      BY <1>1, <1>2, <2>2
    <3>2. F2[j] = F[j]
      BY <3>1 DEF Swapped
    <3>3. QED
      BY <1>2, <3>2 DEF FramesOK
  <2>3. QED
    BY <2>1, <2>2
<1>3. QED
  BY <1>1, <1>2 DEF FramesOK

LEMMA LinkedSame ==
  ASSUME NEW p, NEW m \in Nat, NEW F, NEW F2, Linked(p, F, m),
         \A j \in 1 .. m : /\ F2[j].stk = F[j].stk
                           /\ F2[j].kind \in GroupKinds <=> F[j].kind \in GroupKinds
                           /\ F2[j].kind = "module" <=> F[j].kind = "module"
  PROVE  Linked(p, F2, m)
<1>1. CASE p = NoStack
  BY <1>1 DEF Linked
<1>2. CASE p # NoStack
  <2>1. PICK j \in 1 .. m : /\ F[j].kind \in GroupKinds \ {"module"}
                            /\ F[j].stk = p
                            /\ \A k \in j + 1 .. m : F[k].kind \notin GroupKinds
    BY <1>2 DEF Linked
  <2>2. /\ F2[j].kind \in GroupKinds \ {"module"}
        /\ F2[j].stk = p
    BY <2>1
  <2>3. \A k \in j + 1 .. m : F2[k].kind \notin GroupKinds
    BY <2>1
  <2>4. QED
    BY <2>2, <2>3 DEF Linked
<1>3. QED
  BY <1>1, <1>2

LEMMA LinkedUp ==
  ASSUME NEW p, NEW m \in Nat, NEW F, F[m + 1].kind \notin GroupKinds
  PROVE  Linked(p, F, m) <=> Linked(p, F, m + 1)
<1>1. \A j \in 1 .. m + 1 : F[j].kind \in GroupKinds => j \in 1 .. m
  OBVIOUS
<1>2. ASSUME NEW j \in 1 .. m
      PROVE  (\A k \in j + 1 .. m : F[k].kind \notin GroupKinds) <=>
             (\A k \in j + 1 .. m + 1 : F[k].kind \notin GroupKinds)
  OBVIOUS
<1>3. QED
  BY <1>1, <1>2 DEF Linked

LEMMA LinkedTop ==
  ASSUME NEW m \in Nat \ {0}, NEW F, F[m].kind \in GroupKinds \ {"module"}
  PROVE  Linked(F[m].stk, F, m)
BY DEF Linked

LEMMA LinkedModule ==
  ASSUME NEW m \in Nat \ {0}, NEW F, F[m].kind = "module", NEW p, Linked(p, F, m)
  PROVE  p = NoStack
<1>1. ASSUME NEW j \in 1 .. m, F[j].kind # "module",
             \A k \in j + 1 .. m : F[k].kind \notin GroupKinds
      PROVE  FALSE
  <2>1. m \in j + 1 .. m
    BY <1>1
  <2>2. QED
    BY <1>1, <2>1 DEF GroupKinds
<1>2. QED
  BY <1>1 DEF Linked
-----------------------------------------------------------------------------
(* Heaps                                                                   *)

\* H2 differs from H in the values of W, which are in use.
Worked(H, H2, W) ==
  /\ H2 \in [Stack -> StackType]
  /\ \A s \in W : s \in Stack /\ H[s].status = "used"
  /\ \A s \in Stack : /\ H2[s].status = H[s].status
                      /\ H2[s].previous = H[s].previous
                      /\ s \notin W => H2[s] = H[s]

LEMMA WorkedOK ==
  ASSUME NEW H, NEW H2, NEW P, NEW W, HeapOK(H, P), Chained(H, P), Worked(H, H2, W)
  PROVE  HeapOK(H2, P) /\ Chained(H2, P)
<1>1. \A s \in Stack : H2[s].status = "pooled" => H2[s] = H[s]
  BY DEF Worked
<1>2. HeapOK(H2, P)
  BY <1>1 DEF HeapOK, Worked
<1>3. \A s \in Stack : H[s].previous \in Stack \cup {NoStack}
  BY DEF HeapOK, StackType
<1>4. Chained(H2, P)
  BY <1>1, <1>3 DEF Chained, Worked, HeapOK
<1>5. QED
  BY <1>2, <1>4

\* s is taken from the pool, or from the collector.
Acquired(H, P, s, prev, H2, P2) ==
  /\ s \in Stack
  /\ IF P = NoStack THEN H[s].status # "pooled" ELSE s = P
  /\ H2 = [H EXCEPT ![s] = IF P # NoStack
                           THEN [@ EXCEPT !.values = <<>>, !.previous = prev,
                                          !.status = "used"]
                           ELSE NewStack(prev)]
  /\ P2 = IF P # NoStack THEN H[P].previous ELSE P

LEMMA AcquiredOK ==
  ASSUME NEW H, NEW P, NEW s, NEW prev \in Stack \cup {NoStack}, NEW H2, NEW P2,
         HeapOK(H, P), Chained(H, P), Acquired(H, P, s, prev, H2, P2)
  PROVE  /\ HeapOK(H2, P2)
         /\ Chained(H2, P2)
         /\ H2[s].status = "used" /\ H2[s].previous = prev
         /\ \A t \in Stack \ {s} : H2[t] = H[t]
<1> USE StacksAssumption
<1>1. s \in Stack /\ H[s] \in StackType
  BY DEF Acquired, HeapOK
<1>2. H2[s] \in StackType /\ H2[s].status = "used" /\ H2[s].previous = prev
  <2>1. <<>> \in Seq(Value)
    BY EmptySeq
  <2>2. CASE P = NoStack
    BY <1>1, <2>1, <2>2 DEF Acquired, NewStack, StackType, HeapOK
  <2>3. CASE P # NoStack
    BY <1>1, <2>1, <2>3 DEF Acquired, StackType, HeapOK
  <2>4. QED
    BY <2>2, <2>3
<1>3. \A t \in Stack \ {s} : H2[t] = H[t]
  BY DEF Acquired, HeapOK
<1>4. \A t \in Stack : H[t].previous \in Stack \cup {NoStack}
  BY DEF HeapOK, StackType
<1>5. H2 \in [Stack -> StackType]
  BY <1>2, <1>3 DEF Acquired, HeapOK
<1>6. HeapOK(H2, P2)
  BY <1>2, <1>3, <1>4, <1>5 DEF HeapOK, Acquired
<1>7. \A t \in Stack : H2[t].status = "pooled" => t # s /\ H[t].status = "pooled"
  BY <1>2, <1>3
<1>8. Chained(H2, P2)
  <2>1. CASE P = NoStack
    BY <1>1, <1>3, <1>4, <1>7, <2>1 DEF Chained, Acquired
  <2>2. CASE P # NoStack
    <3>1. s = P /\ P2 = H[s].previous /\ H[s].status = "pooled"
      BY <2>2 DEF Chained, Acquired
    <3>2. P2 # NoStack => P2 # s /\ H2[P2].status = "pooled"
      BY <1>1, <1>3, <1>4, <3>1 DEF Chained
    <3>3. \A t \in Stack : H2[t].status = "pooled" /\ H2[t].previous # NoStack =>
            H2[H2[t].previous].status = "pooled" /\ H2[t].previous # P2
      BY <1>1, <1>3, <1>4, <1>7, <3>1 DEF Chained
    <3>4. QED
      BY <1>3, <1>7, <3>2, <3>3 DEF Chained
  <2>3. QED
    BY <2>1, <2>2
<1>9. QED
  BY <1>2, <1>3, <1>6, <1>8

\* s, in use until now, goes to the pool or is freed.
Released(H, P, s, H2, P2) ==
  IF H[s].big
  THEN H2 = [H EXCEPT ![s].status = "gone"] /\ P2 = P
  ELSE H2 = [H EXCEPT ![s].previous = P, ![s].status = "pooled"] /\ P2 = s

LEMMA ReleasedOK ==
  ASSUME NEW H, NEW P, NEW s \in Stack, NEW H2, NEW P2,
         HeapOK(H, P), Chained(H, P), H[s].status = "used", Released(H, P, s, H2, P2)
  PROVE  /\ HeapOK(H2, P2)
         /\ Chained(H2, P2)
         /\ \A t \in Stack \ {s} : H2[t] = H[t]
<1> USE StacksAssumption
<1>1. H[s] \in StackType
  BY DEF HeapOK
<1>2. \A t \in Stack \ {s} : H2[t] = H[t]
  BY DEF Released, HeapOK
<1>3. \A t \in Stack : H[t].previous \in Stack \cup {NoStack}
  BY DEF HeapOK, StackType
<1>4. CASE H[s].big
  <2>1. H2[s] \in StackType /\ H2[s].status = "gone" /\ P2 = P
    BY <1>1, <1>4 DEF Released, HeapOK, StackType
  <2>2. H2 \in [Stack -> StackType]
    BY <1>2, <1>4, <2>1 DEF Released, HeapOK
  <2>3. HeapOK(H2, P2)
    BY <1>2, <2>1, <2>2 DEF HeapOK
  <2>4. P # s
    BY DEF Chained
  <2>5. Chained(H2, P2)
    BY <1>2, <1>3, <2>1, <2>4 DEF Chained, HeapOK
  <2>6. QED
    BY <1>2, <2>3, <2>5
<1>5. CASE ~H[s].big
  <2>1. /\ H2[s] \in StackType
        /\ H2[s].status = "pooled" /\ H2[s].previous = P /\ ~H2[s].big
        /\ P2 = s
    BY <1>1, <1>5 DEF Released, HeapOK, StackType
  <2>2. H2 \in [Stack -> StackType]
    BY <1>2, <1>5, <2>1 DEF Released, HeapOK
  <2>3. HeapOK(H2, P2)
    BY <1>2, <2>1, <2>2 DEF HeapOK
  <2>4. \A t \in Stack : H[t].status = "pooled" => H[t].previous # s /\ t # s
    BY DEF Chained
  <2>5. P # NoStack => P # s /\ P \in Stack /\ H2[P].status = "pooled"
    BY <1>2 DEF Chained, HeapOK
  <2>6. \A t \in Stack : H2[t].status = "pooled" /\ H2[t].previous # NoStack =>
          H2[H2[t].previous].status = "pooled" /\ H2[t].previous # P2
    BY <1>2, <1>3, <2>1, <2>4, <2>5 DEF Chained
  <2>7. \A t, u \in Stack : /\ H2[t].status = "pooled" /\ H2[u].status = "pooled"
                            /\ H2[t].previous = H2[u].previous /\ H2[t].previous # NoStack
                            => t = u
    BY <1>2, <2>1 DEF Chained
  <2>8. QED
    BY <1>2, <2>1, <2>3, <2>6, <2>7 DEF Chained
<1>6. QED
  BY <1>4, <1>5
-----------------------------------------------------------------------------
(* The kinds of step                                                       *)

\* The last frame is pushed, changed or popped, with no stack of its own or the
\* one it had; and the current stack stays.
Fits(F, n, F2, n2) ==
  \/ \E f : Pushed(F, n, F2, n2, f) /\ f.stk = NoStack
  \/ Popped(F, n, F2, n2) /\ (F[n].kind \in GroupKinds => F[n].kind = "module")
  \/ \E f : /\ Swapped(F, n, F2, n2, f)
            /\ f.stk = F[n].stk
            /\ f.kind \in GroupKinds <=> F[n].kind \in GroupKinds
            /\ f.kind = "module" <=> F[n].kind = "module"
            /\ f.kind = "zip" <=> F[n].kind = "zip"

LEMMA WorkStep ==
  ASSUME NEW H, NEW P, NEW S, NEW F, NEW n, StackInv(H, P, S, F, n),
         NEW H2, NEW W, Worked(H, H2, W),
         NEW F2, NEW n2, FramesOK(F2, n2), Fits(F, n, F2, n2)
  PROVE  StackInv(H2, P, S, F2, n2)
<1>0. n \in Nat \ {0} /\ n2 \in Nat \ {0}
  BY DEF StackInv, FramesOK
<1>1. HeapOK(H2, P) /\ Chained(H2, P)
  BY WorkedOK DEF StackInv
<1>2. /\ n2 \in {n - 1, n, n + 1}
      /\ \A j \in 1 .. n2 - 1 : F2[j] = F[j]
      /\ \A j \in 1 .. n2 : F2[j].stk # NoStack =>
           /\ j \in 1 .. n
           /\ F2[j].stk = F[j].stk
           /\ F2[j].kind = "zip" <=> F[j].kind = "zip"
           /\ F2[j].kind \in GroupKinds <=> F[j].kind \in GroupKinds
  BY <1>0 DEF Fits, Pushed, Popped, Swapped
<1>3. \A j \in 1 .. n : F[j].stk # NoStack => F[j].stk \in Stack
  BY DEF StackInv, FramesOK, FrameOK, Frame
<1>4. Owned(H2, S, F2, n2)
  <2>1. S \in Stack /\ H2[S].status = "used"
    BY DEF StackInv, Owned, Worked
  <2>2. ASSUME NEW j \in 1 .. n2, F2[j].stk # NoStack
        PROVE  H2[F2[j].stk].status = "used" /\ F2[j].stk # S
    BY <1>2, <1>3, <2>2 DEF StackInv, Owned, Worked
  <2>3. ASSUME NEW j \in 1 .. n2, NEW k \in 1 .. n2, F2[j].stk = F2[k].stk, F2[j].stk # NoStack
        PROVE  j = k
    BY <1>2, <2>3 DEF StackInv, Owned
  <2>4. QED
    BY <2>1, <2>2, <2>3 DEF Owned
<1>5. Linked(H[S].previous, F2, n2)
  <2>0. Linked(H[S].previous, F, n)
    BY DEF StackInv, Links
  <2>1. ASSUME NEW f, Pushed(F, n, F2, n2, f), f.stk = NoStack
        PROVE  Linked(H[S].previous, F2, n2)
    <3>1. Linked(H[S].previous, F2, n)
      BY <1>0, <2>0, <2>1, LinkedSame DEF Pushed
    <3>2. n2 = n + 1 /\ F2[n + 1].kind \notin GroupKinds
      BY <1>0, <2>1 DEF Pushed, FramesOK, FrameOK, OwnerKinds
    <3>3. QED
      BY <1>0, <3>1, <3>2, LinkedUp
  <2>2. CASE Popped(F, n, F2, n2) /\ (F[n].kind \in GroupKinds => F[n].kind = "module")
    <3>1. CASE F[n].kind = "module"
      <4>1. H[S].previous = NoStack
        BY <1>0, <2>0, <3>1, LinkedModule
      <4>2. QED
        BY <4>1 DEF Linked
    <3>2. CASE F[n].kind \notin GroupKinds
      <4>1. n2 = n - 1 /\ n2 + 1 = n
        BY <1>0, <2>2 DEF Popped
      <4>2. Linked(H[S].previous, F, n2)
        BY <1>0, <2>0, <3>2, <4>1, LinkedUp
      <4>3. QED
        BY <1>0, <2>2, <4>2, LinkedSame DEF Popped
    <3>3. QED
      BY <2>2, <3>1, <3>2
  <2>3. ASSUME NEW f, Swapped(F, n, F2, n2, f), f.stk = F[n].stk,
               f.kind \in GroupKinds <=> F[n].kind \in GroupKinds,
               f.kind = "module" <=> F[n].kind = "module"
        PROVE  Linked(H[S].previous, F2, n2)
    <3>1. \A j \in 1 .. n : /\ F2[j].stk = F[j].stk
                            /\ F2[j].kind \in GroupKinds <=> F[j].kind \in GroupKinds
                            /\ F2[j].kind = "module" <=> F[j].kind = "module"
      BY <1>0, <2>3 DEF Swapped
    <3>2. QED
      BY <1>0, <2>0, <2>3, <3>1, LinkedSame DEF Swapped
  <2>4. QED
    BY <2>1, <2>2, <2>3 DEF Fits
<1>6. ASSUME NEW j \in 1 .. n2, F2[j].kind \in GroupKinds \cup {"zip"}
      PROVE  Linked(H2[F2[j].stk].previous, F2, j - 1)
  <2>1. F2[j].stk # NoStack
    BY <1>6 DEF FramesOK, FrameOK, OwnerKinds
  <2>2. j \in 1 .. n /\ F2[j].stk = F[j].stk /\ F[j].kind \in GroupKinds \cup {"zip"}
    BY <1>2, <1>6, <2>1
  <2>3. Linked(H[F[j].stk].previous, F, j - 1)
    BY <2>2 DEF StackInv, Links
  <2>4. j - 1 \in Nat /\ \A k \in 1 .. j - 1 : F2[k] = F[k]
    BY <1>0, <1>2
  <2>5. Linked(H[F[j].stk].previous, F2, j - 1)
    BY <2>3, <2>4, LinkedSame
  <2>6. H2[F2[j].stk].previous = H[F[j].stk].previous
    BY <1>3, <2>1, <2>2 DEF Worked
  <2>7. QED
    BY <2>5, <2>6
<1>7. Links(H2, S, F2, n2)
  <2>1. H2[S].previous = H[S].previous
    BY DEF Worked, StackInv, Owned
  <2>2. QED
    BY <1>5, <1>6, <2>1 DEF Links
<1>8. QED
  BY <1>1, <1>4, <1>7 DEF StackInv

\* The stacks of the first n frames, and the current one.
HeldBy(S, F, n) == {S} \cup {F[j].stk : j \in 1 .. n}

\* A new stack s becomes current; the frame that is pushed keeps the old one.
LEMMA EnterStep ==
  ASSUME NEW H, NEW P, NEW S, NEW F, NEW n, StackInv(H, P, S, F, n),
         NEW s, NEW prev \in Stack \cup {NoStack}, NEW H2, NEW P2,
         Acquired(H, P, s, prev, H2, P2), s \notin HeldBy(S, F, n),
         NEW F2, NEW n2, NEW f, FramesOK(F2, n2), Pushed(F, n, F2, n2, f),
         f.stk = S, Linked(prev, F2, n2)
  PROVE  StackInv(H2, P2, s, F2, n2)
<1>0. n \in Nat \ {0} /\ n2 \in Nat \ {0} /\ s \in Stack /\ S \in Stack /\ NoStack \notin Stack
  BY StacksAssumption DEF StackInv, FramesOK, Acquired, Owned
<1>1. /\ HeapOK(H2, P2) /\ Chained(H2, P2)
      /\ H2[s].status = "used" /\ H2[s].previous = prev
      /\ \A t \in Stack \ {s} : H2[t] = H[t]
  BY AcquiredOK DEF StackInv
<1>2. n2 = n + 1 /\ F2[n2].stk = S /\ \A j \in 1 .. n : F2[j] = F[j]
  BY DEF Pushed
<1>3. \A j \in 1 .. n : F[j].stk # s /\ (F[j].stk # NoStack => F[j].stk \in Stack)
  BY DEF StackInv, FramesOK, FrameOK, Frame, HeldBy
<1>4. S # s
  BY DEF HeldBy
<1>5. Owned(H2, s, F2, n2)
  <2>1. ASSUME NEW j \in 1 .. n2, F2[j].stk # NoStack
        PROVE  H2[F2[j].stk].status = "used" /\ F2[j].stk # s
    <3>1. CASE j = n2
      BY <1>0, <1>1, <1>2, <1>4, <3>1 DEF StackInv, Owned
    <3>2. CASE j # n2
      <4>1. j \in 1 .. n
        BY <1>0, <1>2, <3>2
      <4>2. QED
        BY <1>1, <1>2, <1>3, <2>1, <4>1 DEF StackInv, Owned
    <3>3. QED
      BY <3>1, <3>2
  <2>2. ASSUME NEW j \in 1 .. n2, NEW k \in 1 .. n2, F2[j].stk = F2[k].stk, F2[j].stk # NoStack
        PROVE  j = k
    <3>1. \A i \in 1 .. n2 : i = n2 \/ i \in 1 .. n
      BY <1>0, <1>2
    <3>2. \A i \in 1 .. n : F[i].stk # S
      BY <1>0 DEF StackInv, Owned
    <3>3. QED
      BY <1>2, <2>2, <3>1, <3>2 DEF StackInv, Owned
  <2>3. QED
    BY <1>0, <1>1, <2>1, <2>2 DEF Owned
<1>6. ASSUME NEW j \in 1 .. n2, F2[j].kind \in GroupKinds \cup {"zip"}
      PROVE  Linked(H2[F2[j].stk].previous, F2, j - 1)
  <2>0. \A m \in 0 .. n : \A p : Linked(p, F, m) => Linked(p, F2, m)
    BY <1>0, <1>2, LinkedSame
  <2>1. CASE j = n2
    <3>1. Linked(H[S].previous, F2, n)
      BY <1>0, <2>0 DEF StackInv, Links
    <3>2. QED
      BY <1>0, <1>1, <1>2, <1>4, <2>1, <3>1
  <2>2. CASE j # n2
    <3>1. j \in 1 .. n /\ F2[j] = F[j]
      BY <1>0, <1>2, <2>2
    <3>2. F[j].stk \in Stack \ {s}
      BY <1>0, <1>3, <1>6, <3>1 DEF StackInv, FramesOK, FrameOK, OwnerKinds
    <3>3. Linked(H[F[j].stk].previous, F, j - 1)
      BY <1>6, <3>1 DEF StackInv, Links
    <3>4. j - 1 \in 0 .. n
      BY <1>0, <3>1
    <3>5. QED
      BY <1>1, <2>0, <3>1, <3>2, <3>3, <3>4
  <2>3. QED
    BY <2>1, <2>2
<1>7. QED
  BY <1>1, <1>5, <1>6 DEF StackInv, Links

\* zip pushes a frame with a new stack for its results.
LEMMA ZipStep ==
  ASSUME NEW H, NEW P, NEW S, NEW F, NEW n, StackInv(H, P, S, F, n),
         NEW s, NEW H2, NEW P2,
         Acquired(H, P, s, H[S].previous, H2, P2), s \notin HeldBy(S, F, n),
         NEW F2, NEW n2, NEW f, FramesOK(F2, n2), Pushed(F, n, F2, n2, f),
         f.stk = s, f.kind = "zip"
  PROVE  StackInv(H2, P2, S, F2, n2)
<1>0. n \in Nat \ {0} /\ n2 \in Nat \ {0} /\ s \in Stack /\ S \in Stack /\ NoStack \notin Stack
  BY StacksAssumption DEF StackInv, FramesOK, Acquired, Owned
<1>1. H[S].previous \in Stack \cup {NoStack}
  BY <1>0 DEF StackInv, HeapOK, StackType
<1>2. /\ HeapOK(H2, P2) /\ Chained(H2, P2)
      /\ H2[s].status = "used" /\ H2[s].previous = H[S].previous
      /\ \A t \in Stack \ {s} : H2[t] = H[t]
  <2>1. PICK prev \in Stack \cup {NoStack} : prev = H[S].previous
    BY <1>1
  <2>2. Acquired(H, P, s, prev, H2, P2) /\ HeapOK(H, P) /\ Chained(H, P)
    BY <2>1 DEF StackInv
  <2>3. /\ HeapOK(H2, P2) /\ Chained(H2, P2)
        /\ H2[s].status = "used" /\ H2[s].previous = prev
        /\ \A t \in Stack \ {s} : H2[t] = H[t]
    BY <2>2, AcquiredOK
  <2>4. QED
    BY <2>1, <2>3
<1>3. /\ n2 = n + 1 /\ F2[n2].stk = s /\ F2[n2].kind = "zip"
      /\ \A j \in 1 .. n : F2[j] = F[j]
  BY DEF Pushed
<1>4. \A j \in 1 .. n : F[j].stk # s /\ (F[j].stk # NoStack => F[j].stk \in Stack)
  BY DEF StackInv, FramesOK, FrameOK, Frame, HeldBy
<1>5. S # s
  BY DEF HeldBy
<1>6. \A i \in 1 .. n2 : i = n2 \/ i \in 1 .. n
  BY <1>0, <1>3
<1>7. Owned(H2, S, F2, n2)
  <2>1. ASSUME NEW j \in 1 .. n2, F2[j].stk # NoStack
        PROVE  H2[F2[j].stk].status = "used" /\ F2[j].stk # S
    BY <1>2, <1>3, <1>4, <1>5, <1>6, <2>1 DEF StackInv, Owned
  <2>2. ASSUME NEW j \in 1 .. n2, NEW k \in 1 .. n2, F2[j].stk = F2[k].stk, F2[j].stk # NoStack
        PROVE  j = k
    BY <1>3, <1>4, <1>6, <2>2 DEF StackInv, Owned
  <2>3. QED
    BY <1>0, <1>2, <1>5, <2>1, <2>2 DEF Owned, StackInv
<1>8. \A m \in 0 .. n : \A p : Linked(p, F, m) => Linked(p, F2, m)
  BY <1>0, <1>3, LinkedSame
<1>9. Linked(H[S].previous, F2, n)
  BY <1>0, <1>8 DEF StackInv, Links
<1>10. ASSUME NEW j \in 1 .. n2, F2[j].kind \in GroupKinds \cup {"zip"}
       PROVE  Linked(H2[F2[j].stk].previous, F2, j - 1)
  <2>1. CASE j = n2
    BY <1>0, <1>2, <1>3, <1>9, <2>1
  <2>2. CASE j # n2
    <3>1. j \in 1 .. n /\ F2[j] = F[j] /\ j - 1 \in 0 .. n
      BY <1>0, <1>3, <1>6, <2>2
    <3>2. F[j].stk \in Stack \ {s}
      BY <1>0, <1>4, <1>10, <3>1 DEF StackInv, FramesOK, FrameOK, OwnerKinds
    <3>3. Linked(H[F[j].stk].previous, F, j - 1)
      BY <1>10, <3>1 DEF StackInv, Links
    <3>4. QED
      BY <1>2, <1>8, <3>1, <3>2, <3>3
  <2>3. QED
    BY <2>1, <2>2
<1>11. Linked(H2[S].previous, F2, n2)
  <2>1. F2[n + 1].kind \notin GroupKinds
    BY <1>3 DEF GroupKinds
  <2>2. Linked(H[S].previous, F2, n2)
    BY <1>0, <1>3, <1>9, <2>1, LinkedUp
  <2>3. QED
    BY <1>0, <1>2, <1>5, <2>2
<1>12. QED
  BY <1>2, <1>7, <1>10, <1>11 DEF StackInv, Links

\* The innermost frame is left, or changed to one without a stack.
Dropped(F, n, F2, n2) ==
  \/ Popped(F, n, F2, n2)
  \/ \E f : Swapped(F, n, F2, n2, f) /\ f.stk = NoStack /\ f.kind \notin GroupKinds

\* The stack a group has interrupted, or the result of a zip, becomes current;
\* whatever happens to the one that was.
LEMMA LeaveStep ==
  ASSUME NEW H, NEW P, NEW S, NEW F, NEW n, StackInv(H, P, S, F, n),
         F[n].kind \in GroupKinds \cup {"zip"},
         NEW H2, NEW P2, HeapOK(H2, P2), Chained(H2, P2),
         \A t \in Stack \ {S} : H2[t].status = H[t].status /\ H2[t].previous = H[t].previous,
         NEW F2, NEW n2, FramesOK(F2, n2), Dropped(F, n, F2, n2)
  PROVE  StackInv(H2, P2, F[n].stk, F2, n2)
<1>0. n \in Nat \ {0} /\ n2 \in Nat \ {0} /\ S \in Stack /\ NoStack \notin Stack /\ n \in 1 .. n
  BY StacksAssumption DEF StackInv, FramesOK, Owned
<1>1. /\ n2 \in {n - 1, n}
      /\ \A j \in 1 .. n - 1 : F2[j] = F[j]
      /\ \A j \in 1 .. n2 : F2[j].stk # NoStack => j \in 1 .. n - 1
      /\ n2 = n => F2[n].kind \notin GroupKinds
  BY <1>0 DEF Dropped, Popped, Swapped
<1>2. \A j \in 1 .. n : F[j].stk # S /\ (F[j].stk # NoStack => F[j].stk \in Stack)
  BY <1>0 DEF StackInv, FramesOK, FrameOK, Frame, Owned
<1>3. F[n].stk \in Stack
  BY <1>0, <1>2 DEF StackInv, FramesOK, FrameOK, OwnerKinds
<1>4. Owned(H2, F[n].stk, F2, n2)
  <2>1. \A j \in 1 .. n - 1 : j \in 1 .. n /\ j # n
    BY <1>0
  <2>2. H2[F[n].stk].status = "used"
    BY <1>0, <1>2, <1>3 DEF StackInv, Owned
  <2>3. ASSUME NEW j \in 1 .. n2, F2[j].stk # NoStack
        PROVE  H2[F2[j].stk].status = "used" /\ F2[j].stk # F[n].stk
    BY <1>0, <1>1, <1>2, <1>3, <2>1, <2>3 DEF StackInv, Owned
  <2>4. ASSUME NEW j \in 1 .. n2, NEW k \in 1 .. n2, F2[j].stk = F2[k].stk, F2[j].stk # NoStack
        PROVE  j = k
    BY <1>1, <2>1, <2>4 DEF StackInv, Owned
  <2>5. QED
    BY <1>3, <2>2, <2>3, <2>4 DEF Owned
<1>5. \A m \in 0 .. n - 1 : \A p : Linked(p, F, m) => Linked(p, F2, m)
  BY <1>0, <1>1, LinkedSame
<1>6. Linked(H2[F[n].stk].previous, F2, n2)
  <2>1. Linked(H2[F[n].stk].previous, F2, n - 1)
    <3>1. Linked(H[F[n].stk].previous, F, n - 1)
      BY <1>0 DEF StackInv, Links
    <3>2. H2[F[n].stk].previous = H[F[n].stk].previous
      BY <1>0, <1>2, <1>3
    <3>3. n - 1 \in 0 .. n - 1
      BY <1>0
    <3>4. QED
      BY <1>5, <3>1, <3>2, <3>3
  <2>2. CASE n2 = n - 1
    BY <2>1, <2>2
  <2>3. CASE n2 = n
    <3>1. n - 1 \in Nat /\ n - 1 + 1 = n
      BY <1>0
    <3>2. QED
      BY <1>1, <2>1, <2>3, <3>1, LinkedUp
  <2>4. QED
    BY <1>1, <2>2, <2>3
<1>7. ASSUME NEW j \in 1 .. n2, F2[j].kind \in GroupKinds \cup {"zip"}
      PROVE  Linked(H2[F2[j].stk].previous, F2, j - 1)
  <2>1. F2[j].stk # NoStack
    BY <1>7 DEF FramesOK, FrameOK, OwnerKinds
  <2>2. j \in 1 .. n - 1 /\ F2[j] = F[j]
    BY <1>1, <2>1
  <2>3. j \in 1 .. n /\ j - 1 \in 0 .. n - 1
    BY <1>0, <2>2
  <2>4. Linked(H[F[j].stk].previous, F, j - 1)
    BY <1>7, <2>2, <2>3 DEF StackInv, Links
  <2>5. F[j].stk \in Stack \ {S}
    BY <1>2, <2>1, <2>2, <2>3
  <2>6. QED
    BY <1>5, <2>2, <2>3, <2>4, <2>5
<1>8. QED
  BY <1>4, <1>6, <1>7 DEF StackInv, Links

\* map or filter is over and drops the stack it has visited.
LEMMA DropStep ==
  ASSUME NEW H, NEW P, NEW S, NEW F, NEW n, StackInv(H, P, S, F, n),
         F[n].kind \in {"map", "filter"},
         NEW H2, NEW P2, HeapOK(H2, P2), Chained(H2, P2),
         \A t \in Stack \ {F[n].stk} : H2[t] = H[t],
         NEW F2, NEW n2, FramesOK(F2, n2), Popped(F, n, F2, n2)
  PROVE  StackInv(H2, P2, S, F2, n2)
<1>0. n \in Nat \ {0} /\ n2 \in Nat \ {0} /\ S \in Stack /\ NoStack \notin Stack /\ n \in 1 .. n
  BY StacksAssumption DEF StackInv, FramesOK, Owned
<1>1. /\ n2 = n - 1
      /\ \A j \in 1 .. n2 : j \in 1 .. n /\ j # n /\ F2[j] = F[j]
  BY <1>0 DEF Popped
<1>2. \A j \in 1 .. n : F[j].stk # S /\ (F[j].stk # NoStack => F[j].stk \in Stack)
  BY <1>0 DEF StackInv, FramesOK, FrameOK, Frame, Owned
<1>3. \A j \in 1 .. n2 : F[j].stk # NoStack => F[j].stk \in Stack \ {F[n].stk}
  BY <1>0, <1>1, <1>2 DEF StackInv, Owned
<1>4. H2[S] = H[S]
  BY <1>0, <1>2
<1>5. Owned(H2, S, F2, n2)
  BY <1>0, <1>1, <1>2, <1>3, <1>4 DEF StackInv, Owned
<1>6. \A m \in 0 .. n2 : \A p : Linked(p, F, m) => Linked(p, F2, m)
  BY <1>0, <1>1, LinkedSame
<1>7. Linked(H2[S].previous, F2, n2)
  <2>1. n2 \in 0 .. n2 /\ n2 + 1 = n
    BY <1>0, <1>1
  <2>2. F[n].kind \notin GroupKinds
    BY DEF GroupKinds
  <2>3. Linked(H[S].previous, F, n2)
    BY <1>0, <2>1, <2>2, LinkedUp DEF StackInv, Links
  <2>4. QED
    BY <1>4, <1>6, <2>1, <2>3
<1>8. ASSUME NEW j \in 1 .. n2, F2[j].kind \in GroupKinds \cup {"zip"}
      PROVE  Linked(H2[F2[j].stk].previous, F2, j - 1)
  <2>1. F2[j].stk # NoStack
    BY <1>8 DEF FramesOK, FrameOK, OwnerKinds
  <2>2. j \in 1 .. n /\ F2[j] = F[j] /\ j - 1 \in 0 .. n2
    BY <1>0, <1>1
  <2>3. Linked(H[F[j].stk].previous, F, j - 1)
    BY <1>8, <2>2 DEF StackInv, Links
  <2>4. H2[F[j].stk] = H[F[j].stk]
    BY <1>3, <2>1, <2>2
  <2>5. QED
    BY <1>6, <2>2, <2>3, <2>4
<1>9. QED
  BY <1>5, <1>7, <1>8 DEF StackInv, Links
-----------------------------------------------------------------------------
(* The operations on buffers                                               *)

LEMMA WriteWorks ==
  ASSUME NEW H \in [Stack -> StackType], NEW s \in Stack, H[s].status = "used",
         NEW vs \in Seq(Value)
  PROVE  Worked(H, Write(H, s, vs), {s})
<1> DEFINE G == [H EXCEPT ![s].values = vs]
<1>1. H[s] \in StackType
  OBVIOUS
<1>2. G \in [Stack -> StackType] /\ \A t \in Stack \ {s} : G[t] = H[t]
  BY <1>1 DEF StackType
<1>3. G[s].status = "used" /\ G[s].previous = H[s].previous
  BY <1>1 DEF StackType
<1> HIDE DEF G
<1>4. Write(H, s, vs) = [G EXCEPT ![s].big = @ \/ Len(vs) > PooledMax]
  BY DEF Write, Reserve, G
<1>5. G[s] \in StackType
  BY <1>2
<1> DEFINE b == G[s].big \/ Len(vs) > PooledMax
           K == [G EXCEPT ![s].big = b]
<1>6. b \in BOOLEAN
  OBVIOUS
<1>7. Write(H, s, vs) = K
  BY <1>2, <1>4
<1> HIDE DEF b
<1>8. [G[s] EXCEPT !.big = b] \in StackType
  BY <1>5, <1>6 DEF StackType
<1>9. /\ [G[s] EXCEPT !.big = b].status = G[s].status
      /\ [G[s] EXCEPT !.big = b].previous = G[s].previous
  BY <1>5 DEF StackType
<1>10. K[s] = [G[s] EXCEPT !.big = b] /\ \A t \in Stack \ {s} : K[t] = G[t]
  BY <1>2
<1>11. K \in [Stack -> StackType]
  BY <1>2, <1>8
<1> HIDE DEF K
<1>12. QED
  BY <1>2, <1>3, <1>7, <1>9, <1>10, <1>11 DEF Worked

LEMMA PartOfValues ==
  ASSUME NEW vs \in Seq(Value), NEW m \in Int, NEW n \in Int, 1 <= m, n <= Len(vs)
  PROVE  SubSeq(vs, m, n) \in Seq(Value)
<1>1. \A i \in m .. n : vs[i] \in Value
  BY ElementOfSeq
<1>2. QED
  BY <1>1, SubSeqProperties

LEMMA DropWorks ==
  ASSUME NEW H \in [Stack -> StackType], NEW s \in Stack, H[s].status = "used",
         NEW n \in Nat
  PROVE  Worked(H, Drop(H, s, n), {s})
<1>1. H[s] \in StackType /\ H[s].values \in Seq(Value)
  BY DEF StackType
<1>2. PICK vs \in Seq(Value) : vs = H[s].values
  BY <1>1
<1>3. Len(vs) \in Nat
  OBVIOUS
<1>4. PICK m \in Int : m = Len(vs) - n
  BY <1>3
<1>5. SubSeq(vs, 1, m) \in Seq(Value)
  BY <1>3, <1>4, PartOfValues
<1>6. PICK us \in Seq(Value) : us = SubSeq(vs, 1, m)
  BY <1>5
<1>7. Drop(H, s, n) = [H EXCEPT ![s].values = us]
  BY <1>2, <1>4, <1>6 DEF Drop
<1>8. QED
  BY <1>1, <1>7 DEF Worked, StackType

LEMMA PushWorks ==
  ASSUME NEW H \in [Stack -> StackType], NEW s \in Stack, H[s].status = "used",
         NEW v \in Value
  PROVE  Worked(H, Stack_push(H, s, v), {s})
<1>1. H[s].values \in Seq(Value)
  BY DEF StackType
<1>2. Append(H[s].values, v) \in Seq(Value)
  BY <1>1, AppendProperties
<1>3. QED
  BY <1>2, WriteWorks DEF Stack_push

LEMMA WorkTwice ==
  ASSUME NEW H, NEW H1, NEW H2, NEW U, NEW W, Worked(H, H1, U), Worked(H1, H2, W)
  PROVE  Worked(H, H2, U \cup W)
BY DEF Worked

LEMMA MoveWorks ==
  ASSUME NEW H \in [Stack -> StackType],
         NEW from \in Stack, H[from].status = "used",
         NEW to \in Stack, H[to].status = "used", from # to,
         NEW n \in Nat, n <= Len(H[from].values)
  PROVE  Worked(H, Stack_move(H, from, to, n), {from, to})
<1>1. H[from] \in StackType /\ H[to] \in StackType
  OBVIOUS
<1>2. H[from].values \in Seq(Value) /\ H[to].values \in Seq(Value)
  BY <1>1 DEF StackType
<1>3. CASE H[to].values = <<>> /\ Len(H[from].values) = n
  <2>1. Stack_move(H, from, to, n) =
          [H EXCEPT ![from].values = <<>>, ![from].big = H[to].big,
                    ![to].values = H[from].values, ![to].big = H[from].big]
    BY <1>3 DEF Stack_move
  <2> DEFINE K == Stack_move(H, from, to, n)
  <2>2. /\ K[from] = [H[from] EXCEPT !.values = <<>>, !.big = H[to].big]
        /\ K[to] = [H[to] EXCEPT !.values = H[from].values, !.big = H[from].big]
        /\ \A t \in Stack \ {from, to} : K[t] = H[t]
    BY <1>1, <2>1 DEF StackType
  <2>3. <<>> \in Seq(Value) /\ H[to].big \in BOOLEAN /\ H[from].big \in BOOLEAN
    BY <1>1, EmptySeq DEF StackType
  <2>4. /\ K[from] \in StackType
        /\ K[from].status = H[from].status /\ K[from].previous = H[from].previous
    BY <1>1, <2>2, <2>3 DEF StackType
  <2>5. /\ K[to] \in StackType
        /\ K[to].status = H[to].status /\ K[to].previous = H[to].previous
    BY <1>1, <1>2, <2>2, <2>3 DEF StackType
  <2>6. K = [t \in Stack |-> K[t]]
    BY <2>1
  <2> HIDE DEF K
  <2>7. K \in [Stack -> StackType]
    BY <2>2, <2>4, <2>5, <2>6
  <2>8. Worked(H, K, {from, to})
    BY <2>2, <2>4, <2>5, <2>7 DEF Worked
  <2>9. QED
    BY <2>8 DEF K
<1>4. CASE ~(H[to].values = <<>> /\ Len(H[from].values) = n)
  <2> DEFINE G == Drop(H, from, n)
             vs == H[to].values \o Top(H, from, n)
  <2>1. Stack_move(H, from, to, n) = Write(G, to, vs)
    BY <1>4 DEF Stack_move
  <2>2. vs \in Seq(Value)
    <3>1. Top(H, from, n) = SubSeq(H[from].values, Len(H[from].values) - n + 1, Len(H[from].values))
      BY DEF Top
    <3>2. Len(H[from].values) \in Nat /\ 1 <= Len(H[from].values) - n + 1
      BY <1>2
    <3>3. Top(H, from, n) \in Seq(Value)
      BY <1>2, <3>1, <3>2, PartOfValues
    <3>4. QED
      BY <1>2, <3>3, ConcatProperties
  <2>3. Worked(H, G, {from})
    BY DropWorks
  <2>4. G \in [Stack -> StackType] /\ G[to].status = "used"
    BY <2>3 DEF Worked
  <2> HIDE DEF G, vs
  <2>5. Worked(G, Write(G, to, vs), {to})
    BY <2>2, <2>4, WriteWorks
  <2>6. Worked(H, Write(G, to, vs), {from} \cup {to})
    BY <2>3, <2>5, WorkTwice
  <2>7. {from} \cup {to} = {from, to}
    OBVIOUS
  <2>8. QED
    BY <2>1, <2>6, <2>7
<1>5. QED
  BY <1>3, <1>4

LEMMA NoWork ==
  ASSUME NEW H \in [Stack -> StackType]
  PROVE  Worked(H, H, {})
BY DEF Worked
-----------------------------------------------------------------------------
(* The inductive invariant                                                 *)

\* filter has taken the value it is asking about from the stack it visits:
\* only before the first turn has it taken none.
Counted(H, F, n, c) ==
  \A j \in 1 .. n : F[j].kind = "filter" =>
    /\ F[j].i <= Len(H[F[j].stk].values)
    /\ F[j].i = 0 => j = n /\ c = "turn"

CStackOK ==
  /\ frames \in Seq(Frame)
  /\ Len(frames) \in 1 .. MaxFrames
  /\ FramesOK(frames, Len(frames))

IInv ==
  /\ CStackOK
  /\ control \in Control
  /\ context \in Context
  /\ locked \subseteq Context
  /\ StackInv(heap, pool, stack, frames, Len(frames))
  /\ Counted(heap, frames, Len(frames), control)

\* A step leaves the stacks map and filter are visiting as they are.
KeepsIterated ==
  \A j \in 1 .. Len(frames) :
    /\ j <= Len(frames')
    /\ frames[j].kind \in {"map", "filter"}
    /\ frames'[j].stk = frames[j].stk
    => heap'[frames[j].stk] = heap[frames[j].stk]

\* A step leaves the frame of a filter that has begun to visit as it is.
KeepsFilters ==
  \A j \in 1 .. Len(frames') : frames'[j].kind = "filter" =>
    j <= Len(frames) /\ frames'[j] = frames[j] /\ (j = Len(frames) => control # "turn")

LEMMA StayFits ==
  ASSUME CStackOK, frames' = frames
  PROVE  CStackOK' /\ Fits(frames, Len(frames), frames', Len(frames'))
<1>1. CStackOK'
  BY DEF CStackOK
<1>2. Swapped(frames, Len(frames), frames', Len(frames'), frames[Len(frames)])
  BY DEF Swapped
<1>3. QED
  BY <1>1, <1>2 DEF Fits

LEMMA EnterFits ==
  ASSUME CStackOK, NEW f, FrameOK(f), f.kind # "repl", NEW c, Enter(f, c)
  PROVE  /\ CStackOK'
         /\ control' = c
         /\ Pushed(frames, Len(frames), frames', Len(frames'), f)
<1> USE EvaluatorAssumption
<1>1. /\ frames \in Seq(Frame) /\ f \in Frame
      /\ Len(frames) < MaxFrames /\ Len(frames) \in Nat
      /\ frames' = Append(frames, f) /\ control' = c
  BY DEF Enter, RoomForFrame, Goto, CStackOK, FrameOK
<1>2. /\ frames' \in Seq(Frame)
      /\ Len(frames') = Len(frames) + 1
      /\ \A j \in 1 .. Len(frames) : frames'[j] = frames[j]
      /\ frames'[Len(frames) + 1] = f
  BY <1>1, AppendProperties
<1>3. Pushed(frames, Len(frames), frames', Len(frames'), f)
  BY <1>2 DEF Pushed
<1>4. FramesOK(frames', Len(frames'))
  BY <1>3, PushedOK DEF CStackOK
<1>5. QED
  BY <1>1, <1>2, <1>3, <1>4 DEF CStackOK

LEMMA BelowProperties ==
  ASSUME CStackOK
  PROVE  /\ Below \in Seq(Frame)
         /\ Len(Below) = Len(frames) - 1
         /\ \A j \in 1 .. Len(frames) - 1 : Below[j] = frames[j]
<1>1. /\ frames \in Seq(Frame) /\ Len(frames) \in Nat /\ Len(frames) >= 1
      /\ \A j \in 1 .. Len(frames) : frames[j] \in Frame
  BY ElementOfSeq DEF CStackOK
<1>2. \A j \in 1 .. Len(frames) - 1 : frames[j] \in Frame
  BY <1>1
<1>3. PICK m \in Int : m = Len(frames) - 1
  BY <1>1
<1>4. /\ SubSeq(frames, 1, m) \in Seq(Frame)
      /\ Len(SubSeq(frames, 1, m)) = m
      /\ \A j \in 1 .. m : SubSeq(frames, 1, m)[j] = frames[j]
  BY <1>1, <1>2, <1>3, SubSeqProperties
<1>5. QED
  BY <1>3, <1>4 DEF Below

LEMMA LeaveFits ==
  ASSUME CStackOK, Inner.kind # "repl", NEW c, Leave(c)
  PROVE  /\ CStackOK'
         /\ control' = c
         /\ Popped(frames, Len(frames), frames', Len(frames'))
<1>1. frames' = Below /\ control' = c
  BY DEF Leave, Goto
<1>2. Popped(frames, Len(frames), frames', Len(frames'))
  BY <1>1, BelowProperties DEF Popped
<1>3. FramesOK(frames', Len(frames'))
  BY <1>2, PoppedOK DEF CStackOK, Inner
<1>4. Len(frames') \in 1 .. MaxFrames
  BY <1>2, <1>3, EvaluatorAssumption DEF Popped, FramesOK, CStackOK
<1>5. QED
  BY <1>1, <1>2, <1>3, <1>4, BelowProperties DEF CStackOK

LEMMA ReplaceFits ==
  ASSUME CStackOK, NEW f, FrameOK(f), f.kind = "repl" <=> Inner.kind = "repl",
         NEW c, Replace(f, c)
  PROVE  /\ CStackOK'
         /\ control' = c
         /\ Swapped(frames, Len(frames), frames', Len(frames'), f)
<1>1. frames' = Append(Below, f) /\ control' = c /\ f \in Frame /\ Len(frames) \in Nat
  BY DEF Replace, Goto, FrameOK, CStackOK
<1>2. Below \in Seq(Frame) /\ Len(Below) + 1 = Len(frames)
  BY <1>1, BelowProperties
<1>3. /\ frames' \in Seq(Frame)
      /\ Len(frames') = Len(frames)
      /\ frames'[Len(frames)] = f
      /\ \A j \in 1 .. Len(frames) - 1 : frames'[j] = Below[j]
  BY <1>1, <1>2, AppendProperties
<1>4. Swapped(frames, Len(frames), frames', Len(frames'), f)
  BY <1>3, BelowProperties DEF Swapped
<1>5. FramesOK(frames', Len(frames'))
  BY <1>4, SwappedOK DEF CStackOK, Inner
<1>6. QED
  BY <1>1, <1>3, <1>4, <1>5 DEF CStackOK
-----------------------------------------------------------------------------
(* Steps of the program by what they do to the C stack and to the stacks   *)

\* The stacks a function may write to: the current one, those that groups have
\* interrupted and the results of zips.
Workable ==
  {stack} \cup {frames[j].stk : j \in
                  {k \in 1 .. Len(frames) : frames[k].kind \in GroupKinds \cup {"zip"}}}

LEMMA IteratedApart ==
  ASSUME IInv, NEW j \in 1 .. Len(frames), frames[j].kind \in {"map", "filter"}
  PROVE  frames[j].stk \in Stack /\ frames[j].stk \notin Workable
<1>1. /\ FrameOK(frames[j]) /\ frames[j].stk # NoStack /\ frames[j].stk \in Stack
  BY DEF IInv, CStackOK, FramesOK, FrameOK, OwnerKinds, Frame
<1>2. Owned(heap, stack, frames, Len(frames))
  BY DEF IInv, StackInv
<1>3. frames[j].stk # stack
  BY <1>1, <1>2 DEF Owned
<1>4. ASSUME NEW k \in 1 .. Len(frames), frames[k].kind \in GroupKinds \cup {"zip"},
             frames[k].stk = frames[j].stk
      PROVE  FALSE
  <2>1. j = k
    BY <1>1, <1>2, <1>4 DEF Owned
  <2>2. QED
    BY <1>4, <2>1 DEF GroupKinds
<1>5. QED
  BY <1>1, <1>3, <1>4 DEF Workable

LEMMA WorkKeeps ==
  ASSUME IInv, NEW W, W \subseteq Workable,
         \A s \in Stack \ W : heap'[s] = heap[s]
  PROVE  KeepsIterated
BY IteratedApart DEF KeepsIterated

LEMMA CountedStep ==
  ASSUME IInv, CStackOK', KeepsIterated, KeepsFilters
  PROVE  Counted(heap, frames, Len(frames), control)'
<1>1. ASSUME NEW j \in 1 .. Len(frames'), frames'[j].kind = "filter"
      PROVE  /\ frames'[j].i <= Len(heap'[frames'[j].stk].values)
             /\ frames'[j].i # 0
  <2>1. Len(frames) \in Nat /\ Len(frames') \in Nat
    BY DEF IInv, CStackOK
  <2>2. /\ j \in 1 .. Len(frames) /\ j <= Len(frames')
        /\ frames'[j] = frames[j] /\ (j = Len(frames) => control # "turn")
    BY <1>1, <2>1 DEF KeepsFilters
  <2>3. heap'[frames[j].stk] = heap[frames[j].stk]
    BY <1>1, <2>2 DEF KeepsIterated
  <2>4. frames[j].i <= Len(heap[frames[j].stk].values) /\ frames[j].i # 0
    BY <1>1, <2>2 DEF IInv, Counted
  <2>5. QED
    BY <2>2, <2>3, <2>4
<1>2. QED
  BY <1>1 DEF Counted

\* The rest of the state of a step that keeps the stacks in order.
LEMMA StepDone ==
  ASSUME IInv, CStackOK', KeepsIterated, KeepsFilters,
         control' \in Control, context' \in Context, locked' \subseteq Context,
         StackInv(heap', pool', stack', frames', Len(frames'))
  PROVE  IInv' /\ KeepsIterated
BY CountedStep DEF IInv

LEMMA Works ==
  ASSUME IInv, NEW W, W \subseteq Workable, Worked(heap, heap', W),
         pool' = pool, stack' = stack,
         CStackOK', Fits(frames, Len(frames), frames', Len(frames'))
  PROVE  StackInv(heap', pool', stack', frames', Len(frames')) /\ KeepsIterated
<1>1. StackInv(heap, pool, stack, frames, Len(frames))
  BY DEF IInv
<1>2. FramesOK(frames', Len(frames'))
  BY DEF CStackOK
<1>3. StackInv(heap', pool, stack, frames', Len(frames'))
  BY <1>1, <1>2, WorkStep
<1>4. KeepsIterated
  BY WorkKeeps DEF Worked
<1>5. QED
  BY <1>3, <1>4

\* The same C function goes on.
LEMMA Stays ==
  ASSUME IInv, NEW W, W \subseteq Workable, Worked(heap, heap', W),
         UNCHANGED <<pool, frames, stack, context>>,
         locked' \subseteq Context, control' \in Control,
         control = "turn" => Inner.kind # "filter"
  PROVE  IInv' /\ KeepsIterated
<1>1. CStackOK /\ context \in Context
  BY DEF IInv
<1>2. CStackOK' /\ Fits(frames, Len(frames), frames', Len(frames'))
  BY <1>1, StayFits
<1>3. StackInv(heap', pool', stack', frames', Len(frames')) /\ KeepsIterated
  BY <1>2, Works
<1>4. KeepsFilters
  BY <1>1 DEF KeepsFilters, Inner, CStackOK
<1>5. QED
  BY <1>1, <1>2, <1>3, <1>4, StepDone

\* Another one is called, with no stack to give back.
LEMMA Calls ==
  ASSUME IInv, NEW W, W \subseteq Workable, Worked(heap, heap', W),
         NEW f, FrameOK(f), f.stk = NoStack, f.kind # "repl",
         NEW c \in Control, Enter(f, c), UNCHANGED <<pool, stack>>,
         context' \in Context, locked' \subseteq Context, control # "turn"
  PROVE  IInv' /\ KeepsIterated
<1>1. /\ CStackOK' /\ control' = c
      /\ Pushed(frames, Len(frames), frames', Len(frames'), f)
  BY EnterFits DEF IInv
<1>2. Fits(frames, Len(frames), frames', Len(frames'))
  BY <1>1 DEF Fits
<1>3. StackInv(heap', pool', stack', frames', Len(frames')) /\ KeepsIterated
  BY <1>1, <1>2, Works
<1>4. KeepsFilters
  <2>1. f.kind # "filter"
    BY DEF FrameOK, OwnerKinds
  <2>2. QED
    BY <1>1, <2>1 DEF KeepsFilters, Pushed, IInv, CStackOK
<1>5. QED
  BY <1>1, <1>3, <1>4, StepDone

\* The innermost one returns and gives back no stack.
LEMMA Returns ==
  ASSUME IInv, NEW W, W \subseteq Workable, Worked(heap, heap', W),
         Inner.kind # "repl", Inner.kind \in GroupKinds => Inner.kind = "module",
         NEW c \in Control, Leave(c), UNCHANGED <<pool, stack>>,
         context' \in Context, locked' \subseteq Context
  PROVE  IInv' /\ KeepsIterated
<1>1. /\ CStackOK' /\ control' = c
      /\ Popped(frames, Len(frames), frames', Len(frames'))
  BY LeaveFits DEF IInv
<1>2. Fits(frames, Len(frames), frames', Len(frames'))
  BY <1>1 DEF Fits, Inner
<1>3. StackInv(heap', pool', stack', frames', Len(frames')) /\ KeepsIterated
  BY <1>1, <1>2, Works
<1>4. KeepsFilters
  BY <1>1 DEF KeepsFilters, Popped, IInv, CStackOK
<1>5. QED
  BY <1>1, <1>3, <1>4, StepDone

\* The innermost one goes on as another, or with another counter.
LEMMA Turns ==
  ASSUME IInv, NEW W, W \subseteq Workable, Worked(heap, heap', W),
         NEW f, FrameOK(f), f.stk = Inner.stk, f.kind # "filter",
         f.kind = "repl" <=> Inner.kind = "repl",
         f.kind \in GroupKinds <=> Inner.kind \in GroupKinds,
         f.kind = "module" <=> Inner.kind = "module",
         f.kind = "zip" <=> Inner.kind = "zip",
         NEW c \in Control, Replace(f, c), UNCHANGED <<pool, stack>>,
         context' \in Context, locked' \subseteq Context
  PROVE  IInv' /\ KeepsIterated
<1>1. /\ CStackOK' /\ control' = c
      /\ Swapped(frames, Len(frames), frames', Len(frames'), f)
  BY ReplaceFits DEF IInv
<1>2. Fits(frames, Len(frames), frames', Len(frames'))
  BY <1>1 DEF Fits, Inner
<1>3. StackInv(heap', pool', stack', frames', Len(frames')) /\ KeepsIterated
  BY <1>1, <1>2, Works
<1>4. KeepsFilters
  BY <1>1 DEF KeepsFilters, Swapped, IInv, CStackOK
<1>5. QED
  BY <1>1, <1>3, <1>4, StepDone

LEMMA HeldNotAcquirable ==
  ASSUME IInv, NEW s \in Acquirable(HeldStacks), NEW prev, Stack_acquire(s, prev, heap)
  PROVE  /\ Acquired(heap, pool, s, prev, heap', pool')
         /\ s \notin HeldBy(stack, frames, Len(frames))
         /\ \A t \in Stack \ {s} : heap'[t] = heap[t]
<1> USE StacksAssumption
<1>1. /\ HeapOK(heap, pool) /\ Chained(heap, pool)
      /\ Owned(heap, stack, frames, Len(frames))
  BY DEF IInv, StackInv
<1>2. DOMAIN frames = 1 .. Len(frames)
  BY DEF IInv, CStackOK
<1>3. \/ pool # NoStack /\ s = pool
      \/ pool = NoStack /\ s \in Garbage(HeldStacks)
  BY DEF Acquirable
<1>4. s \in Stack /\ s # NoStack
  BY <1>1, <1>3 DEF Garbage, HeapOK
<1>5. Acquired(heap, pool, s, prev, heap', pool')
  BY <1>3, <1>4 DEF Acquired, Stack_acquire, Garbage
<1>6. s \notin HeldBy(stack, frames, Len(frames))
  <2>1. CASE pool # NoStack
    BY <1>1, <1>3, <1>4, <2>1 DEF HeldBy, Owned, Chained
  <2>2. CASE pool = NoStack
    BY <1>2, <1>3, <1>4, <2>2 DEF Garbage, HeldBy, HeldStacks
  <2>3. QED
    BY <2>1, <2>2
<1>7. \A t \in Stack \ {s} : heap'[t] = heap[t]
  BY <1>1 DEF Stack_acquire, HeapOK
<1>8. QED
  BY <1>5, <1>6, <1>7

LEMMA AcquiringKeeps ==
  ASSUME IInv, NEW s, s \notin HeldBy(stack, frames, Len(frames)),
         \A t \in Stack \ {s} : heap'[t] = heap[t]
  PROVE  KeepsIterated
BY IteratedApart DEF KeepsIterated, HeldBy

\* A group, a module, map or filter: the new stack s becomes the current one.
LEMMA EntersStack ==
  ASSUME IInv, NEW s \in Acquirable(HeldStacks), NEW prev \in Stack \cup {NoStack},
         Stack_acquire(s, prev, heap), stack' = s,
         NEW f, FrameOK(f), f.kind # "repl", f.stk = stack,
         \/ prev = NoStack
         \/ prev = stack /\ f.kind \in GroupKinds \ {"module"}
         \/ prev = heap[stack].previous /\ f.kind \notin GroupKinds,
         NEW c \in Control, Enter(f, c), f.kind = "filter" => f.i = 0 /\ c = "turn",
         context' \in Context, locked' \subseteq Context, control # "turn"
  PROVE  IInv' /\ KeepsIterated
<1>1. /\ CStackOK' /\ control' = c
      /\ Pushed(frames, Len(frames), frames', Len(frames'), f)
  BY EnterFits DEF IInv
<1>2. /\ Acquired(heap, pool, s, prev, heap', pool')
      /\ s \notin HeldBy(stack, frames, Len(frames))
      /\ \A t \in Stack \ {s} : heap'[t] = heap[t]
  BY HeldNotAcquirable
<1>3. KeepsIterated
  BY <1>2, AcquiringKeeps
<1>4. /\ Len(frames) \in Nat /\ Len(frames') \in Nat \ {0} /\ Len(frames') = Len(frames) + 1
      /\ frames'[Len(frames')] = f
      /\ \A j \in 1 .. Len(frames) : frames'[j] = frames[j]
  BY <1>1 DEF Pushed, IInv, CStackOK
<1>5. Linked(prev, frames', Len(frames'))
  <2>1. CASE prev = NoStack
    BY <2>1 DEF Linked
  <2>2. CASE prev = stack /\ f.kind \in GroupKinds \ {"module"}
    BY <1>4, <2>2, LinkedTop
  <2>3. CASE prev = heap[stack].previous /\ f.kind \notin GroupKinds
    <3>1. Linked(prev, frames, Len(frames))
      BY <2>3 DEF IInv, StackInv, Links
    <3>2. Linked(prev, frames', Len(frames))
      BY <1>4, <3>1, LinkedSame
    <3>3. QED
      BY <1>4, <2>3, <3>2, LinkedUp
  <2>4. QED
    BY <2>1, <2>2, <2>3
<1>6. StackInv(heap', pool', stack', frames', Len(frames'))
  <2>1. StackInv(heap, pool, stack, frames, Len(frames)) /\ FramesOK(frames', Len(frames'))
    BY <1>1 DEF IInv, CStackOK
  <2>2. StackInv(heap', pool', s, frames', Len(frames'))
    BY <1>1, <1>2, <1>5, <2>1, EnterStep
  <2>3. QED
    BY <2>2
<1>7. Counted(heap, frames, Len(frames), control)'
  <2>1. ASSUME NEW j \in 1 .. Len(frames'), frames'[j].kind = "filter"
        PROVE  /\ frames'[j].i <= Len(heap'[frames'[j].stk].values)
               /\ frames'[j].i = 0 => j = Len(frames') /\ control' = "turn"
    <3>1. CASE j = Len(frames')
      <4>1. stack \in Stack /\ heap[stack] \in StackType /\ s # stack
        BY <1>2 DEF IInv, StackInv, Owned, HeapOK, HeldBy
      <4>2. Len(heap[stack].values) \in Nat /\ heap'[stack] = heap[stack]
        BY <1>2, <4>1 DEF StackType
      <4>3. frames'[j].i = 0 /\ frames'[j].stk = stack /\ control' = "turn"
        BY <1>1, <1>4, <2>1, <3>1
      <4>4. QED
        BY <3>1, <4>2, <4>3
    <3>2. CASE j # Len(frames')
      <4>1. j \in 1 .. Len(frames) /\ frames'[j] = frames[j]
        BY <1>4, <3>2
      <4>2. frames[j].i <= Len(heap[frames[j].stk].values) /\ frames[j].i # 0
        BY <2>1, <4>1 DEF IInv, Counted
      <4>3. heap'[frames[j].stk] = heap[frames[j].stk]
        BY <1>3, <1>4, <2>1, <4>1 DEF KeepsIterated
      <4>4. QED
        BY <4>1, <4>2, <4>3
    <3>3. QED
      BY <3>1, <3>2
  <2>2. QED
    BY <2>1 DEF Counted
<1>8. QED
  BY <1>1, <1>3, <1>6, <1>7 DEF IInv

\* The stack a group has interrupted, or the result of a zip, becomes current;
\* h is what the step makes of the heap before it releases the other one, or
\* leaves it to the collector.
LEMMA LeavesStack ==
  ASSUME IInv, NEW h, NEW W, W \subseteq Workable, Worked(heap, h, W),
         Stack_release(stack, h) \/ (heap' = h /\ pool' = pool),
         Inner.kind \in GroupKinds \cup {"zip"}, stack' = Inner.stk,
         CStackOK', Dropped(frames, Len(frames), frames', Len(frames')),
         KeepsFilters, control' \in Control,
         context' \in Context, locked' \subseteq Context
  PROVE  IInv' /\ KeepsIterated
<1>1. /\ StackInv(heap, pool, stack, frames, Len(frames))
      /\ HeapOK(heap, pool) /\ Chained(heap, pool)
      /\ stack \in Stack /\ heap[stack].status = "used"
  <2>1. StackInv(heap, pool, stack, frames, Len(frames))
    BY DEF IInv
  <2>2. /\ HeapOK(heap, pool) /\ Chained(heap, pool)
        /\ Owned(heap, stack, frames, Len(frames))
    BY <2>1 DEF StackInv
  <2>3. stack \in Stack /\ heap[stack].status = "used"
    BY <2>2 DEF Owned
  <2>4. QED
    BY <2>1, <2>2, <2>3
<1>2. HeapOK(h, pool) /\ Chained(h, pool) /\ h[stack].status = "used"
  <2>1. HeapOK(h, pool) /\ Chained(h, pool)
    BY <1>1, WorkedOK
  <2>2. h[stack].status = "used"
    BY <1>1 DEF Worked
  <2>3. QED
    BY <2>1, <2>2
<1>3. /\ HeapOK(heap', pool') /\ Chained(heap', pool')
      /\ \A t \in Stack \ {stack} : heap'[t] = h[t]
  <2>1. CASE Stack_release(stack, h)
    <3>1. Released(h, pool, stack, heap', pool')
      BY <2>1 DEF Stack_release, Released
    <3>2. PICK s \in Stack : s = stack
      BY <1>1
    <3>3. /\ HeapOK(h, pool) /\ Chained(h, pool) /\ h[s].status = "used"
          /\ Released(h, pool, s, heap', pool')
      BY <1>2, <3>1, <3>2
    <3>4. HeapOK(heap', pool') /\ Chained(heap', pool') /\ \A t \in Stack \ {s} : heap'[t] = h[t]
      BY ONLY <3>3, ReleasedOK
    <3>5. QED
      BY <3>2, <3>4
  <2>2. CASE heap' = h /\ pool' = pool
    BY <1>2, <2>2
  <2>3. QED
    BY <2>1, <2>2
<1>4. \A t \in Stack \ {stack} : /\ heap'[t].status = heap[t].status
                                 /\ heap'[t].previous = heap[t].previous
  BY <1>3 DEF Worked
<1>5. StackInv(heap', pool', stack', frames', Len(frames'))
  <2>1. frames[Len(frames)].kind \in GroupKinds \cup {"zip"} /\ stack' = frames[Len(frames)].stk
    BY DEF Inner
  <2>2. FramesOK(frames', Len(frames'))
    BY DEF CStackOK
  <2>3. StackInv(heap', pool', frames[Len(frames)].stk, frames', Len(frames'))
    BY <1>1, <1>3, <1>4, <2>1, <2>2, LeaveStep
  <2>4. QED
    BY <2>1, <2>3
<1>6. KeepsIterated
  <2>1. stack \in Workable
    BY DEF Workable
  <2>2. W \cup {stack} \subseteq Workable
    BY <2>1
  <2>3. \A s \in Stack \ (W \cup {stack}) : heap'[s] = heap[s]
    BY <1>3 DEF Worked
  <2>4. QED
    BY <2>2, <2>3, WorkKeeps
<1>7. QED
  BY <1>5, <1>6, StepDone

LEMMA PopDrops ==
  ASSUME IInv, Inner.kind # "repl", NEW c, Leave(c)
  PROVE  /\ CStackOK' /\ control' = c
         /\ Popped(frames, Len(frames), frames', Len(frames'))
         /\ Dropped(frames, Len(frames), frames', Len(frames'))
         /\ KeepsFilters
<1>1. /\ CStackOK' /\ control' = c
      /\ Popped(frames, Len(frames), frames', Len(frames'))
  BY LeaveFits DEF IInv
<1>2. QED
  BY <1>1 DEF Dropped, Popped, KeepsFilters, IInv, CStackOK
-----------------------------------------------------------------------------
(* What the actions are made of                                            *)

LEMMA Facts ==
  ASSUME IInv
  PROVE  /\ heap \in [Stack -> StackType] /\ pool \in Stack \cup {NoStack}
         /\ stack \in Stack /\ heap[stack].status = "used"
         /\ heap[stack].previous \in Stack \cup {NoStack}
         /\ heap[stack].values \in Seq(Value) /\ Size \in Nat
         /\ CStackOK /\ FrameOK(Inner) /\ Len(frames) \in Nat \ {0}
         /\ control \in Control /\ context \in Context /\ locked \subseteq Context
         /\ stack \in Workable
<1>1. /\ StackInv(heap, pool, stack, frames, Len(frames)) /\ CStackOK
      /\ control \in Control /\ context \in Context /\ locked \subseteq Context
  BY DEF IInv
<1>2. /\ HeapOK(heap, pool) /\ Owned(heap, stack, frames, Len(frames))
      /\ FramesOK(frames, Len(frames))
  BY <1>1 DEF StackInv
<1>3. /\ heap \in [Stack -> StackType] /\ pool \in Stack \cup {NoStack}
      /\ stack \in Stack /\ heap[stack].status = "used"
  BY <1>2 DEF HeapOK, Owned
<1>4. heap[stack] \in StackType
  BY <1>3
<1>5. /\ heap[stack].previous \in Stack \cup {NoStack}
      /\ heap[stack].values \in Seq(Value) /\ Size \in Nat
  BY <1>4 DEF StackType, Size
<1>6. Len(frames) \in Nat \ {0} /\ FrameOK(Inner)
  BY <1>2 DEF FramesOK, Inner
<1>7. stack \in Workable
  BY DEF Workable
<1>8. QED
  BY <1>1, <1>3, <1>5, <1>6, <1>7

\* The stack of the innermost frame, when it has one.
LEMMA InnerStack ==
  ASSUME IInv, Inner.kind \in OwnerKinds
  PROVE  /\ Inner.stk \in Stack /\ heap[Inner.stk].status = "used" /\ Inner.stk # stack
         /\ heap[Inner.stk].values \in Seq(Value)
         /\ Inner.kind \in GroupKinds \cup {"zip"} => Inner.stk \in Workable
<1>1. /\ FrameOK(Inner) /\ Len(frames) \in Nat \ {0} /\ heap \in [Stack -> StackType]
  BY Facts
<1>2. Inner.stk \in Stack /\ Inner.stk # NoStack
  BY <1>1 DEF FrameOK, Frame
<1>3. Owned(heap, stack, frames, Len(frames)) /\ Len(frames) \in 1 .. Len(frames)
  BY <1>1 DEF IInv, StackInv
<1>4. heap[Inner.stk].status = "used" /\ Inner.stk # stack
  BY <1>2, <1>3 DEF Owned, Inner
<1>5. heap[Inner.stk] \in StackType
  BY <1>1, <1>2
<1>6. heap[Inner.stk].values \in Seq(Value)
  BY <1>5 DEF StackType
<1>7. Inner.kind \in GroupKinds \cup {"zip"} => Inner.stk \in Workable
  BY <1>3 DEF Workable, Inner
<1>8. QED
  BY <1>2, <1>4, <1>6, <1>7

\* What `.` takes from is a stack some group has interrupted.
LEMMA PreviousHeld ==
  ASSUME IInv, NEW p \in Stack, heap[stack].previous = p
  PROVE  heap[p].status = "used" /\ p # stack /\ p \in Workable
<1>1. /\ Owned(heap, stack, frames, Len(frames))
      /\ Linked(p, frames, Len(frames)) /\ p # NoStack
  BY StacksAssumption DEF IInv, StackInv, Links
<1>2. PICK j \in 1 .. Len(frames) : frames[j].kind \in GroupKinds /\ frames[j].stk = p
  BY <1>1 DEF Linked
<1>3. QED
  BY <1>1, <1>2 DEF Owned, Workable

LEMMA PlainOK ==
  ASSUME NEW kind \in {"node", "operand", "loop", "catch"}
  PROVE  /\ FrameOK(Plain(kind)) /\ Plain(kind).kind = kind
         /\ Plain(kind).stk = NoStack
         /\ kind \notin OwnerKinds /\ kind # "repl" /\ kind \notin GroupKinds
BY DEF Plain, FrameOK, Frame, Kind, OwnerKinds, GroupKinds

LEMMA SavingOK ==
  ASSUME NEW kind \in {"group", "arg", "map", "filter", "zip"}, NEW s \in Stack
  PROVE  /\ FrameOK(Saving(kind, s)) /\ Saving(kind, s).kind = kind
         /\ Saving(kind, s).stk = s /\ Saving(kind, s).i = 0
<1>1. Saving(kind, s) = [kind |-> kind, stk |-> s, ctx |-> NoContext, own |-> NoContext, i |-> 0]
  BY DEF Saving, Plain
<1>2. QED
  BY <1>1, StacksAssumption DEF FrameOK, Frame, Kind, OwnerKinds, GroupKinds

LEMMA ScopedRecord ==
  ASSUME NEW kind, NEW old, NEW new
  PROVE  Scoped(kind, old, new) =
           [kind |-> kind, stk |-> NoStack, ctx |-> old, own |-> new, i |-> 0]
<1>1. [Plain(kind) EXCEPT !.ctx = old] =
        [kind |-> kind, stk |-> NoStack, ctx |-> old, own |-> NoContext, i |-> 0]
  BY DEF Plain
<1>2. Scoped(kind, old, new) = [[Plain(kind) EXCEPT !.ctx = old] EXCEPT !.own = new]
  BY DEF Scoped
<1>3. QED
  BY <1>1, <1>2

LEMMA ScopedOK ==
  ASSUME NEW kind \in {"object", "call"}, NEW old \in Context, NEW new \in Context
  PROVE  /\ FrameOK(Scoped(kind, old, new)) /\ Scoped(kind, old, new).kind = kind
         /\ Scoped(kind, old, new).stk = NoStack
BY ScopedRecord, StacksAssumption DEF FrameOK, Frame, Kind, OwnerKinds, GroupKinds

ModuleFrame(old, new, s) == [Scoped("module", old, new) EXCEPT !.stk = s]

LEMMA ModuleFrameOK ==
  ASSUME NEW old \in Context, NEW new \in Context, NEW s \in Stack
  PROVE  /\ FrameOK(ModuleFrame(old, new, s))
         /\ ModuleFrame(old, new, s).kind = "module"
         /\ ModuleFrame(old, new, s).stk = s
<1>1. ModuleFrame(old, new, s) =
        [kind |-> "module", stk |-> s, ctx |-> old, own |-> new, i |-> 0]
  BY ScopedRecord DEF ModuleFrame
<1>2. ModuleFrame(old, new, s) \in Frame
  BY <1>1 DEF Frame, Kind
<1>3. QED
  BY <1>1, <1>2, StacksAssumption DEF FrameOK, OwnerKinds, GroupKinds

LEMMA HeldContextsOK ==
  ASSUME IInv
  PROVE  HeldContexts \subseteq Context
<1>1. \A j \in DOMAIN frames : frames[j] \in Frame
  BY ElementOfSeq DEF IInv, CStackOK
<1>2. QED
  BY <1>1 DEF HeldContexts, Frame, IInv

LEMMA NewContextOK ==
  ASSUME IInv, RoomForContext
  PROVE  NewContext \in Context
<1>1. \E c \in Context : c \notin HeldContexts
  BY HeldContextsOK DEF RoomForContext
<1>2. QED
  BY <1>1 DEF NewContext

LEMMA OutputValues ==
  ASSUME NEW out \in Outputs
  PROVE  out \in Seq(Value)
<1>1. <<>> \in Seq(Value) /\ \A v \in Value : <<v>> \in Seq(Value)
  BY EmptySeq
<1>2. out = <<>> \/ \E v \in Value : out = <<v>>
  <2>1. CASE RoomForValue
    BY <2>1 DEF Outputs
  <2>2. CASE ~RoomForValue
    BY <2>2 DEF Outputs
  <2>3. QED
    BY <2>1, <2>2
<1>3. QED
  BY <1>1, <1>2

\* The values of the current stack without the top n, and new ones on top.
LEMMA KeptWorks ==
  ASSUME IInv, NEW n \in Nat, NEW out \in Seq(Value)
  PROVE  Worked(heap, Write(heap, stack, Kept(n) \o out), {stack})
<1>1. /\ heap \in [Stack -> StackType] /\ stack \in Stack /\ heap[stack].status = "used"
      /\ heap[stack].values \in Seq(Value) /\ Size \in Nat
  BY Facts
<1>2. PICK vs \in Seq(Value) : vs = heap[stack].values
  BY <1>1
<1>3. Len(vs) \in Nat
  OBVIOUS
<1> DEFINE m == Len(vs) - n
<1>4. m \in Int
  BY <1>3
<1>5. m <= Len(vs)
  BY <1>3
<1> HIDE DEF m
<1>6. SubSeq(vs, 1, m) \in Seq(Value)
  BY <1>3, <1>4, <1>5, PartOfValues
<1>7. Kept(n) \in Seq(Value)
  BY <1>2, <1>6 DEF Kept, Size, m
<1>8. Kept(n) \o out \in Seq(Value)
  BY <1>7, ConcatProperties
<1>9. QED
  BY <1>1, <1>8, WriteWorks

LEMMA DropsOK ==
  ASSUME IInv, NEW n \in Nat
  PROVE  Worked(heap, Drop(heap, stack, n), {stack})
BY Facts, DropWorks

LEMMA PushesOK ==
  ASSUME IInv, NEW v \in Value
  PROVE  Worked(heap, Stack_push(heap, stack, v), {stack})
BY Facts, PushWorks

\* builtin_list: the buffer goes to the list, which is pushed.
LEMMA ListWorks ==
  ASSUME IInv, NEW v \in Value
  PROVE  Worked(heap, Write([heap EXCEPT ![stack].big = FALSE], stack, <<v>>), {stack})
<1>1. heap \in [Stack -> StackType] /\ stack \in Stack /\ heap[stack].status = "used"
  BY Facts
<1> DEFINE G == [heap EXCEPT ![stack].big = FALSE]
<1>2. Worked(heap, G, {stack})
  BY <1>1 DEF Worked, StackType
<1>3. G \in [Stack -> StackType] /\ G[stack].status = "used"
  BY <1>1, <1>2 DEF Worked
<1> HIDE DEF G
<1>4. <<v>> \in Seq(Value)
  OBVIOUS
<1>5. Worked(G, Write(G, stack, <<v>>), {stack})
  BY <1>1, <1>3, <1>4, WriteWorks
<1>6. Worked(heap, Write(G, stack, <<v>>), {stack} \cup {stack})
  BY <1>2, <1>5, WorkTwice
<1>7. QED
  BY <1>6 DEF G

\* All of the current stack is moved to the one the group has interrupted.
LEMMA MovesOK ==
  ASSUME IInv, Inner.kind \in GroupKinds
  PROVE  /\ Worked(heap, MoveAll(heap, stack, Inner.stk), {stack, Inner.stk})
         /\ {stack, Inner.stk} \subseteq Workable
<1>1. /\ heap \in [Stack -> StackType] /\ stack \in Stack /\ heap[stack].status = "used"
      /\ Size \in Nat /\ stack \in Workable
  BY Facts
<1>2. /\ Inner.stk \in Stack /\ heap[Inner.stk].status = "used" /\ Inner.stk # stack
      /\ Inner.stk \in Workable
  BY InnerStack DEF OwnerKinds
<1>3. PICK t \in Stack : t = Inner.stk
  BY <1>2
<1>4. PICK n \in Nat : n = Len(heap[stack].values)
  BY <1>1 DEF Size
<1>5. Worked(heap, Stack_move(heap, stack, t, n), {stack, t})
  BY <1>1, <1>2, <1>3, <1>4, MoveWorks
<1>6. QED
  BY <1>1, <1>2, <1>3, <1>4, <1>5 DEF MoveAll
-----------------------------------------------------------------------------
(* The actions.  Each lemma is about one part of Next.                     *)

LEMMA NoWorkOK ==
  ASSUME IInv, UNCHANGED heap
  PROVE  Worked(heap, heap', {}) /\ {} \subseteq Workable
BY Facts, NoWork

LEMMA DotsKeep ==
  ASSUME IInv, NEW n \in 0 .. MaxValues, NodeDots(n)
  PROVE  IInv' /\ KeepsIterated
<1> USE DEF Running, Goto, SetHeap
<1>1. /\ heap \in [Stack -> StackType] /\ stack \in Stack /\ heap[stack].status = "used"
      /\ heap[stack].previous \in Stack \cup {NoStack}
      /\ stack \in Workable /\ locked \subseteq Context
  BY Facts
<1>2. PICK p \in Stack : p = heap[stack].previous
  BY <1>1 DEF NodeDots
<1>3. n <= Len(heap[p].values) /\ heap' = Stack_move(heap, p, stack, n)
  BY <1>2 DEF NodeDots
<1>4. heap[p].status = "used" /\ p # stack /\ p \in Workable
  BY <1>2, PreviousHeld
<1>5. n \in Nat
  BY EvaluatorAssumption
<1>6. Worked(heap, heap', {p, stack}) /\ {p, stack} \subseteq Workable
  BY <1>1, <1>3, <1>4, <1>5, MoveWorks
<1>7. QED
  BY <1>1, <1>6, Stays DEF NodeDots, Control

LEMMA EvalKeeps ==
  ASSUME IInv, Eval
  PROVE  IInv' /\ KeepsIterated
<1> USE DEF Running, Goto, SetHeap
<1>0. {stack} \subseteq Workable /\ context \in Context /\ locked \subseteq Context
  BY Facts
<1>1. ASSUME NEW v \in Value, NodePush(v) PROVE IInv' /\ KeepsIterated
  <2>1. Worked(heap, heap', {stack})
    BY <1>1, PushesOK DEF NodePush
  <2>2. QED
    BY <1>0, <1>1, <2>1, Stays DEF NodePush, Control
<1>2. CASE NodePop
  <2>1. Worked(heap, heap', {stack})
    BY <1>2, DropsOK DEF NodePop
  <2>2. QED
    BY <1>0, <1>2, <2>1, Stays DEF NodePop, Control
<1>3. CASE NodeRaise
  <2>1. Worked(heap, heap', {}) /\ {} \subseteq Workable
    BY <1>3, NoWorkOK DEF NodeRaise
  <2>2. QED
    BY <1>0, <1>3, <2>1, Stays DEF NodeRaise, Control
<1>4. CASE NodeCall
  <2>1. Worked(heap, heap', {}) /\ {} \subseteq Workable
    BY <1>4, NoWorkOK DEF NodeCall
  <2>2. Enter(Plain("node"), "call")
    BY <1>4 DEF NodeCall
  <2>3. /\ FrameOK(Plain("node")) /\ Plain("node").kind # "repl"
        /\ Plain("node").stk = NoStack
    BY PlainOK
  <2>4. QED
    BY <1>0, <1>4, <2>1, <2>2, <2>3, Calls DEF NodeCall, Control
<1>5. ASSUME NEW n \in 0 .. 1, NodeOperand(n) PROVE IInv' /\ KeepsIterated
  <2>1. Worked(heap, heap', {stack})
    BY <1>5, DropsOK DEF NodeOperand
  <2>2. Enter(Plain("operand"), "eval")
    BY <1>5 DEF NodeOperand
  <2>3. /\ FrameOK(Plain("operand")) /\ Plain("operand").kind # "repl"
        /\ Plain("operand").stk = NoStack
    BY PlainOK
  <2>4. QED
    BY <1>0, <1>5, <2>1, <2>2, <2>3, Calls DEF NodeOperand, Control
<1>6. ASSUME NEW kind \in {"group", "arg"}, NodeNewStack(kind) PROVE IInv' /\ KeepsIterated
  <2>1. stack \in Stack
    BY Facts
  <2>2. PICK s \in Acquirable(HeldStacks) : Stack_acquire(s, stack, heap) /\ stack' = s
    BY <1>6 DEF NodeNewStack
  <2>3. Enter(Saving(kind, stack), "eval") /\ UNCHANGED <<context, locked>> /\ control = "eval"
    BY <1>6 DEF NodeNewStack
  <2>4. PICK f : f = Saving(kind, stack)
    OBVIOUS
  <2>5. /\ FrameOK(f) /\ f.kind = kind /\ f.stk = stack
    BY <2>1, <2>4, SavingOK
  <2>6. /\ f.kind # "repl" /\ f.kind # "filter" /\ f.kind \in GroupKinds \ {"module"}
        /\ Enter(f, "eval")
    BY <2>3, <2>4, <2>5 DEF GroupKinds
  <2>7. "eval" \in Control /\ context' \in Context /\ locked' \subseteq Context
        /\ control # "turn" /\ stack \in Stack \cup {NoStack}
    BY <1>0, <2>1, <2>3 DEF Control
  <2>8. QED
    BY <2>2, <2>5, <2>6, <2>7, EntersStack
<1>7. CASE NodeObject
  <2>1. Worked(heap, heap', {}) /\ {} \subseteq Workable
    BY <1>7, NoWorkOK DEF NodeObject
  <2>2. NewContext \in Context
    BY <1>7, NewContextOK DEF NodeObject
  <2>3. PICK f : f = Scoped("object", context, NewContext)
    OBVIOUS
  <2>4. FrameOK(f) /\ f.kind # "repl" /\ f.stk = NoStack
    BY <1>0, <2>2, <2>3, ScopedOK
  <2>5. Enter(f, "eval")
    BY <1>7, <2>3 DEF NodeObject
  <2>6. QED
    BY <1>0, <1>7, <2>1, <2>2, <2>4, <2>5, Calls DEF NodeObject, Control
<1>8. CASE NodeImport
  <2>1. stack \in Stack /\ NewContext \in Context
    BY <1>8, Facts, NewContextOK DEF NodeImport
  <2>2. PICK s \in Acquirable(HeldStacks) : Stack_acquire(s, NoStack, heap) /\ stack' = s
    BY <1>8 DEF NodeImport
  <2>3. PICK f : f = ModuleFrame(context, NewContext, stack)
    OBVIOUS
  <2>4. FrameOK(f) /\ f.stk = stack /\ f.kind # "repl" /\ f.kind # "filter"
    BY <1>0, <2>1, <2>3, ModuleFrameOK
  <2>5. Enter(f, "eval") /\ control = "eval" /\ context' = NewContext /\ locked' \subseteq locked
    BY <1>8, <2>3 DEF NodeImport, ModuleFrame
  <2>6. "eval" \in Control /\ context' \in Context /\ locked' \subseteq Context
        /\ control # "turn" /\ NoStack \in Stack \cup {NoStack}
    BY <1>0, <2>1, <2>5 DEF Control
  <2>7. QED
    BY <2>2, <2>4, <2>5, <2>6, EntersStack
<1>9. ASSUME NEW n \in 0 .. MaxValues, NodeDots(n) PROVE IInv' /\ KeepsIterated
  BY <1>9, DotsKeep
<1>10. CASE EndBody
  <2>1. Worked(heap, heap', {}) /\ {} \subseteq Workable
    BY <1>10, NoWorkOK DEF EndBody
  <2>2. QED
    BY <1>0, <1>10, <2>1, Stays DEF EndBody, Control
<1>11. QED
  BY <1>1, <1>2, <1>3, <1>4, <1>5, <1>6, <1>7, <1>8, <1>9, <1>10 DEF Eval

\* A frame without a stack of its own is entered.
LEMMA CallsPlain ==
  ASSUME IInv, NEW W, W \subseteq Workable, Worked(heap, heap', W),
         NEW kind \in {"node", "operand", "loop", "catch"},
         NEW c \in Control, Enter(Plain(kind), c),
         UNCHANGED <<pool, stack, context, locked>>, control # "turn"
  PROVE  IInv' /\ KeepsIterated
<1>1. PICK f : f = Plain(kind)
  OBVIOUS
<1>2. FrameOK(f) /\ f.kind # "repl" /\ f.stk = NoStack
  BY <1>1, PlainOK
<1>3. Enter(f, c) /\ context' \in Context /\ locked' \subseteq Context
  BY <1>1, Facts
<1>4. QED
  BY <1>2, <1>3, Calls

LEMMA CallsScoped ==
  ASSUME IInv, NEW W, W \subseteq Workable, Worked(heap, heap', W),
         NEW new \in Context, NEW c \in Control, Enter(Scoped("call", context, new), c),
         UNCHANGED <<pool, stack>>, context' = new, locked' \subseteq locked,
         control # "turn"
  PROVE  IInv' /\ KeepsIterated
<1>1. PICK f : f = Scoped("call", context, new)
  OBVIOUS
<1>2. context \in Context /\ locked' \subseteq Context
  BY Facts
<1>3. FrameOK(f) /\ f.kind # "repl" /\ f.stk = NoStack
  BY <1>1, <1>2, ScopedOK
<1>4. Enter(f, c) /\ context' \in Context
  BY <1>1
<1>5. QED
  BY <1>2, <1>3, <1>4, Calls

LEMMA StartEachKeeps ==
  ASSUME IInv, NEW kind \in {"map", "filter"}, StartEach(kind)
  PROVE  IInv' /\ KeepsIterated
<1>1. /\ stack \in Stack /\ heap[stack].previous \in Stack \cup {NoStack}
      /\ context \in Context /\ locked \subseteq Context
  BY Facts
<1>2. PICK p \in Stack \cup {NoStack} : p = heap[stack].previous
  BY <1>1
<1>3. PICK s \in Acquirable(HeldStacks) : Stack_acquire(s, p, heap) /\ stack' = s
  BY <1>2 DEF StartEach
<1>4. PICK f : f = Saving(kind, stack)
  OBVIOUS
<1>5. FrameOK(f) /\ f.kind = kind /\ f.stk = stack /\ f.i = 0
  BY <1>1, <1>4, SavingOK
<1>6. f.kind # "repl" /\ f.kind \notin GroupKinds
  BY <1>5 DEF GroupKinds
<1>7. /\ Enter(f, "turn") /\ "turn" \in Control /\ control # "turn"
      /\ context' \in Context /\ locked' \subseteq Context
  BY <1>1, <1>4 DEF StartEach, Running, Control
<1>8. QED
  BY <1>2, <1>3, <1>5, <1>6, <1>7, EntersStack

LEMMA StartZipKeeps ==
  ASSUME IInv, StartZip
  PROVE  IInv' /\ KeepsIterated
<1>1. /\ stack \in Stack /\ heap[stack].previous \in Stack \cup {NoStack}
      /\ context \in Context /\ locked \subseteq Context
  BY Facts
<1>2. PICK p \in Stack \cup {NoStack} : p = heap[stack].previous
  BY <1>1
<1>3. PICK s \in Acquirable(HeldStacks) :
        Stack_acquire(s, p, heap) /\ Enter(Saving("zip", s), "turn")
  BY <1>2 DEF StartZip
<1>4. /\ Acquired(heap, pool, s, p, heap', pool')
      /\ s \notin HeldBy(stack, frames, Len(frames))
      /\ \A t \in Stack \ {s} : heap'[t] = heap[t]
  BY <1>3, HeldNotAcquirable
<1>5. PICK f : f = Saving("zip", s)
  OBVIOUS
<1>6. FrameOK(f) /\ f.kind = "zip" /\ f.stk = s
  BY <1>4, <1>5, SavingOK DEF Acquired
<1>7. f.kind # "repl" /\ f.kind # "filter" /\ Enter(f, "turn")
  BY <1>3, <1>5, <1>6
<1>8. /\ CStackOK' /\ control' = "turn"
      /\ Pushed(frames, Len(frames), frames', Len(frames'), f)
  BY <1>6, <1>7, EnterFits DEF IInv
<1>9. StackInv(heap', pool', stack', frames', Len(frames'))
  <2>1. StackInv(heap, pool, stack, frames, Len(frames)) /\ FramesOK(frames', Len(frames'))
    BY <1>8 DEF IInv, CStackOK
  <2>2. Acquired(heap, pool, s, heap[stack].previous, heap', pool')
    BY <1>2, <1>4
  <2>3. StackInv(heap', pool', stack, frames', Len(frames'))
    BY <1>4, <1>6, <1>8, <2>1, <2>2, ZipStep
  <2>4. stack' = stack
    BY DEF StartZip
  <2>5. QED
    BY <2>3, <2>4
<1>10. KeepsIterated
  BY <1>4, AcquiringKeeps
<1>11. KeepsFilters
  BY <1>7, <1>8 DEF KeepsFilters, Pushed, IInv, CStackOK, StartZip, Running
<1>12. control' \in Control /\ context' \in Context /\ locked' \subseteq Context
  BY <1>1, <1>8 DEF Control, StartZip
<1>13. QED
  BY <1>8, <1>9, <1>10, <1>11, <1>12, StepDone

LEMMA DispatchKeeps ==
  ASSUME IInv, Dispatch
  PROVE  IInv' /\ KeepsIterated
<1> USE DEF Running, Goto, SetHeap
<1>0. {stack} \subseteq Workable /\ context \in Context /\ locked \subseteq Context
  BY Facts
<1>1. ASSUME NEW n \in 0 .. 1, DispatchRaise(n) PROVE IInv' /\ KeepsIterated
  <2>1. Worked(heap, heap', {stack})
    BY <1>1, DropsOK DEF DispatchRaise
  <2>2. QED
    BY <1>0, <1>1, <2>1, Stays DEF DispatchRaise, Control
<1>2. ASSUME NEW n \in 0 .. 1, StartLoop(n) PROVE IInv' /\ KeepsIterated
  <2>1. Worked(heap, heap', {stack})
    BY <1>2, DropsOK DEF StartLoop
  <2>2. QED
    BY <1>0, <1>2, <2>1, CallsPlain DEF StartLoop, Control
<1>3. ASSUME NEW n \in 0 .. 1, NEW out \in Outputs, Finish(n, out)
      PROVE  IInv' /\ KeepsIterated
  <2>1. n \in Nat /\ out \in Seq(Value)
    BY OutputValues
  <2>2. Worked(heap, heap', {stack})
    BY <1>3, <2>1, KeptWorks DEF Finish
  <2>3. QED
    BY <1>0, <1>3, <2>2, Stays DEF Finish, Control
<1>4. ASSUME NEW n \in 0 .. 1, NEW kind \in {"node", "operand"}, NEW out \in Outputs,
             DispatchCall(kind, n, out)
      PROVE  IInv' /\ KeepsIterated
  <2>1. n \in Nat /\ out \in Seq(Value)
    BY OutputValues
  <2>2. Worked(heap, heap', {stack})
    BY <1>4, <2>1, KeptWorks DEF DispatchCall
  <2>3. QED
    BY <1>0, <1>4, <2>2, CallsPlain DEF DispatchCall, Control
<1>5. ASSUME NEW kind \in {"map", "filter"}, StartEach(kind) PROVE IInv' /\ KeepsIterated
  BY <1>5, StartEachKeeps
<1>6. CASE StartZip
  BY <1>6, StartZipKeeps
<1>7. CASE StartCatch
  <2>1. Worked(heap, heap', {stack})
    BY <1>7, DropsOK DEF StartCatch
  <2>2. QED
    BY <1>0, <1>7, <2>1, CallsPlain DEF StartCatch, Control
<1>8. QED
  BY <1>1, <1>2, <1>3, <1>4, <1>5, <1>6, <1>7 DEF Dispatch

LEMMA CallKeeps ==
  ASSUME IInv, Call
  PROVE  IInv' /\ KeepsIterated
<1> USE DEF Running, Goto, SetHeap
<1>0. {stack} \subseteq Workable /\ context \in Context /\ locked \subseteq Context
  BY Facts
<1>1. CASE CallClosure
  <2>1. Worked(heap, heap', {}) /\ {} \subseteq Workable
    BY <1>1, NoWorkOK DEF CallClosure
  <2>2. PICK new \in Context : new = NewContext
    BY <1>1, NewContextOK DEF CallClosure
  <2>3. Enter(Scoped("call", context, new), "eval") /\ locked' \subseteq locked
    BY <1>1, <2>2 DEF CallClosure
  <2>4. QED
    BY <1>1, <2>1, <2>2, <2>3, CallsScoped DEF CallClosure, Control
<1>2. ASSUME NEW c \in HeldContexts, CallEvalin(c) PROVE IInv' /\ KeepsIterated
  <2>1. Worked(heap, heap', {stack})
    BY <1>2, DropsOK DEF CallEvalin
  <2>2. c \in Context
    BY HeldContextsOK
  <2>3. QED
    BY <1>0, <1>2, <2>1, <2>2, CallsScoped DEF CallEvalin, Control
<1>3. ASSUME NEW c \in HeldContexts, CallLock(c) PROVE IInv' /\ KeepsIterated
  <2>1. Worked(heap, heap', {stack})
    BY <1>3, DropsOK DEF CallLock
  <2>2. c \in Context
    BY HeldContextsOK
  <2>3. QED
    BY <1>0, <1>3, <2>1, <2>2, Stays DEF CallLock, Control
<1>4. ASSUME NEW v \in Value, CallValue(v) PROVE IInv' /\ KeepsIterated
  <2>1. Worked(heap, heap', {stack})
    BY <1>4, PushesOK DEF CallValue
  <2>2. QED
    BY <1>0, <1>4, <2>1, Stays DEF CallValue, Control
<1>5. ASSUME NEW v \in Value, CallList(v) PROVE IInv' /\ KeepsIterated
  <2>1. Worked(heap, heap', {stack})
    BY <1>5, ListWorks DEF CallList
  <2>2. QED
    BY <1>0, <1>5, <2>1, Stays DEF CallList, Control
<1>6. ASSUME NEW n \in 0 .. 2, CallNativeFails(n) PROVE IInv' /\ KeepsIterated
  <2>1. Worked(heap, heap', {stack})
    BY <1>6, DropsOK DEF CallNativeFails
  <2>2. QED
    BY <1>0, <1>6, <2>1, Stays DEF CallNativeFails, Control
<1>7. ASSUME NEW n \in 0 .. 2, NEW out \in Outputs, CallNative(n, out)
      PROVE  IInv' /\ KeepsIterated
  <2>1. n \in Nat /\ out \in Seq(Value)
    BY OutputValues
  <2>2. Worked(heap, heap', {stack})
    BY <1>7, <2>1, KeptWorks DEF CallNative
  <2>3. QED
    BY <1>0, <1>7, <2>2, Stays DEF CallNative, Control
<1>8. QED
  BY <1>1, <1>2, <1>3, <1>4, <1>5, <1>6, <1>7 DEF Call

\* The context the innermost frame saved.
LEMMA InnerContext ==
  ASSUME IInv, Inner.kind \in {"object", "call", "module"}
  PROVE  Inner.ctx \in Context
BY Facts DEF FrameOK

LEMMA LeavesGroup ==
  ASSUME IInv, NEW h, NEW W, W \subseteq Workable, Worked(heap, h, W),
         Stack_release(stack, h) \/ (heap' = h /\ pool' = pool),
         Inner.kind \in GroupKinds \cup {"zip"}, stack' = Inner.stk,
         NEW c \in Control, Leave(c), context' \in Context, locked' \subseteq Context
  PROVE  IInv' /\ KeepsIterated
<1>1. Inner.kind # "repl"
  BY DEF GroupKinds
<1>2. /\ CStackOK' /\ control' = c /\ KeepsFilters
      /\ Dropped(frames, Len(frames), frames', Len(frames'))
  BY <1>1, PopDrops
<1>3. QED
  BY <1>2, LeavesStack

LEMMA ModuleKeeps ==
  ASSUME IInv, ModuleReturns
  PROVE  IInv' /\ KeepsIterated
<1>1. Inner.kind = "module" /\ Inner.kind \in GroupKinds \cup {"zip"}
  BY DEF ModuleReturns, Returned, GroupKinds
<1>2. context' \in Context /\ locked' \subseteq Context
  BY <1>1, InnerContext, Facts DEF ModuleReturns
<1>3. Worked(heap, heap, {}) /\ {} \subseteq Workable
  BY Facts, NoWork
<1>4. Stack_release(stack, heap) /\ stack' = Inner.stk
  BY DEF ModuleReturns
<1>5. CASE Leave("eval")
  <2>1. "eval" \in Control
    BY DEF Control
  <2>2. QED
    BY <1>1, <1>2, <1>3, <1>4, <1>5, <2>1, LeavesGroup
<1>6. CASE Replace(Plain("node"), "call")
  <2>1. PICK f : f = Plain("node")
    OBVIOUS
  <2>2. FrameOK(f) /\ f.kind = "node" /\ f.stk = NoStack
    BY <2>1, PlainOK
  <2>3. f.kind = "repl" <=> Inner.kind = "repl"
    BY <1>1, <2>2
  <2>4. Replace(f, "call") /\ CStackOK
    BY <1>6, <2>1, Facts
  <2>5. /\ CStackOK' /\ control' = "call"
        /\ Swapped(frames, Len(frames), frames', Len(frames'), f)
    BY <2>2, <2>3, <2>4, ReplaceFits
  <2>6. Dropped(frames, Len(frames), frames', Len(frames'))
    BY <2>2, <2>5 DEF Dropped, GroupKinds
  <2>7. KeepsFilters
    BY <2>2, <2>5 DEF KeepsFilters, Swapped, IInv, CStackOK
  <2>8. control' \in Control
    BY <2>5 DEF Control
  <2>9. QED
    BY <1>1, <1>2, <1>3, <1>4, <2>5, <2>6, <2>7, <2>8, LeavesStack
<1>7. QED
  BY <1>5, <1>6 DEF ModuleReturns

\* map or filter has visited all of its stack.
LEMMA VisitedKeeps ==
  ASSUME IInv, Inner.kind \in {"map", "filter"},
         Stack_release(Inner.stk, heap), Leave("eval"),
         UNCHANGED <<stack, context, locked>>
  PROVE  IInv' /\ KeepsIterated
<1>1. /\ CStackOK' /\ control' = "eval" /\ KeepsFilters
      /\ Popped(frames, Len(frames), frames', Len(frames'))
  <2>1. Inner.kind # "repl"
    OBVIOUS
  <2>2. QED
    BY <2>1, PopDrops
<1>2. PICK t \in Stack : t = Inner.stk
  BY InnerStack DEF OwnerKinds
<1>3. /\ StackInv(heap, pool, stack, frames, Len(frames))
      /\ FramesOK(frames', Len(frames'))
  BY <1>1 DEF IInv, CStackOK
<1>4. HeapOK(heap, pool) /\ Chained(heap, pool) /\ Owned(heap, stack, frames, Len(frames))
  BY <1>3 DEF StackInv
<1>5. heap[t].status = "used" /\ Released(heap, pool, t, heap', pool')
  <2>1. heap[t].status = "used"
    BY <1>2, InnerStack DEF OwnerKinds
  <2>2. Stack_release(t, heap)
    BY <1>2
  <2>3. Released(heap, pool, t, heap', pool')
    BY <2>2 DEF Stack_release, Released
  <2>4. QED
    BY <2>1, <2>3
<1>6. /\ HeapOK(heap', pool') /\ Chained(heap', pool')
      /\ \A u \in Stack \ {t} : heap'[u] = heap[u]
  BY ONLY <1>4, <1>5, ReleasedOK
<1>7. StackInv(heap', pool', stack', frames', Len(frames'))
  <2>1. frames[Len(frames)].kind \in {"map", "filter"} /\ t = frames[Len(frames)].stk
    BY <1>2 DEF Inner
  <2>2. \A u \in Stack \ {frames[Len(frames)].stk} : heap'[u] = heap[u]
    BY <1>6, <2>1
  <2>3. StackInv(heap', pool', stack, frames', Len(frames'))
    BY <1>1, <1>3, <1>6, <2>1, <2>2, DropStep
  <2>4. QED
    BY <2>3
<1>8. KeepsIterated
  <2>1. Len(frames) \in Nat \ {0} /\ Len(frames') = Len(frames) - 1
    BY <1>1, Facts DEF Popped
  <2>2. ASSUME NEW j \in 1 .. Len(frames), j <= Len(frames'), frames[j].kind \in {"map", "filter"}
        PROVE  frames[j].stk \in Stack \ {t}
    <3>1. frames[j].stk \in Stack /\ frames[j].stk # NoStack
      BY <2>2, IteratedApart, StacksAssumption
    <3>2. j # Len(frames) /\ Len(frames) \in 1 .. Len(frames)
      BY <2>1, <2>2
    <3>3. QED
      BY <1>2, <1>4, <3>1, <3>2 DEF Owned, Inner
  <2>3. QED
    BY <1>6, <2>2 DEF KeepsIterated
<1>9. control' \in Control /\ context' \in Context /\ locked' \subseteq Context
  BY <1>1, Facts DEF Control
<1>10. QED
  BY <1>1, <1>7, <1>8, <1>9, StepDone

\* The frame of a map or filter after one more value.
Onward == [Inner EXCEPT !.i = @ + 1]

LEMMA OnwardOK ==
  ASSUME IInv
  PROVE  /\ FrameOK(Onward) /\ Onward.kind = Inner.kind /\ Onward.stk = Inner.stk
         /\ Onward.i = Inner.i + 1 /\ Inner.i \in Nat
<1>1. FrameOK(Inner) /\ Inner \in Frame
  BY Facts DEF FrameOK
<1>2. /\ Onward \in Frame /\ Onward.kind = Inner.kind /\ Onward.stk = Inner.stk
      /\ Onward.ctx = Inner.ctx /\ Onward.own = Inner.own
      /\ Onward.i = Inner.i + 1 /\ Inner.i \in Nat
  BY <1>1 DEF Onward, Frame
<1>3. QED
  BY <1>1, <1>2 DEF FrameOK

LEMMA NextValue ==
  ASSUME IInv, Inner.kind \in {"map", "filter"},
         Inner.i < Len(heap[Inner.stk].values)
  PROVE  heap[Inner.stk].values[Inner.i + 1] \in Value
<1>1. PICK vs \in Seq(Value) : vs = heap[Inner.stk].values
  BY InnerStack DEF OwnerKinds
<1>2. Inner.i \in Nat /\ Len(vs) \in Nat
  BY OnwardOK
<1>3. Inner.i + 1 \in 1 .. Len(vs)
  BY <1>1, <1>2
<1>4. QED
  BY <1>1, <1>3, ElementOfSeq

LEMMA MapKeeps ==
  ASSUME IInv, MapTurn
  PROVE  IInv' /\ KeepsIterated
<1>1. Inner.kind = "map" /\ context \in Context /\ locked \subseteq Context
      /\ {stack} \subseteq Workable
  BY Facts DEF MapTurn
<1>2. CASE Inner.i < Len(heap[Inner.stk].values)
  <2>1. PICK v \in Value : v = heap[Inner.stk].values[Inner.i + 1]
    BY <1>1, <1>2, NextValue
  <2>2. Worked(heap, heap', {stack}) /\ pool' = pool
    BY <1>2, <2>1, PushesOK DEF MapTurn, SetHeap
  <2>3. PICK f : f = Onward
    OBVIOUS
  <2>4. FrameOK(f) /\ f.kind = Inner.kind /\ f.stk = Inner.stk
    BY <2>3, OnwardOK
  <2>5. Replace(f, "call") /\ UNCHANGED <<stack, context, locked>> /\ "call" \in Control
    BY <1>2, <2>3 DEF MapTurn, Onward, Control
  <2>6. f.kind # "filter"
    BY <1>1, <2>4
  <2>7. context' \in Context /\ locked' \subseteq Context /\ UNCHANGED <<pool, stack>>
    BY <1>1, <2>2, <2>5
  <2>8. QED
    BY <1>1, <2>2, <2>4, <2>5, <2>6, <2>7, Turns
<1>3. CASE ~(Inner.i < Len(heap[Inner.stk].values))
  <2>1. Stack_release(Inner.stk, heap) /\ Leave("eval") /\ UNCHANGED <<stack, context, locked>>
    BY <1>3 DEF MapTurn
  <2>2. QED
    BY <1>1, <2>1, VisitedKeeps
<1>4. QED
  BY <1>2, <1>3

LEMMA FilterKeeps ==
  ASSUME IInv, FilterTurn
  PROVE  IInv' /\ KeepsIterated
<1>1. Inner.kind = "filter" /\ context \in Context /\ locked \subseteq Context
      /\ {stack} \subseteq Workable
  BY Facts DEF FilterTurn
<1>2. CASE Inner.i < Len(heap[Inner.stk].values)
  <2>1. PICK v \in Value : v = heap[Inner.stk].values[Inner.i + 1]
    BY <1>1, <1>2, NextValue
  <2>2. Worked(heap, heap', {stack}) /\ pool' = pool
    BY <1>2, <2>1, PushesOK DEF FilterTurn, SetHeap
  <2>3. PICK f : f = Onward
    OBVIOUS
  <2>4. FrameOK(f) /\ f.kind = Inner.kind /\ f.stk = Inner.stk
        /\ f.i = Inner.i + 1 /\ Inner.i \in Nat
    BY <2>3, OnwardOK
  <2>5. Replace(f, "call") /\ UNCHANGED <<stack, context, locked>>
    BY <1>2, <2>3 DEF FilterTurn, Onward
  <2>6. /\ CStackOK' /\ control' = "call"
        /\ Swapped(frames, Len(frames), frames', Len(frames'), f)
    BY <2>4, <2>5, ReplaceFits DEF IInv
  <2>7. Fits(frames, Len(frames), frames', Len(frames'))
    BY <2>4, <2>6 DEF Fits, Inner
  <2>8. StackInv(heap', pool', stack', frames', Len(frames')) /\ KeepsIterated
    BY <1>1, <2>2, <2>5, <2>6, <2>7, Works
  <2>9. Counted(heap, frames, Len(frames), control)'
    <3>1. Len(frames) \in Nat \ {0} /\ Len(frames') = Len(frames)
      BY <2>6, Facts DEF Swapped
    <3>2. ASSUME NEW j \in 1 .. Len(frames), frames'[j].kind = "filter"
          PROVE  /\ frames'[j].i <= Len(heap'[frames'[j].stk].values)
                 /\ frames'[j].i # 0
      <4>1. CASE j = Len(frames)
        <5>1. frames'[j] = f /\ frames[j] = Inner
          BY <2>6, <4>1 DEF Swapped, Inner
        <5>2. heap'[Inner.stk] = heap[Inner.stk]
          BY <1>1, <2>4, <2>8, <3>1, <4>1, <5>1 DEF KeepsIterated
        <5>3. Len(heap[Inner.stk].values) \in Nat
          BY <1>1, InnerStack DEF OwnerKinds
        <5>4. f.i <= Len(heap[Inner.stk].values) /\ f.i # 0
          BY <1>2, <2>4, <5>3
        <5>5. QED
          BY <2>4, <5>1, <5>2, <5>4
      <4>2. CASE j # Len(frames)
        <5>1. frames'[j] = frames[j]
          BY <2>6, <3>1, <4>2 DEF Swapped
        <5>2. heap'[frames[j].stk] = heap[frames[j].stk]
          BY <2>8, <3>1, <3>2, <5>1 DEF KeepsIterated
        <5>3. frames[j].i <= Len(heap[frames[j].stk].values) /\ frames[j].i # 0
          BY <3>2, <4>2, <5>1 DEF IInv, Counted
        <5>4. QED
          BY <5>1, <5>2, <5>3
      <4>3. QED
        BY <4>1, <4>2
    <3>3. QED
      BY <3>1, <3>2 DEF Counted
  <2>10. control' \in Control /\ context' \in Context /\ locked' \subseteq Context
    BY <1>1, <2>5, <2>6 DEF Control
  <2>11. QED
    BY <2>6, <2>8, <2>9, <2>10 DEF IInv
<1>3. CASE ~(Inner.i < Len(heap[Inner.stk].values))
  <2>1. Stack_release(Inner.stk, heap) /\ Leave("eval") /\ UNCHANGED <<stack, context, locked>>
    BY <1>3 DEF FilterTurn
  <2>2. QED
    BY <1>1, <2>1, VisitedKeeps
<1>4. QED
  BY <1>2, <1>3

LEMMA FilterAsks ==
  ASSUME IInv, FilterReturns, Size > 0
  PROVE  IInv' /\ KeepsIterated
<1>1. /\ Inner.kind = "filter" /\ control = "ok" /\ {stack} \subseteq Workable
      /\ locked \subseteq Context /\ Len(frames) \in Nat \ {0}
  BY Facts DEF FilterReturns, Returned, Running
<1>2. PICK vs \in Seq(Value) : vs = heap[Inner.stk].values
  BY <1>1, InnerStack DEF OwnerKinds
<1>3. Inner.i \in Nat /\ Inner.i <= Len(vs) /\ Inner.i # 0 /\ Len(vs) \in Nat
  <2>1. frames[Len(frames)].i <= Len(heap[frames[Len(frames)].stk].values)
        /\ frames[Len(frames)].i # 0
    BY <1>1 DEF IInv, Counted, Inner
  <2>2. QED
    BY <1>2, <2>1, OnwardOK DEF Inner
<1>4. PICK v \in Value : v = heap[Inner.stk].values[Inner.i]
  <2>1. vs[Inner.i] \in Value
    BY <1>3, ElementOfSeq
  <2>2. QED
    BY <1>2, <2>1
<1>5. PICK out \in {<<>>, <<v>>} : SetHeap(Write(heap, stack, Kept(1) \o out))
  BY <1>4 DEF FilterReturns
<1>6. out \in Seq(Value)
  <2>1. <<>> \in Seq(Value) /\ <<v>> \in Seq(Value)
    BY EmptySeq
  <2>2. QED
    BY <2>1
<1>7. Worked(heap, heap', {stack}) /\ pool' = pool
  BY <1>5, <1>6, KeptWorks DEF SetHeap
<1>8. control' = "turn" /\ UNCHANGED <<frames, stack, context, locked>>
  BY DEF FilterReturns, Goto
<1>9. QED
  BY <1>1, <1>7, <1>8, Stays DEF Control

\* The closure of a zip has delivered a value.
LEMMA ZipTakes ==
  ASSUME IInv, ZipReturns, Size > 0
  PROVE  IInv' /\ KeepsIterated
<1>1. /\ Inner.kind = "zip" /\ control = "ok" /\ stack \in Workable
      /\ locked \subseteq Context /\ heap[stack].values \in Seq(Value) /\ Size \in Nat
      /\ stack \in Stack
  BY Facts DEF ZipReturns, Returned, Running
<1>2. PICK t \in Stack : t = Inner.stk
  BY <1>1, InnerStack DEF OwnerKinds
<1>3. heap[t].status = "used" /\ t \in Workable
  BY <1>1, <1>2, InnerStack DEF OwnerKinds
<1>4. Worked(heap, Drop(heap, stack, 1), {stack})
  BY DropsOK
<1>5. PICK v \in Value : v = Top(heap, stack, 1)[1]
  <2>1. PICK vs \in Seq(Value) : vs = heap[stack].values
    BY <1>1
  <2>2. Len(vs) \in Nat /\ Len(vs) \in 1 .. Len(vs)
    BY <2>1 DEF Size
  <2>3. vs[Len(vs)] \in Value
    BY <2>2, ElementOfSeq
  <2>4. Top(heap, stack, 1) = SubSeq(vs, Len(vs), Len(vs))
    BY <2>1, <2>2 DEF Top
  <2>5. SubSeq(vs, Len(vs), Len(vs))[1] = vs[Len(vs)]
    BY <2>2
  <2>6. QED
    BY <2>3, <2>4, <2>5
<1> DEFINE G == Drop(heap, stack, 1)
<1>6. G \in [Stack -> StackType] /\ G[t].status = "used"
  BY <1>3, <1>4 DEF Worked
<1>7. heap' = Stack_push(G, t, v) /\ pool' = pool
  BY <1>2, <1>5 DEF ZipReturns, SetHeap
<1> HIDE DEF G
<1>8. Worked(G, heap', {t})
  BY <1>6, <1>7, PushWorks
<1>9. Worked(heap, heap', {stack} \cup {t})
  BY <1>4, <1>8, WorkTwice DEF G
<1>10. control' = "turn" /\ UNCHANGED <<frames, stack, context, locked>>
  BY DEF ZipReturns, Goto
<1>11. {stack} \cup {t} \subseteq Workable
  BY <1>1, <1>3
<1>12. QED
  BY <1>1, <1>7, <1>9, <1>10, <1>11, Stays DEF Control

LEMMA ReverseValues ==
  ASSUME NEW vs \in Seq(Value)
  PROVE  Reverse(vs) \in Seq(Value)
<1>1. Reverse(vs) = [i \in 1 .. Len(vs) |-> vs[Len(vs) - i + 1]] /\ Len(vs) \in Nat
  BY DEF Reverse
<1>2. \A i \in 1 .. Len(vs) : vs[Len(vs) - i + 1] \in Value
  BY <1>1, ElementOfSeq
<1>3. QED
  BY <1>1, <1>2

LEMMA ZipKeeps ==
  ASSUME IInv, ZipTurn
  PROVE  IInv' /\ KeepsIterated
<1>1. /\ Inner.kind = "zip" /\ control = "turn" /\ context \in Context
      /\ locked \subseteq Context /\ UNCHANGED <<context, locked>>
  BY Facts DEF ZipTurn, Running
<1>2. CASE Size > 0
  <2>1. control' = "call" /\ UNCHANGED <<heap, pool, frames, stack>>
    BY <1>2 DEF ZipTurn, Goto
  <2>2. Worked(heap, heap', {}) /\ {} \subseteq Workable
    BY <2>1, NoWorkOK
  <2>3. QED
    BY <1>1, <2>1, <2>2, Stays DEF Control
<1>3. CASE ~(Size > 0)
  <2>1. PICK t \in Stack : t = Inner.stk
    BY <1>1, InnerStack DEF OwnerKinds
  <2>2. heap[t].status = "used" /\ {t} \subseteq Workable
    BY <1>1, <2>1, InnerStack DEF OwnerKinds
  <2>3. PICK rs \in Seq(Value) : rs = Reverse(heap[t].values)
    BY <1>1, <2>1, InnerStack, ReverseValues DEF OwnerKinds
  <2>4. PICK h : h = [heap EXCEPT ![t].values = rs]
    OBVIOUS
  <2>5. Worked(heap, h, {t})
    <3>1. heap \in [Stack -> StackType] /\ heap[t] \in StackType
      BY Facts
    <3>2. QED
      BY <2>2, <2>4, <3>1 DEF Worked, StackType
  <2>6. Stack_release(stack, h) /\ stack' = Inner.stk /\ Leave("eval")
    BY <1>3, <2>1, <2>3, <2>4 DEF ZipTurn
  <2>7. Inner.kind \in GroupKinds \cup {"zip"} /\ "eval" \in Control
    BY <1>1 DEF Control
  <2>8. QED
    BY <1>1, <2>2, <2>5, <2>6, <2>7, LeavesGroup
<1>4. QED
  BY <1>2, <1>3

\* A frame without a stack of its own, map, filter, zip or module is left.
LEMMA ReturnsAs ==
  ASSUME IInv, NEW W, W \subseteq Workable, Worked(heap, heap', W),
         Inner.kind \notin {"repl", "group", "arg", "precall"},
         NEW c \in Control, Leave(c), UNCHANGED <<pool, stack>>,
         context' \in Context, UNCHANGED locked
  PROVE  IInv' /\ KeepsIterated
<1>1. Inner.kind # "repl" /\ (Inner.kind \in GroupKinds => Inner.kind = "module")
  BY DEF GroupKinds
<1>2. locked' \subseteq Context
  BY Facts
<1>3. QED
  BY <1>1, <1>2, Returns

LEMMA LeavesAs ==
  ASSUME IInv, Inner.kind # "repl", Inner.kind \notin {"group", "arg", "precall"},
         NEW c \in Control, Leave(c), UNCHANGED <<heap, pool, stack, context, locked>>
  PROVE  IInv' /\ KeepsIterated
<1>1. Worked(heap, heap', {}) /\ {} \subseteq Workable
  BY NoWorkOK
<1>2. context' \in Context
  BY Facts
<1>3. QED
  BY <1>1, <1>2, ReturnsAs

LEMMA GroupOver ==
  ASSUME IInv, Inner.kind \in {"group", "arg", "precall"},
         \/ Stack_release(stack, MoveAll(heap, stack, Inner.stk))
         \/ Stack_release(stack, heap)
         \/ SetHeap(MoveAll(heap, stack, Inner.stk)),
         stack' = Inner.stk, NEW c \in Control, Leave(c), UNCHANGED <<context, locked>>
  PROVE  IInv' /\ KeepsIterated
<1>1. /\ Inner.kind \in GroupKinds /\ Inner.kind \in GroupKinds \cup {"zip"}
      /\ context' \in Context /\ locked' \subseteq Context
  BY Facts DEF GroupKinds
<1>2. CASE \/ Stack_release(stack, MoveAll(heap, stack, Inner.stk))
           \/ SetHeap(MoveAll(heap, stack, Inner.stk))
  <2>1. PICK h : h = MoveAll(heap, stack, Inner.stk)
    OBVIOUS
  <2>2. PICK W : W = {stack, Inner.stk}
    OBVIOUS
  <2>3. Worked(heap, h, W) /\ W \subseteq Workable
    BY <1>1, <2>1, <2>2, MovesOK
  <2>4. Stack_release(stack, h) \/ (heap' = h /\ pool' = pool)
    BY <1>2, <2>1 DEF SetHeap
  <2>5. QED
    BY <1>1, <2>3, <2>4, LeavesGroup
<1>3. CASE Stack_release(stack, heap)
  <2>1. Worked(heap, heap, {}) /\ {} \subseteq Workable
    BY Facts, NoWork
  <2>2. QED
    BY <1>1, <1>3, <2>1, LeavesGroup
<1>4. QED
  BY <1>2, <1>3

\* The frame of an argument becomes that of the call.
LEMMA ArgKeeps ==
  ASSUME IInv, ArgReturns
  PROVE  IInv' /\ KeepsIterated
<1>1. Inner.kind = "arg" /\ UNCHANGED <<heap, pool, stack, context, locked>>
  BY DEF ArgReturns, Returned
<1>2. PICK f : f = [Inner EXCEPT !.kind = "precall"]
  OBVIOUS
<1>3. Inner \in Frame /\ FrameOK(Inner)
  BY Facts DEF FrameOK
<1>4. f \in Frame /\ f.kind = "precall" /\ f.stk = Inner.stk
  BY <1>2, <1>3 DEF Frame, Kind
<1>5. FrameOK(f) /\ f.kind \in GroupKinds /\ Inner.kind \in GroupKinds
  BY <1>1, <1>3, <1>4 DEF FrameOK, OwnerKinds, GroupKinds
<1>6. Replace(f, "call") /\ "call" \in Control
  BY <1>2 DEF ArgReturns, Control
<1>7. Worked(heap, heap', {}) /\ {} \subseteq Workable
  BY <1>1, NoWorkOK
<1>8. context' \in Context /\ locked' \subseteq Context
  BY <1>1, Facts
<1>9. /\ f.kind # "filter" /\ (f.kind = "repl" <=> Inner.kind = "repl")
      /\ (f.kind \in GroupKinds <=> Inner.kind \in GroupKinds)
      /\ (f.kind = "module" <=> Inner.kind = "module")
      /\ (f.kind = "zip" <=> Inner.kind = "zip")
  BY <1>1, <1>4, <1>5
<1>10. QED
  BY <1>1, <1>4, <1>5, <1>6, <1>7, <1>8, <1>9, Turns

LEMMA ReturnKeeps ==
  ASSUME IInv, Return
  PROVE  IInv' /\ KeepsIterated
<1> USE DEF Running
<1>0. /\ {stack} \subseteq Workable /\ context \in Context /\ locked \subseteq Context
      /\ {"eval", "ok", "fail", "dispatch", "turn", "call"} \subseteq Control
  BY Facts DEF Control
<1>1. CASE NodeReturns
  BY <1>0, <1>1, LeavesAs DEF NodeReturns, Returned
<1>2. CASE OperandReturns
  <2>1. CASE Size > 0
    <3>1. Worked(heap, heap', {stack}) /\ pool' = pool
      BY <1>2, <2>1, DropsOK DEF OperandReturns, SetHeap
    <3>2. /\ Inner.kind = "operand" /\ Leave("dispatch")
          /\ UNCHANGED <<stack, context, locked>>
      BY <1>2, <2>1 DEF OperandReturns, Returned
    <3>3. QED
      BY <1>0, <3>1, <3>2, ReturnsAs
  <2>2. CASE ~(Size > 0)
    BY <1>0, <1>2, <2>2, LeavesAs DEF OperandReturns, Returned
  <2>3. QED
    BY <2>1, <2>2
<1>3. CASE GroupReturns
  BY <1>0, <1>3, GroupOver DEF GroupReturns, Returned
<1>4. CASE ArgReturns
  BY <1>4, ArgKeeps
<1>5. CASE PrecallReturns
  <2>1. PICK c \in Control : c = IF control = "ok" THEN "eval" ELSE "fail"
    BY <1>0
  <2>2. QED
    BY <1>0, <1>5, <2>1, GroupOver DEF PrecallReturns
<1>6. CASE CallReturns
  <2>1. PICK c \in Control : c = control
    BY Facts
  <2>2. /\ Inner.kind = "call" /\ Leave(c) /\ context' = Inner.ctx
        /\ UNCHANGED <<heap, pool, stack, locked>>
    BY <1>6, <2>1 DEF CallReturns
  <2>3. Worked(heap, heap', {}) /\ {} \subseteq Workable
    BY <2>2, NoWorkOK
  <2>4. context' \in Context
    BY <2>2, InnerContext
  <2>5. QED
    BY <2>2, <2>3, <2>4, ReturnsAs
<1>7. CASE ModuleReturns
  BY <1>7, ModuleKeeps
<1>8. CASE CatchReturns
  BY <1>0, <1>8, LeavesAs DEF CatchReturns, Returned
<1>9. CASE MapTurn
  BY <1>9, MapKeeps
<1>10. CASE FilterTurn
  BY <1>10, FilterKeeps
<1>11. CASE FilterReturns
  <2>1. CASE Size > 0
    BY <1>11, <2>1, FilterAsks
  <2>2. CASE ~(Size > 0)
    BY <1>0, <1>11, <2>2, LeavesAs DEF FilterReturns, Returned
  <2>3. QED
    BY <2>1, <2>2
<1>12. CASE ZipTurn
  BY <1>12, ZipKeeps
<1>13. CASE ZipReturns
  <2>1. CASE Size > 0
    BY <1>13, <2>1, ZipTakes
  <2>2. CASE ~(Size > 0)
    BY <1>0, <1>13, <2>2, LeavesAs DEF ZipReturns, Returned
  <2>3. QED
    BY <2>1, <2>2
<1>14. CASE LoopTurn
  <2>1. Inner.kind = "loop" /\ UNCHANGED <<stack, context, locked>>
    BY <1>14 DEF LoopTurn
  <2>2. PICK n \in {0, 1} : SetHeap(Drop(heap, stack, n))
    BY <1>14 DEF LoopTurn
  <2>3. Worked(heap, heap', {stack}) /\ pool' = pool
    BY <2>2, DropsOK DEF SetHeap
  <2>4. CASE control' = "call" /\ UNCHANGED frames
    BY <1>0, <2>1, <2>3, <2>4, Stays
  <2>5. CASE Leave("eval")
    BY <1>0, <2>1, <2>3, <2>5, ReturnsAs
  <2>6. CASE Leave("fail")
    BY <1>0, <2>1, <2>3, <2>6, ReturnsAs
  <2>7. QED
    BY <1>14, <2>4, <2>5, <2>6 DEF LoopTurn, Goto
<1>15. ASSUME NEW v \in Value, ObjectReturns(v) PROVE IInv' /\ KeepsIterated
  <2>1. Inner.kind = "object" /\ UNCHANGED <<stack, locked>>
    BY <1>15 DEF ObjectReturns
  <2>2. CASE context \in locked
    BY <1>0, <1>15, <2>1, <2>2, LeavesAs DEF ObjectReturns
  <2>3. CASE context \notin locked
    <3>1. PICK c \in Control : c = IF control = "ok" THEN "eval" ELSE "fail"
      BY <1>0
    <3>2. Leave(c) /\ context' = Inner.ctx /\ SetHeap(Stack_push(heap, stack, v))
      BY <1>15, <2>3, <3>1 DEF ObjectReturns
    <3>3. Worked(heap, heap', {stack}) /\ pool' = pool /\ context' \in Context
      BY <2>1, <3>2, PushesOK, InnerContext DEF SetHeap
    <3>4. QED
      BY <1>0, <2>1, <3>2, <3>3, ReturnsAs
  <2>4. QED
    BY <2>2, <2>3
<1>16. QED
  BY <1>1, <1>2, <1>3, <1>4, <1>5, <1>6, <1>7, <1>8, <1>9, <1>10, <1>11, <1>12,
     <1>13, <1>14, <1>15 DEF Return

LEMMA FailKeeps ==
  ASSUME IInv, Fail
  PROVE  IInv' /\ KeepsIterated
<1> USE DEF Running
<1>0. /\ {stack} \subseteq Workable /\ context \in Context /\ locked \subseteq Context
      /\ {"eval", "fail", "call"} \subseteq Control
  BY Facts DEF Control
<1>1. CASE Unwind
  BY <1>0, <1>1, LeavesAs DEF Unwind
<1>2. CASE GroupFails
  BY <1>0, <1>2, GroupOver DEF GroupFails
<1>3. CASE ArgFails
  BY <1>0, <1>3, GroupOver DEF ArgFails
<1>4. ASSUME NEW v \in Value, Catch(v) PROVE IInv' /\ KeepsIterated
  <2>1. Worked(heap, heap', {stack}) /\ pool' = pool
    BY <1>4, PushesOK DEF Catch, SetHeap
  <2>2. PICK f : f = Plain("node")
    OBVIOUS
  <2>3. FrameOK(f) /\ f.kind = "node" /\ f.stk = NoStack /\ f.kind \notin GroupKinds
    BY <2>2, PlainOK
  <2>4. Inner.kind = "catch" /\ Inner.kind \notin GroupKinds /\ Inner.kind \notin OwnerKinds
    BY <1>4 DEF Catch, GroupKinds, OwnerKinds
  <2>5. f.stk = Inner.stk
    BY <2>3, <2>4, Facts DEF FrameOK
  <2>6. Replace(f, "call") /\ UNCHANGED <<stack, context, locked>>
    BY <1>4, <2>2 DEF Catch
  <2>7. /\ f.kind # "filter" /\ (f.kind = "repl" <=> Inner.kind = "repl")
        /\ (f.kind \in GroupKinds <=> Inner.kind \in GroupKinds)
        /\ (f.kind = "module" <=> Inner.kind = "module")
        /\ (f.kind = "zip" <=> Inner.kind = "zip")
    BY <2>3, <2>4
  <2>8. context' \in Context /\ locked' \subseteq Context
    BY <1>0, <2>6
  <2>9. QED
    BY <1>0, <2>1, <2>3, <2>5, <2>6, <2>7, <2>8, Turns
<1>5. QED
  BY <1>1, <1>2, <1>3, <1>4 DEF Fail

LEMMA NextLineKeeps ==
  ASSUME IInv, NextLine
  PROVE  IInv' /\ KeepsIterated
<1>0. /\ {stack} \subseteq Workable /\ context \in Context /\ locked \subseteq Context
      /\ "eval" \in Control
  BY Facts DEF Control
<1>1. Inner.kind = "repl" /\ UNCHANGED <<pool, stack, context, locked>>
  BY DEF NextLine, SetHeap
<1>2. Worked(heap, heap', {stack})
  <2>1. heap \in [Stack -> StackType] /\ stack \in Stack /\ heap[stack].status = "used"
    BY Facts
  <2>2. <<>> \in Seq(Value)
    BY EmptySeq
  <2>3. heap' = [heap EXCEPT ![stack].values = <<>>]
    BY DEF NextLine, SetHeap
  <2>4. QED
    BY <2>1, <2>2, <2>3 DEF Worked, StackType
<1>3. PICK f : f = [Inner EXCEPT !.own = context]
  OBVIOUS
<1>4. Inner \in Frame /\ FrameOK(Inner)
  BY Facts DEF FrameOK
<1>5. f \in Frame /\ f.kind = "repl" /\ f.stk = Inner.stk /\ f.own = context
  BY <1>0, <1>1, <1>3, <1>4 DEF Frame
<1>6. FrameOK(f)
  BY <1>0, <1>1, <1>4, <1>5 DEF FrameOK
<1>7. Replace(f, "eval")
  BY <1>3 DEF NextLine
<1>8. /\ f.kind # "filter" /\ (f.kind = "repl" <=> Inner.kind = "repl")
      /\ (f.kind \in GroupKinds <=> Inner.kind \in GroupKinds)
      /\ (f.kind = "module" <=> Inner.kind = "module")
      /\ (f.kind = "zip" <=> Inner.kind = "zip")
  BY <1>1, <1>5
<1>9. context' \in Context /\ locked' \subseteq Context
  BY <1>0, <1>1
<1>10. QED
  BY <1>0, <1>1, <1>2, <1>5, <1>6, <1>7, <1>8, <1>9, Turns

LEMMA StutterKeeps ==
  ASSUME IInv, UNCHANGED vars
  PROVE  IInv' /\ KeepsIterated
BY DEF IInv, CStackOK, KeepsIterated, vars

LEMMA InitIInv ==
  ASSUME Init
  PROVE  IInv
<1> USE StacksAssumption, EvaluatorAssumption
<1>1. stack \in Stack /\ context \in Context /\ pool = NoStack
  BY DEF Init
<1>2. PICK f : f = [Plain("repl") EXCEPT !.own = context]
  OBVIOUS
<1>3. /\ f.kind = "repl" /\ f.stk = NoStack /\ f.own = context /\ f \in Frame
  BY <1>1, <1>2 DEF Plain, Frame, Kind
<1>4. FrameOK(f) /\ f.kind \notin GroupKinds \cup {"zip"}
  BY <1>1, <1>3 DEF FrameOK, OwnerKinds, GroupKinds
<1>5. /\ frames = <<f>> /\ frames \in Seq(Frame) /\ Len(frames) = 1 /\ frames[1] = f
  BY <1>2, <1>3 DEF Init
<1>6. CStackOK
  BY <1>3, <1>4, <1>5 DEF CStackOK, FramesOK
<1>7. \A s \in Stack : /\ heap[s] \in StackType /\ heap[s].previous = NoStack
                       /\ heap[s].status = IF s = stack THEN "used" ELSE "gone"
  <2>1. ASSUME NEW s \in Stack
        PROVE  /\ heap[s] \in StackType /\ heap[s].previous = NoStack
               /\ heap[s].status = IF s = stack THEN "used" ELSE "gone"
    <3>1. <<>> \in Seq(Value)
      BY EmptySeq
    <3>2. heap[s] = IF s = stack THEN NewStack(NoStack)
                    ELSE [NewStack(NoStack) EXCEPT !.status = "gone"]
      BY DEF Init
    <3>3. NewStack(NoStack) \in StackType
      BY <3>1 DEF NewStack, StackType
    <3>4. CASE s = stack
      BY <3>2, <3>3, <3>4 DEF NewStack
    <3>5. CASE s # stack
      <4>1. heap[s] = [values |-> <<>>, previous |-> NoStack, big |-> FALSE, status |-> "gone"]
        BY <3>2, <3>5 DEF NewStack
      <4>2. heap[s] \in StackType
        BY <3>1, <4>1 DEF StackType
      <4>3. QED
        BY <3>5, <4>1, <4>2
    <3>6. QED
      BY <3>4, <3>5
  <2>2. QED
    BY <2>1
<1>8. heap \in [Stack -> StackType]
  BY <1>7 DEF Init
<1>9. HeapOK(heap, pool) /\ Chained(heap, pool)
  BY <1>1, <1>7, <1>8 DEF HeapOK, Chained
<1>10. Owned(heap, stack, frames, Len(frames))
  BY <1>1, <1>3, <1>5, <1>7 DEF Owned
<1>11. Links(heap, stack, frames, Len(frames))
  <2>1. heap[stack].previous = NoStack
    BY <1>1, <1>7
  <2>2. \A j \in 1 .. Len(frames) : frames[j].kind \notin GroupKinds \cup {"zip"}
    BY <1>4, <1>5
  <2>3. QED
    BY <2>1, <2>2 DEF Links, Linked
<1>12. Counted(heap, frames, Len(frames), control)
  BY <1>3, <1>5 DEF Counted
<1>13. control \in Control /\ locked \subseteq Context
  BY DEF Init, Control
<1>14. QED
  BY <1>1, <1>6, <1>9, <1>10, <1>11, <1>12, <1>13 DEF IInv, StackInv, CStackOK
-----------------------------------------------------------------------------
(* The theorems                                                            *)

LEMMA StepKeeps ==
  ASSUME IInv, [Next]_vars
  PROVE  IInv' /\ KeepsIterated
BY EvalKeeps, DispatchKeeps, CallKeeps, ReturnKeeps, FailKeeps, NextLineKeeps,
   StutterKeeps DEF Next

\* The invariant the other theorems rest on: it is inductive.
THEOREM Inductive == Spec => []IInv
<1>1. Init => IInv
  BY InitIInv
<1>2. IInv /\ [Next]_vars => IInv'
  BY StepKeeps
<1>3. QED
  BY <1>1, <1>2, PTL DEF Spec

\* The evaluator never leaves the states its C code is written for: the C stack
\* stands on the prompt, and the pool only holds stacks with small buffers.
THEOREM EvaluatorTypeOK == Spec => []TypeOK
<1>1. IInv => TypeOK
  BY DEF IInv, CStackOK, FramesOK, StackInv, HeapOK, Owned, TypeOK
<1>2. QED
  BY <1>1, Inductive, PTL

\* A stack that some C function will use again is neither in the pool nor
\* freed, and no two C functions wait for the same one, however groups, maps,
\* zips, modules and failures are nested.
THEOREM EvaluatorPoolSound == Spec => []PoolSound
<1>1. IInv => PoolSound
  <2>1. SUFFICES ASSUME IInv PROVE PoolSound
    OBVIOUS
  <2>2. Owned(heap, stack, frames, Len(frames)) /\ DOMAIN frames = 1 .. Len(frames)
    BY <2>1 DEF IInv, CStackOK, StackInv
  <2>3. \A s \in HeldStacks : heap[s].status = "used"
    BY <2>2 DEF Owned, HeldStacks
  <2>4. \A j \in DOMAIN frames : frames[j].stk # stack
    BY <2>2, StacksAssumption DEF Owned
  <2>5. \A j, k \in DOMAIN frames :
          frames[j].stk = frames[k].stk /\ frames[j].stk # NoStack => j = k
    BY <2>2 DEF Owned
  <2>6. QED
    BY <2>3, <2>4, <2>5 DEF PoolSound
<1>2. QED
  BY <1>1, Inductive, PTL

\* `.` never takes values from a stack further out than the one the innermost
\* group has interrupted, from a recycled one, or from a module's importer.
THEOREM EvaluatorPreviousIsEnclosing == Spec => []PreviousIsEnclosing
<1>1. IInv => PreviousIsEnclosing
  <2>1. SUFFICES ASSUME IInv, heap[stack].previous # NoStack
                 PROVE  heap[stack].previous = Enclosing
    BY DEF PreviousIsEnclosing
  <2>2. /\ Linked(heap[stack].previous, frames, Len(frames))
        /\ DOMAIN frames = 1 .. Len(frames) /\ Len(frames) \in Nat
    BY <2>1 DEF IInv, CStackOK, StackInv, Links
  <2>3. PICK j \in 1 .. Len(frames) :
          /\ frames[j].kind \in GroupKinds \ {"module"}
          /\ frames[j].stk = heap[stack].previous
          /\ \A k \in j + 1 .. Len(frames) : frames[k].kind \notin GroupKinds
    BY <2>1, <2>2 DEF Linked
  <2>4. j \in StackFrames /\ \A k \in StackFrames : k \in Nat /\ k <= j
    BY <2>2, <2>3 DEF StackFrames, GroupKinds
  <2>5. (CHOOSE i \in StackFrames : \A k \in StackFrames : k <= i) = j
    <3>1. \A i \in StackFrames : (\A k \in StackFrames : k <= i) => i = j
      BY <2>4
    <3>2. QED
      BY <2>4, <3>1
  <2>6. QED
    BY <2>3, <2>4, <2>5 DEF Enclosing
<1>2. QED
  BY <1>1, Inductive, PTL

\* While map or filter runs, nothing its closure does, nor what that calls,
\* changes the values it still has to visit.
THEOREM EvaluatorIteratedStackKept == Spec => IteratedStackKept
<1>1. IInv /\ [Next]_vars =>
        [\A j \in DOMAIN frames \cap DOMAIN frames' :
           frames[j].kind \in {"map", "filter"} /\ frames'[j].stk = frames[j].stk
             => heap'[frames[j].stk] = heap[frames[j].stk]]_vars
  <2>1. SUFFICES ASSUME IInv, [Next]_vars,
                        NEW j \in DOMAIN frames \cap DOMAIN frames',
                        frames[j].kind \in {"map", "filter"}, frames'[j].stk = frames[j].stk
                 PROVE  heap'[frames[j].stk] = heap[frames[j].stk]
    OBVIOUS
  <2>2. IInv' /\ KeepsIterated
    BY <2>1, StepKeeps
  <2>3. j \in 1 .. Len(frames) /\ j <= Len(frames')
    BY <2>1, <2>2 DEF IInv, CStackOK
  <2>4. QED
    BY <2>1, <2>2, <2>3 DEF KeepsIterated
<1>2. QED
  BY <1>1, Inductive, PTL DEF Spec, IteratedStackKept

\* A failure unwinds one C function at a time until a catch or the prompt.
THEOREM EvaluatorOnlyCatchSwallows == Spec => OnlyCatchSwallows
<1>1. [Next]_vars =>
        [control = "fail" => \/ control' = "fail" /\ frames' = Below
                             \/ Inner.kind \in {"catch", "repl"}]_vars
  <2>1. SUFFICES ASSUME Next, control = "fail", Inner.kind \notin {"catch", "repl"}
                 PROVE  control' = "fail" /\ frames' = Below
    OBVIOUS
  <2> USE DEF Running, Leave, Goto
  <2>2. ~Eval
    BY <2>1 DEF Eval, NodePush, NodePop, NodeRaise, NodeCall, NodeOperand,
                NodeNewStack, NodeObject, NodeImport, NodeDots, EndBody
  <2>3. ~Dispatch
    BY <2>1 DEF Dispatch, DispatchRaise, StartLoop, Finish, DispatchCall, StartEach,
                StartZip, StartCatch
  <2>4. ~Call
    BY <2>1 DEF Call, CallClosure, CallEvalin, CallLock, CallValue, CallList,
                CallNativeFails, CallNative
  <2>5. CASE Return
    <3>1. PrecallReturns \/ CallReturns \/ \E v \in Value : ObjectReturns(v)
      BY <2>1, <2>5 DEF Return, Returned, NodeReturns, OperandReturns, GroupReturns,
           ArgReturns, ModuleReturns, CatchReturns, MapTurn, FilterTurn, FilterReturns,
           ZipTurn, ZipReturns, LoopTurn
    <3>2. QED
      BY <2>1, <3>1 DEF PrecallReturns, CallReturns, ObjectReturns
  <2>6. CASE Fail
    BY <2>1, <2>6 DEF Fail, Unwind, GroupFails, ArgFails, Catch
  <2>7. ~NextLine
    BY <2>1 DEF NextLine
  <2>8. QED
    BY <2>1, <2>2, <2>3, <2>4, <2>5, <2>6, <2>7 DEF Next
<1>2. QED
  BY <1>1, PTL DEF Spec, OnlyCatchSwallows
-----------------------------------------------------------------------------
(* Every node is evaluated in the context of the body it is part of, for   *)
(* any program and any depth of the C stack.  A failure may leave          *)
(* vm->context anywhere on its way out (an object that is locked and a     *)
(* module do not restore it), so the argument is about who can see the     *)
(* end of it: only a catch and the prompt.  A catch waits for a call and   *)
(* nothing else, and evalCall of a closure restores the context whether    *)
(* the body has failed or not; the prompt takes whatever is current.       *)
(*                                                                         *)
(* The C stack is frames F with n of them, the current context is x, and   *)
(* F2, n2, x2 are what a step makes of them.                               *)

ScopeKinds == {"repl", "object", "module", "call"}

\* x is the context that the innermost body among the first m frames runs in.
Within(x, F, m) ==
  \E j \in 1 .. m : /\ F[j].kind \in ScopeKinds
                    /\ F[j].own = x
                    /\ \A k \in j + 1 .. m : F[k].kind \notin ScopeKinds

\* What a body will restore is the context of the body around it; and above a
\* catch there is a call.
Nested(F, n) ==
  /\ \A j \in 1 .. n : F[j].kind \in ScopeKinds \ {"repl"} => Within(F[j].ctx, F, j - 1)
  /\ \A j \in 1 .. n - 1 : F[j].kind = "catch" => F[j + 1].kind = "call"

\* c is what the running C function does.
Here(F, n, x, c) ==
  /\ c # "fail" \/ F[n].kind = "catch" => Within(x, F, n)
  /\ F[n].kind = "catch" => c \in {"call", "ok", "fail"}

ScopeInv == Nested(frames, Len(frames)) /\ Here(frames, Len(frames), context, control)
-----------------------------------------------------------------------------
LEMMA WithinSame ==
  ASSUME NEW x, NEW m \in Nat, NEW F, NEW F2, Within(x, F, m),
         \A j \in 1 .. m : F2[j] = F[j]
  PROVE  Within(x, F2, m)
<1>1. PICK j \in 1 .. m : /\ F[j].kind \in ScopeKinds
                          /\ F[j].own = x
                          /\ \A k \in j + 1 .. m : F[k].kind \notin ScopeKinds
  BY DEF Within
<1>2. F2[j] = F[j] /\ \A k \in j + 1 .. m : F2[k] = F[k]
  BY <1>1
<1>3. QED
  BY <1>1, <1>2 DEF Within

LEMMA WithinUp ==
  ASSUME NEW x, NEW m \in Nat, NEW F, F[m + 1].kind \notin ScopeKinds
  PROVE  Within(x, F, m) <=> Within(x, F, m + 1)
<1>1. \A j \in 1 .. m + 1 : F[j].kind \in ScopeKinds => j \in 1 .. m
  OBVIOUS
<1>2. ASSUME NEW j \in 1 .. m
      PROVE  (\A k \in j + 1 .. m : F[k].kind \notin ScopeKinds) <=>
             (\A k \in j + 1 .. m + 1 : F[k].kind \notin ScopeKinds)
  OBVIOUS
<1>3. QED
  BY <1>1, <1>2 DEF Within

LEMMA WithinTop ==
  ASSUME NEW m \in Nat \ {0}, NEW F, F[m].kind \in ScopeKinds
  PROVE  Within(F[m].own, F, m)
BY DEF Within

\* Nested is about the frames alone.
LEMMA NestedPushed ==
  ASSUME NEW n \in Nat \ {0}, NEW F, Nested(F, n),
         NEW F2, NEW n2, NEW f, Pushed(F, n, F2, n2, f),
         F[n].kind = "catch" => f.kind = "call",
         f.kind \in ScopeKinds \ {"repl"} => Within(f.ctx, F, n)
  PROVE  Nested(F2, n2)
<1>1. n2 = n + 1 /\ F2[n2] = f /\ \A j \in 1 .. n : F2[j] = F[j]
  BY DEF Pushed
<1>2. \A m \in 0 .. n : \A x : Within(x, F, m) => Within(x, F2, m)
  BY <1>1, WithinSame
<1>3. ASSUME NEW j \in 1 .. n2, F2[j].kind \in ScopeKinds \ {"repl"}
      PROVE  Within(F2[j].ctx, F2, j - 1)
  <2>1. CASE j = n2
    <3>1. Within(f.ctx, F, n) /\ n \in 0 .. n /\ j - 1 = n /\ F2[j] = f
      BY <1>1, <1>3, <2>1
    <3>2. Within(f.ctx, F2, n)
      BY <1>2, <3>1
    <3>3. QED
      BY <3>1, <3>2
  <2>2. CASE j # n2
    <3>1. j \in 1 .. n /\ F2[j] = F[j] /\ j - 1 \in 0 .. n
      BY <1>1, <2>2
    <3>2. Within(F[j].ctx, F, j - 1)
      BY <1>3, <3>1 DEF Nested
    <3>3. QED
      BY <1>2, <3>1, <3>2
  <2>3. QED
    BY <2>1, <2>2
<1>4. ASSUME NEW j \in 1 .. n2 - 1, F2[j].kind = "catch" PROVE F2[j + 1].kind = "call"
  <2>1. CASE j = n
    BY <1>1, <1>4, <2>1
  <2>2. CASE j # n
    <3>1. j \in 1 .. n - 1 /\ j \in 1 .. n /\ j + 1 \in 1 .. n
      BY <1>1, <2>2
    <3>2. QED
      BY <1>1, <1>4, <3>1 DEF Nested
  <2>3. QED
    BY <2>1, <2>2
<1>5. QED
  BY <1>3, <1>4 DEF Nested

LEMMA NestedPopped ==
  ASSUME NEW n \in Nat \ {0}, NEW F, Nested(F, n), NEW F2, NEW n2 \in Nat, Popped(F, n, F2, n2)
  PROVE  /\ Nested(F2, n2)
         /\ n2 # 0 => (F2[n2].kind = "catch" => F[n].kind = "call")
         /\ \A x : Within(x, F, n2) => Within(x, F2, n2)
<1>1. n2 = n - 1 /\ \A j \in 1 .. n2 : F2[j] = F[j] /\ j \in 1 .. n
  BY DEF Popped
<1>2. \A m \in 0 .. n2 : \A x : Within(x, F, m) => Within(x, F2, m)
  BY <1>1, WithinSame
<1>3. ASSUME NEW j \in 1 .. n2, F2[j].kind \in ScopeKinds \ {"repl"}
      PROVE  Within(F2[j].ctx, F2, j - 1)
  <2>1. F2[j] = F[j] /\ j \in 1 .. n /\ j - 1 \in 0 .. n2
    BY <1>1
  <2>2. Within(F[j].ctx, F, j - 1)
    BY <1>3, <2>1 DEF Nested
  <2>3. QED
    BY <1>2, <2>1, <2>2
<1>4. ASSUME NEW j \in 1 .. n2 - 1, F2[j].kind = "catch" PROVE F2[j + 1].kind = "call"
  <2>1. j \in 1 .. n2 /\ j + 1 \in 1 .. n2 /\ j \in 1 .. n - 1
    BY <1>1
  <2>2. QED
    BY <1>1, <1>4, <2>1 DEF Nested
<1>5. n2 # 0 => (F2[n2].kind = "catch" => F[n].kind = "call")
  <2>1. SUFFICES ASSUME n2 # 0, F2[n2].kind = "catch" PROVE F[n].kind = "call"
    OBVIOUS
  <2>2. n2 \in 1 .. n2 /\ n2 \in 1 .. n - 1 /\ n2 + 1 = n
    BY <1>1, <2>1
  <2>3. QED
    BY <1>1, <2>1, <2>2 DEF Nested
<1>6. n2 \in 0 .. n2
  OBVIOUS
<1>7. QED
  BY <1>2, <1>3, <1>4, <1>5, <1>6 DEF Nested

\* A frame that is not a body is replaced by another one; or a module by the
\* call of its `_delay`, or the prompt by itself.
LEMMA NestedSwapped ==
  ASSUME NEW n \in Nat \ {0}, NEW F, Nested(F, n),
         NEW F2, NEW n2, NEW f, Swapped(F, n, F2, n2, f),
         f.kind \notin ScopeKinds \/ f.kind = "repl",
         F[n].kind # "call"
  PROVE  Nested(F2, n2) /\ \A x : Within(x, F, n - 1) => Within(x, F2, n - 1)
<1>1. n2 = n /\ F2[n] = f /\ \A j \in 1 .. n - 1 : F2[j] = F[j]
  BY DEF Swapped
<1>2. \A m \in 0 .. n - 1 : \A x : Within(x, F, m) => Within(x, F2, m)
  BY <1>1, WithinSame
<1>3. ASSUME NEW j \in 1 .. n2, F2[j].kind \in ScopeKinds \ {"repl"}
      PROVE  Within(F2[j].ctx, F2, j - 1)
  <2>1. j # n
    BY <1>1, <1>3
  <2>2. j \in 1 .. n - 1 /\ j \in 1 .. n /\ j - 1 \in 0 .. n - 1
    BY <1>1, <2>1
  <2>3. Within(F[j].ctx, F, j - 1) /\ F2[j] = F[j]
    BY <1>1, <1>3, <2>2 DEF Nested
  <2>4. QED
    BY <1>2, <2>2, <2>3
<1>4. ASSUME NEW j \in 1 .. n2 - 1, F2[j].kind = "catch" PROVE F2[j + 1].kind = "call"
  <2>1. j \in 1 .. n - 1 /\ F[j].kind = "catch"
    BY <1>1, <1>4
  <2>2. F[j + 1].kind = "call"
    BY <2>1 DEF Nested
  <2>3. j + 1 # n
    BY <2>2
  <2>4. j + 1 \in 1 .. n - 1
    BY <2>1, <2>3
  <2>5. QED
    BY <1>1, <2>2, <2>4
<1>5. n - 1 \in 0 .. n - 1
  OBVIOUS
<1>6. QED
  BY <1>2, <1>3, <1>4, <1>5 DEF Nested
-----------------------------------------------------------------------------
(* Steps of the program by what they do to the C stack                     *)

LEMMA ScopeFacts ==
  ASSUME IInv, ScopeInv
  PROVE  /\ CStackOK /\ Len(frames) \in Nat \ {0} /\ Inner = frames[Len(frames)]
         /\ FramesOK(frames, Len(frames)) /\ Nested(frames, Len(frames))
         /\ control # "fail" \/ Inner.kind = "catch" => Within(context, frames, Len(frames))
         /\ Inner.kind = "catch" => control \in {"call", "ok", "fail"}
         /\ (Inner.kind \in {"object", "call", "module"} =>
               Within(Inner.ctx, frames, Len(frames) - 1))
<1>1. /\ CStackOK /\ Len(frames) \in Nat \ {0} /\ Inner = frames[Len(frames)]
      /\ FramesOK(frames, Len(frames)) /\ Nested(frames, Len(frames))
  BY DEF IInv, CStackOK, FramesOK, ScopeInv, Inner
<1>2. /\ control # "fail" \/ Inner.kind = "catch" => Within(context, frames, Len(frames))
      /\ Inner.kind = "catch" => control \in {"call", "ok", "fail"}
  BY <1>1 DEF ScopeInv, Here
<1>3. Inner.kind \in {"object", "call", "module"} => Within(Inner.ctx, frames, Len(frames) - 1)
  <2>1. Len(frames) \in 1 .. Len(frames)
    BY <1>1
  <2>2. QED
    BY <1>1, <2>1 DEF Nested, ScopeKinds
<1>4. QED
  BY <1>1, <1>2, <1>3

\* The same C function goes on.
LEMMA ScopeStays ==
  ASSUME IInv, ScopeInv, UNCHANGED <<frames, context>>,
         \/ control # "fail" /\ Inner.kind # "catch"
         \/ control = "call" /\ control' \in {"ok", "fail"}
  PROVE  ScopeInv'
<1>1. /\ Nested(frames, Len(frames)) /\ Within(context, frames, Len(frames))
      /\ Inner = frames[Len(frames)]
  BY ScopeFacts
<1>2. Here(frames, Len(frames), context, control')
  BY <1>1 DEF Here
<1>3. QED
  BY <1>1, <1>2 DEF ScopeInv

\* Another C function that is not a body is called.
LEMMA ScopeCalls ==
  ASSUME IInv, ScopeInv, NEW f, FrameOK(f), f.kind \notin ScopeKinds,
         NEW c, Enter(f, c), f.kind = "catch" => c = "call",
         UNCHANGED context, control # "fail", Inner.kind # "catch"
  PROVE  ScopeInv'
<1>1. /\ CStackOK /\ Len(frames) \in Nat \ {0} /\ Nested(frames, Len(frames))
      /\ Within(context, frames, Len(frames)) /\ frames[Len(frames)].kind # "catch"
  BY ScopeFacts
<1>2. f.kind # "repl"
  BY DEF ScopeKinds
<1>3. control' = c /\ Pushed(frames, Len(frames), frames', Len(frames'), f)
  BY <1>1, <1>2, EnterFits
<1>4. Nested(frames', Len(frames'))
  BY <1>1, <1>3, NestedPushed
<1>5. Within(context', frames', Len(frames'))
  <2>1. Within(context, frames', Len(frames))
    BY <1>1, <1>3, WithinSame DEF Pushed
  <2>2. frames'[Len(frames) + 1].kind \notin ScopeKinds /\ Len(frames') = Len(frames) + 1
    BY <1>3 DEF Pushed
  <2>3. Within(context, frames', Len(frames'))
    BY <1>1, <2>1, <2>2, WithinUp
  <2>4. QED
    BY <2>3
<1>6. frames'[Len(frames')] = f
  BY <1>3 DEF Pushed
<1>7. Here(frames', Len(frames'), context', control')
  BY <1>3, <1>5, <1>6 DEF Here
<1>8. QED
  BY <1>4, <1>7 DEF ScopeInv

\* A body is entered.
LEMMA ScopeEnters ==
  ASSUME IInv, ScopeInv, NEW f, FrameOK(f), f.kind \in ScopeKinds \ {"repl"},
         NEW c, Enter(f, c), f.ctx = context, f.own = context',
         control # "fail", Inner.kind = "catch" => f.kind = "call"
  PROVE  ScopeInv'
<1>1. /\ CStackOK /\ Len(frames) \in Nat \ {0} /\ Nested(frames, Len(frames))
      /\ Within(f.ctx, frames, Len(frames))
      /\ frames[Len(frames)].kind = "catch" => f.kind = "call"
  BY ScopeFacts
<1>2. control' = c /\ Pushed(frames, Len(frames), frames', Len(frames'), f)
  BY <1>1, EnterFits
<1>3. Nested(frames', Len(frames'))
  BY <1>1, <1>2, NestedPushed
<1>4. frames'[Len(frames')] = f /\ Len(frames') \in Nat \ {0}
  BY <1>1, <1>2 DEF Pushed
<1>5. Within(context', frames', Len(frames'))
  BY <1>4, WithinTop
<1>6. f.kind # "catch"
  BY DEF ScopeKinds
<1>7. Here(frames', Len(frames'), context', control')
  BY <1>4, <1>5, <1>6 DEF Here
<1>8. QED
  BY <1>3, <1>7 DEF ScopeInv

\* The innermost C function returns: one that is not a body, with the context as
\* it is; a body that restores the context; or, when all it returns is false, a
\* body that does not.  Only a call returns to a catch.
LEMMA ScopeReturns ==
  ASSUME IInv, ScopeInv, Inner.kind # "repl", NEW c, Leave(c),
         \/ Inner.kind \notin ScopeKinds /\ context' = context /\ (control = "fail" => c = "fail")
         \/ Inner.kind \in ScopeKinds /\ context' = Inner.ctx
         \/ Inner.kind # "call" /\ c = "fail",
         Inner.kind = "call" => c \in {"ok", "fail"}
  PROVE  ScopeInv'
<1>1. /\ CStackOK /\ Len(frames) \in Nat \ {0} /\ Nested(frames, Len(frames))
      /\ Inner = frames[Len(frames)] /\ FramesOK(frames, Len(frames))
      /\ Inner.kind \in {"object", "call", "module"} =>
           Within(Inner.ctx, frames, Len(frames) - 1)
  BY ScopeFacts
<1>2. /\ control' = c /\ Popped(frames, Len(frames), frames', Len(frames'))
      /\ Len(frames') \in Nat \ {0} /\ Len(frames') = Len(frames) - 1
  BY <1>1, LeaveFits DEF Popped, CStackOK
<1>3. /\ Nested(frames', Len(frames'))
      /\ frames'[Len(frames')].kind = "catch" => Inner.kind = "call"
      /\ \A x : Within(x, frames, Len(frames')) => Within(x, frames', Len(frames'))
  <2>1. Len(frames') \in Nat /\ Len(frames') # 0
    BY <1>2
  <2>2. QED
    BY <1>1, <1>2, <2>1, NestedPopped
<1>4. CASE Inner.kind \notin ScopeKinds /\ context' = context /\ (control = "fail" => c = "fail")
  <2>1. Inner.kind # "call"
    BY <1>4 DEF ScopeKinds
  <2>2. control # "fail" => Within(context', frames', Len(frames'))
    <3>1. SUFFICES ASSUME control # "fail" PROVE Within(context, frames', Len(frames'))
      BY <1>4
    <3>2. Within(context, frames, Len(frames))
      BY <3>1, ScopeFacts
    <3>3. Len(frames') \in Nat /\ Len(frames') + 1 = Len(frames)
      BY <1>1, <1>2
    <3>4. Within(context, frames, Len(frames'))
      BY <1>1, <1>4, <3>2, <3>3, WithinUp
    <3>5. QED
      BY <1>3, <3>4
  <2>3. Here(frames', Len(frames'), context', control')
    BY <1>2, <1>3, <1>4, <2>1, <2>2 DEF Here
  <2>4. QED
    BY <1>3, <2>3 DEF ScopeInv
<1>5. CASE Inner.kind \in ScopeKinds /\ context' = Inner.ctx
  <2>1. Within(Inner.ctx, frames, Len(frames'))
    BY <1>1, <1>2, <1>5 DEF ScopeKinds
  <2>2. Within(context', frames', Len(frames'))
    BY <1>3, <1>5, <2>1
  <2>3. Here(frames', Len(frames'), context', control')
    BY <1>2, <1>3, <2>2 DEF Here
  <2>4. QED
    BY <1>3, <2>3 DEF ScopeInv
<1>6. CASE Inner.kind # "call" /\ c = "fail"
  <2>1. Here(frames', Len(frames'), context', control')
    BY <1>2, <1>3, <1>6 DEF Here
  <2>2. QED
    BY <1>3, <2>1 DEF ScopeInv
<1>7. QED
  BY <1>4, <1>5, <1>6

\* The innermost C function goes on as another one that is not a body.
LEMMA ScopeTurns ==
  ASSUME IInv, ScopeInv, NEW f, FrameOK(f), f.kind \notin ScopeKinds, f.kind # "catch",
         Inner.kind # "call", Inner.kind # "repl", NEW c, Replace(f, c),
         \/ /\ Inner.kind \notin ScopeKinds
            /\ context' = context
            /\ control # "fail" \/ Inner.kind = "catch"
         \/ Inner.kind = "module" /\ context' = Inner.ctx
  PROVE  ScopeInv'
<1>1. /\ CStackOK /\ Len(frames) \in Nat \ {0} /\ Nested(frames, Len(frames))
      /\ Inner = frames[Len(frames)]
      /\ control # "fail" \/ Inner.kind = "catch" => Within(context, frames, Len(frames))
      /\ Inner.kind \in {"object", "call", "module"} =>
           Within(Inner.ctx, frames, Len(frames) - 1)
  BY ScopeFacts
<1>2. f.kind # "repl"
  BY DEF ScopeKinds
<1>3. control' = c /\ Swapped(frames, Len(frames), frames', Len(frames'), f)
  BY <1>1, <1>2, ReplaceFits
<1>4. Nested(frames', Len(frames'))
      /\ \A x : Within(x, frames, Len(frames) - 1) => Within(x, frames', Len(frames) - 1)
  <2>1. frames[Len(frames)].kind # "call"
    BY <1>1
  <2>2. QED
    BY <1>1, <1>3, <2>1, NestedSwapped
<1>5. Len(frames) - 1 \in Nat /\ Len(frames) - 1 + 1 = Len(frames) /\ Len(frames') = Len(frames)
      /\ frames'[Len(frames)] = f
  BY <1>1, <1>3 DEF Swapped
<1>6. Within(context', frames, Len(frames) - 1)
  <2>1. CASE /\ Inner.kind \notin ScopeKinds
             /\ context' = context
             /\ control # "fail" \/ Inner.kind = "catch"
    BY <1>1, <1>5, <2>1, WithinUp
  <2>2. CASE Inner.kind = "module" /\ context' = Inner.ctx
    BY <1>1, <2>2
  <2>3. QED
    BY <2>1, <2>2
<1>7. Within(context', frames', Len(frames) - 1)
  BY <1>4, <1>6
<1>8. Within(context', frames', Len(frames'))
  BY <1>5, <1>7, WithinUp
<1>9. Here(frames', Len(frames'), context', control')
  BY <1>3, <1>5, <1>8 DEF Here
<1>10. QED
  BY <1>4, <1>9 DEF ScopeInv
-----------------------------------------------------------------------------
(* The actions                                                             *)

LEMMA PlainScope ==
  ASSUME NEW kind \in {"node", "operand", "loop", "catch"}
  PROVE  /\ FrameOK(Plain(kind)) /\ Plain(kind).kind \notin ScopeKinds
         /\ Plain(kind).kind = kind
BY PlainOK DEF ScopeKinds

LEMMA SavingScope ==
  ASSUME NEW kind \in {"group", "arg", "map", "filter", "zip"}, NEW s \in Stack
  PROVE  /\ FrameOK(Saving(kind, s)) /\ Saving(kind, s).kind \notin ScopeKinds
         /\ Saving(kind, s).kind # "catch"
<1>1. FrameOK(Saving(kind, s)) /\ Saving(kind, s).kind = kind
  BY SavingOK
<1>2. QED
  BY <1>1 DEF ScopeKinds

LEMMA ScopedScope ==
  ASSUME NEW kind \in {"object", "call"}, NEW old \in Context, NEW new \in Context
  PROVE  /\ FrameOK(Scoped(kind, old, new))
         /\ Scoped(kind, old, new).kind = kind
         /\ Scoped(kind, old, new).ctx = old /\ Scoped(kind, old, new).own = new
BY ScopedOK, ScopedRecord

LEMMA ModuleScope ==
  ASSUME NEW old \in Context, NEW new \in Context, NEW s \in Stack
  PROVE  /\ FrameOK(ModuleFrame(old, new, s))
         /\ ModuleFrame(old, new, s).kind = "module"
         /\ ModuleFrame(old, new, s).ctx = old /\ ModuleFrame(old, new, s).own = new
BY ModuleFrameOK, ScopedRecord DEF ModuleFrame

LEMMA ScopeEval ==
  ASSUME IInv, ScopeInv, Eval
  PROVE  ScopeInv'
<1> USE DEF Running, Goto
<1>0. stack \in Stack /\ context \in Context
  BY Facts
<1>1. control = "eval" => Inner.kind # "catch"
  BY ScopeFacts
<1>2. \A v \in Value : NodePush(v) => ScopeInv'
  BY <1>1, ScopeStays DEF NodePush
<1>3. NodePop => ScopeInv'
  BY <1>1, ScopeStays DEF NodePop
<1>4. NodeRaise => ScopeInv'
  BY <1>1, ScopeStays DEF NodeRaise
<1>5. NodeCall => ScopeInv'
  <2>1. PICK f : f = Plain("node")
    OBVIOUS
  <2>2. FrameOK(f) /\ f.kind \notin ScopeKinds /\ f.kind # "catch"
    BY <2>1, PlainScope
  <2>3. QED
    BY <1>1, <2>1, <2>2, ScopeCalls DEF NodeCall
<1>6. \A n \in 0 .. 1 : NodeOperand(n) => ScopeInv'
  <2>1. PICK f : f = Plain("operand")
    OBVIOUS
  <2>2. FrameOK(f) /\ f.kind \notin ScopeKinds /\ f.kind # "catch"
    BY <2>1, PlainScope
  <2>3. QED
    BY <1>1, <2>1, <2>2, ScopeCalls DEF NodeOperand
<1>7. ASSUME NEW kind \in {"group", "arg"}, NodeNewStack(kind) PROVE ScopeInv'
  <2>1. PICK f : f = Saving(kind, stack)
    OBVIOUS
  <2>2. FrameOK(f) /\ f.kind \notin ScopeKinds /\ f.kind # "catch"
    BY <1>0, <2>1, SavingScope
  <2>3. Enter(f, "eval") /\ UNCHANGED context /\ control = "eval"
    BY <1>7, <2>1 DEF NodeNewStack
  <2>4. QED
    BY <1>1, <2>2, <2>3, ScopeCalls
<1>8. NodeObject => ScopeInv'
  <2>1. SUFFICES ASSUME NodeObject PROVE ScopeInv'
    OBVIOUS
  <2>2. PICK new \in Context : new = NewContext
    BY <2>1, NewContextOK DEF NodeObject
  <2>3. PICK f : f = Scoped("object", context, new)
    OBVIOUS
  <2>4. FrameOK(f) /\ f.kind = "object" /\ f.ctx = context /\ f.own = new
    BY <1>0, <2>3, ScopedScope
  <2>5. Enter(f, "eval") /\ context' = new /\ control = "eval"
    BY <2>1, <2>2, <2>3 DEF NodeObject
  <2>6. f.kind \in ScopeKinds \ {"repl"}
    BY <2>4 DEF ScopeKinds
  <2>7. QED
    BY <1>1, <2>4, <2>5, <2>6, ScopeEnters
<1>9. NodeImport => ScopeInv'
  <2>1. SUFFICES ASSUME NodeImport PROVE ScopeInv'
    OBVIOUS
  <2>2. PICK new \in Context : new = NewContext
    BY <2>1, NewContextOK DEF NodeImport
  <2>3. PICK f : f = ModuleFrame(context, new, stack)
    OBVIOUS
  <2>4. FrameOK(f) /\ f.kind = "module" /\ f.ctx = context /\ f.own = new
    BY <1>0, <2>3, ModuleScope
  <2>5. Enter(f, "eval") /\ context' = new /\ control = "eval"
    BY <2>1, <2>2, <2>3 DEF NodeImport, ModuleFrame
  <2>6. f.kind \in ScopeKinds \ {"repl"}
    BY <2>4 DEF ScopeKinds
  <2>7. QED
    BY <1>1, <2>4, <2>5, <2>6, ScopeEnters
<1>10. \A n \in 0 .. MaxValues : NodeDots(n) => ScopeInv'
  <2>1. control = "dispatch" => Inner.kind # "catch"
    BY ScopeFacts
  <2>2. SUFFICES ASSUME NEW n \in 0 .. MaxValues, NodeDots(n) PROVE ScopeInv'
    OBVIOUS
  <2>3. control \in {"eval", "dispatch"} /\ UNCHANGED <<frames, context>>
    BY <2>2 DEF NodeDots
  <2>4. QED
    BY <1>1, <2>1, <2>3, ScopeStays
<1>11. EndBody => ScopeInv'
  BY <1>1, ScopeStays DEF EndBody
<1>12. QED
  BY <1>2, <1>3, <1>4, <1>5, <1>6, <1>7, <1>8, <1>9, <1>10, <1>11 DEF Eval

LEMMA ScopeDispatch ==
  ASSUME IInv, ScopeInv, Dispatch
  PROVE  ScopeInv'
<1> USE DEF Running, Goto
<1>0. stack \in Stack
  BY Facts
<1>1. control = "dispatch" => Inner.kind # "catch"
  BY ScopeFacts
<1>2. \A n \in 0 .. 1 : DispatchRaise(n) => ScopeInv'
  BY <1>1, ScopeStays DEF DispatchRaise
<1>3. \A n \in 0 .. 1 : StartLoop(n) => ScopeInv'
  <2>1. PICK f : f = Plain("loop")
    OBVIOUS
  <2>2. FrameOK(f) /\ f.kind \notin ScopeKinds /\ f.kind # "catch"
    BY <2>1, PlainScope
  <2>3. QED
    BY <1>1, <2>1, <2>2, ScopeCalls DEF StartLoop
<1>4. \A n \in 0 .. 1 : \A out \in Outputs : Finish(n, out) => ScopeInv'
  BY <1>1, ScopeStays DEF Finish
<1>5. ASSUME NEW n \in 0 .. 1, NEW kind \in {"node", "operand"}, NEW out \in Outputs,
             DispatchCall(kind, n, out)
      PROVE  ScopeInv'
  <2>1. PICK f : f = Plain(kind)
    OBVIOUS
  <2>2. FrameOK(f) /\ f.kind \notin ScopeKinds /\ f.kind # "catch"
    BY <2>1, PlainScope
  <2>3. Enter(f, "call") /\ UNCHANGED context /\ control = "dispatch"
    BY <1>5, <2>1 DEF DispatchCall
  <2>4. QED
    BY <1>1, <2>2, <2>3, ScopeCalls
<1>6. ASSUME NEW kind \in {"map", "filter"}, StartEach(kind) PROVE ScopeInv'
  <2>1. PICK f : f = Saving(kind, stack)
    OBVIOUS
  <2>2. FrameOK(f) /\ f.kind \notin ScopeKinds /\ f.kind # "catch"
    BY <1>0, <2>1, SavingScope
  <2>3. Enter(f, "turn") /\ UNCHANGED context /\ control = "dispatch"
    BY <1>6, <2>1 DEF StartEach
  <2>4. QED
    BY <1>1, <2>2, <2>3, ScopeCalls
<1>7. CASE StartZip
  <2>1. PICK s \in Acquirable(HeldStacks) :
          /\ Stack_acquire(s, heap[stack].previous, heap)
          /\ Enter(Saving("zip", s), "turn")
    BY <1>7 DEF StartZip
  <2>2. s \in Stack
    <3>1. PICK p : p = heap[stack].previous
      OBVIOUS
    <3>2. Stack_acquire(s, p, heap)
      BY <2>1, <3>1
    <3>3. Acquired(heap, pool, s, p, heap', pool')
      BY <2>1, <3>2, HeldNotAcquirable
    <3>4. QED
      BY <3>3 DEF Acquired
  <2>3. PICK f : f = Saving("zip", s)
    OBVIOUS
  <2>4. FrameOK(f) /\ f.kind \notin ScopeKinds /\ f.kind # "catch"
    BY <2>2, <2>3, SavingScope
  <2>5. Enter(f, "turn") /\ UNCHANGED context /\ control = "dispatch"
    BY <1>7, <2>1, <2>3 DEF StartZip
  <2>6. QED
    BY <1>1, <2>4, <2>5, ScopeCalls
<1>8. CASE StartCatch
  <2>1. PICK f : f = Plain("catch")
    OBVIOUS
  <2>2. FrameOK(f) /\ f.kind \notin ScopeKinds
    BY <2>1, PlainScope
  <2>3. Enter(f, "call") /\ UNCHANGED context /\ control = "dispatch"
    BY <1>8, <2>1 DEF StartCatch
  <2>4. QED
    BY <1>1, <2>2, <2>3, ScopeCalls
<1>9. QED
  BY <1>2, <1>3, <1>4, <1>5, <1>6, <1>7, <1>8 DEF Dispatch

LEMMA ScopeCall ==
  ASSUME IInv, ScopeInv, Call
  PROVE  ScopeInv'
<1> USE DEF Running, Goto
<1>0. context \in Context
  BY Facts
<1>1. ASSUME NEW new \in Context, Enter(Scoped("call", context, new), "eval"),
             context' = new, control = "call"
      PROVE  ScopeInv'
  <2>1. PICK f : f = Scoped("call", context, new)
    OBVIOUS
  <2>2. FrameOK(f) /\ f.kind = "call" /\ f.ctx = context /\ f.own = new
    BY <1>0, <2>1, ScopedScope
  <2>3. Enter(f, "eval") /\ f.own = context'
    BY <1>1, <2>1, <2>2
  <2>4. f.kind \in ScopeKinds \ {"repl"}
    BY <2>2 DEF ScopeKinds
  <2>5. QED
    BY <1>1, <2>2, <2>3, <2>4, ScopeEnters
<1>2. CASE CallClosure
  <2>1. PICK new \in Context : new = NewContext
    BY <1>2, NewContextOK DEF CallClosure
  <2>2. QED
    BY <1>1, <1>2, <2>1 DEF CallClosure
<1>3. ASSUME NEW c \in HeldContexts, CallEvalin(c) PROVE ScopeInv'
  <2>1. c \in Context
    BY HeldContextsOK
  <2>2. QED
    BY <1>1, <1>3, <2>1 DEF CallEvalin
<1>4. \A c \in HeldContexts : CallLock(c) => ScopeInv'
  BY ScopeStays DEF CallLock
<1>5. \A v \in Value : CallValue(v) \/ CallList(v) => ScopeInv'
  BY ScopeStays DEF CallValue, CallList
<1>6. \A n \in 0 .. 2 : CallNativeFails(n) => ScopeInv'
  BY ScopeStays DEF CallNativeFails
<1>7. \A n \in 0 .. 2 : \A out \in Outputs : CallNative(n, out) => ScopeInv'
  BY ScopeStays DEF CallNative
<1>8. QED
  BY <1>2, <1>3, <1>4, <1>5, <1>6, <1>7 DEF Call

LEMMA ScopeReturn ==
  ASSUME IInv, ScopeInv, Return
  PROVE  ScopeInv'
<1> USE DEF Running, Returned
<1>1. CASE NodeReturns
  BY <1>1, ScopeReturns DEF NodeReturns, ScopeKinds
<1>2. CASE OperandReturns
  <2>1. Inner.kind = "operand" /\ control = "ok" /\ context' = context
    BY <1>2 DEF OperandReturns
  <2>2. Leave("dispatch") \/ Leave("fail")
    BY <1>2 DEF OperandReturns
  <2>3. Inner.kind # "repl" /\ Inner.kind \notin ScopeKinds
    BY <2>1 DEF ScopeKinds
  <2>4. QED
    BY <2>1, <2>2, <2>3, ScopeReturns
<1>3. CASE GroupReturns
  BY <1>3, ScopeReturns DEF GroupReturns, ScopeKinds
<1>4. CASE ArgReturns
  <2>1. PICK f : f = [Inner EXCEPT !.kind = "precall"]
    OBVIOUS
  <2>2. Inner.kind = "arg" /\ control = "ok" /\ context' = context /\ Replace(f, "call")
    BY <1>4, <2>1 DEF ArgReturns
  <2>3. FrameOK(Inner) /\ Inner \in Frame
    BY Facts DEF FrameOK
  <2>4. f \in Frame /\ f.kind = "precall" /\ f.stk = Inner.stk
    BY <2>1, <2>3 DEF Frame, Kind
  <2>5. FrameOK(f)
    BY <2>2, <2>3, <2>4 DEF FrameOK, OwnerKinds, GroupKinds
  <2>6. f.kind \notin ScopeKinds /\ Inner.kind \notin ScopeKinds /\ f.kind # "catch"
    BY <2>2, <2>4 DEF ScopeKinds
  <2>7. QED
    BY <2>2, <2>5, <2>6, ScopeTurns DEF ScopeKinds
<1>5. CASE PrecallReturns
  <2>1. PICK c : c = IF control = "ok" THEN "eval" ELSE "fail"
    OBVIOUS
  <2>2. Leave(c) /\ Inner.kind = "precall" /\ context' = context /\ (control = "fail" => c = "fail")
    BY <1>5, <2>1 DEF PrecallReturns
  <2>3. Inner.kind # "repl" /\ Inner.kind \notin ScopeKinds /\ Inner.kind # "call"
    BY <2>2 DEF ScopeKinds
  <2>4. QED
    BY <2>2, <2>3, ScopeReturns
<1>6. CASE CallReturns
  <2>1. PICK c : c = control
    OBVIOUS
  <2>2. /\ Leave(c) /\ Inner.kind = "call" /\ context' = Inner.ctx
        /\ c \in {"ok", "fail"}
    BY <1>6, <2>1 DEF CallReturns
  <2>3. Inner.kind # "repl" /\ Inner.kind \in ScopeKinds
    BY <2>2 DEF ScopeKinds
  <2>4. QED
    BY <2>2, <2>3, ScopeReturns
<1>7. CASE ModuleReturns
  <2>1. Inner.kind = "module" /\ context' = Inner.ctx /\ control = "ok"
    BY <1>7 DEF ModuleReturns
  <2>2. CASE Leave("eval")
    BY <2>1, <2>2, ScopeReturns DEF ScopeKinds
  <2>3. CASE Replace(Plain("node"), "call")
    <3>1. PICK f : f = Plain("node")
      OBVIOUS
    <3>2. FrameOK(f) /\ f.kind \notin ScopeKinds /\ f.kind # "catch"
      BY <3>1, PlainScope
    <3>3. Replace(f, "call")
      BY <2>3, <3>1
    <3>4. QED
      BY <2>1, <3>2, <3>3, ScopeTurns
  <2>4. QED
    BY <1>7, <2>2, <2>3 DEF ModuleReturns
<1>8. CASE CatchReturns
  BY <1>8, ScopeReturns DEF CatchReturns, ScopeKinds
<1>9. CASE MapTurn \/ FilterTurn
  <2>1. Inner.kind \in {"map", "filter"} /\ context' = context /\ control # "fail"
    BY <1>9 DEF MapTurn, FilterTurn
  <2>2. PICK f : f = Onward
    OBVIOUS
  <2>3. FrameOK(f) /\ f.kind = Inner.kind
    BY <2>2, OnwardOK
  <2>4. /\ f.kind \notin ScopeKinds /\ f.kind # "catch" /\ Inner.kind \notin ScopeKinds
        /\ Inner.kind # "call" /\ Inner.kind # "repl"
    BY <2>1, <2>3 DEF ScopeKinds
  <2>5. Replace(f, "call") \/ Leave("eval")
    BY <1>9, <2>2 DEF MapTurn, FilterTurn, Onward
  <2>6. CASE Replace(f, "call")
    BY <2>1, <2>3, <2>4, <2>6, ScopeTurns
  <2>7. CASE Leave("eval")
    BY <2>1, <2>4, <2>7, ScopeReturns
  <2>8. QED
    BY <2>5, <2>6, <2>7
<1>10. CASE FilterReturns \/ ZipReturns
  <2>1. /\ Inner.kind \in {"filter", "zip"} /\ context' = context /\ control = "ok"
        /\ UNCHANGED frames \/ Leave("fail")
    BY <1>10 DEF FilterReturns, ZipReturns
  <2>2. /\ Inner.kind # "catch" /\ Inner.kind \notin ScopeKinds
        /\ Inner.kind # "call" /\ Inner.kind # "repl"
    BY <2>1 DEF ScopeKinds
  <2>3. CASE UNCHANGED frames
    BY <2>1, <2>2, <2>3, ScopeStays
  <2>4. CASE Leave("fail")
    BY <2>1, <2>2, <2>4, ScopeReturns
  <2>5. QED
    BY <2>1, <2>3, <2>4
<1>11. CASE ZipTurn
  <2>1. Inner.kind = "zip" /\ context' = context /\ control = "turn"
    BY <1>11 DEF ZipTurn
  <2>2. UNCHANGED frames \/ Leave("eval")
    BY <1>11 DEF ZipTurn
  <2>3. CASE UNCHANGED frames
    BY <2>1, <2>3, ScopeStays
  <2>4. CASE Leave("eval")
    BY <2>1, <2>4, ScopeReturns DEF ScopeKinds
  <2>5. QED
    BY <2>2, <2>3, <2>4
<1>12. CASE LoopTurn
  <2>1. Inner.kind = "loop" /\ context' = context /\ control # "fail"
    BY <1>12 DEF LoopTurn
  <2>2. UNCHANGED frames \/ Leave("eval") \/ Leave("fail")
    BY <1>12 DEF LoopTurn
  <2>3. /\ Inner.kind # "catch" /\ Inner.kind \notin ScopeKinds
        /\ Inner.kind # "call" /\ Inner.kind # "repl"
    BY <2>1 DEF ScopeKinds
  <2>4. QED
    BY <2>1, <2>2, <2>3, ScopeStays, ScopeReturns
<1>13. ASSUME NEW v \in Value, ObjectReturns(v) PROVE ScopeInv'
  <2>1. Inner.kind = "object" /\ Inner.kind # "repl" /\ Inner.kind # "call"
        /\ Inner.kind \in ScopeKinds
    BY <1>13 DEF ObjectReturns, ScopeKinds
  <2>2. CASE context \in locked
    BY <1>13, <2>1, <2>2, ScopeReturns DEF ObjectReturns
  <2>3. CASE context \notin locked
    <3>1. PICK c : c = IF control = "ok" THEN "eval" ELSE "fail"
      OBVIOUS
    <3>2. Leave(c) /\ context' = Inner.ctx
      BY <1>13, <2>3, <3>1 DEF ObjectReturns
    <3>3. QED
      BY <2>1, <3>2, ScopeReturns
  <2>4. QED
    BY <2>2, <2>3
<1>14. QED
  BY <1>1, <1>2, <1>3, <1>4, <1>5, <1>6, <1>7, <1>8, <1>9, <1>10, <1>11, <1>12, <1>13
     DEF Return

LEMMA ScopeFail ==
  ASSUME IInv, ScopeInv, Fail
  PROVE  ScopeInv'
<1> USE DEF Running
<1>1. CASE Unwind
  <2>1. /\ Inner.kind # "call" /\ Inner.kind # "repl" /\ Leave("fail")
    BY <1>1 DEF Unwind
  <2>2. QED
    BY <2>1, ScopeReturns
<1>2. CASE GroupFails \/ ArgFails
  <2>1. /\ Inner.kind # "call" /\ Inner.kind # "repl" /\ Leave("fail")
    BY <1>2 DEF GroupFails, ArgFails
  <2>2. QED
    BY <2>1, ScopeReturns
<1>3. ASSUME NEW v \in Value, Catch(v) PROVE ScopeInv'
  <2>1. PICK f : f = Plain("node")
    OBVIOUS
  <2>2. FrameOK(f) /\ f.kind \notin ScopeKinds /\ f.kind # "catch"
    BY <2>1, PlainScope
  <2>3. Replace(f, "call") /\ Inner.kind = "catch" /\ context' = context
    BY <1>3, <2>1 DEF Catch
  <2>4. Inner.kind \notin ScopeKinds /\ Inner.kind # "call" /\ Inner.kind # "repl"
    BY <2>3 DEF ScopeKinds
  <2>5. QED
    BY <2>2, <2>3, <2>4, ScopeTurns
<1>4. QED
  BY <1>1, <1>2, <1>3 DEF Fail

\* The prompt takes the context that is current for that of the next line.
LEMMA ScopeNextLine ==
  ASSUME IInv, ScopeInv, NextLine
  PROVE  ScopeInv'
<1>1. Inner.kind = "repl" /\ context' = context /\ context \in Context
  BY Facts DEF NextLine
<1>2. PICK f : f = [Inner EXCEPT !.own = context]
  OBVIOUS
<1>3. FrameOK(Inner) /\ Inner \in Frame
  BY Facts DEF FrameOK
<1>4. f \in Frame /\ f.kind = "repl" /\ f.stk = Inner.stk /\ f.own = context
  BY <1>1, <1>2, <1>3 DEF Frame
<1>5. FrameOK(f) /\ Replace(f, "eval")
  BY <1>1, <1>2, <1>3, <1>4 DEF FrameOK, NextLine
<1>6. /\ CStackOK /\ Len(frames) \in Nat \ {0} /\ Nested(frames, Len(frames))
      /\ frames[Len(frames)].kind # "call"
  BY <1>1, ScopeFacts
<1>7. control' = "eval" /\ Swapped(frames, Len(frames), frames', Len(frames'), f)
  BY <1>1, <1>4, <1>5, <1>6, ReplaceFits
<1>8. Nested(frames', Len(frames'))
  BY <1>4, <1>6, <1>7, NestedSwapped
<1>9. Len(frames') \in Nat \ {0} /\ frames'[Len(frames')] = f
  BY <1>6, <1>7 DEF Swapped
<1>10. Within(context', frames', Len(frames'))
  BY <1>1, <1>4, <1>9, WithinTop DEF ScopeKinds
<1>11. Here(frames', Len(frames'), context', control')
  BY <1>4, <1>7, <1>9, <1>10 DEF Here
<1>12. QED
  BY <1>8, <1>11 DEF ScopeInv

LEMMA InitScope ==
  ASSUME Init
  PROVE  ScopeInv
<1>1. PICK f : f = [Plain("repl") EXCEPT !.own = context]
  OBVIOUS
<1>2. f.kind = "repl" /\ f.own = context
  BY <1>1 DEF Plain
<1>3. Len(frames) = 1 /\ frames[1] = f
  BY <1>1 DEF Init
<1>4. Within(context, frames, 1)
  BY <1>2, <1>3, WithinTop DEF ScopeKinds
<1>5. QED
  BY <1>2, <1>3, <1>4 DEF ScopeInv, Nested, Here, ScopeKinds
-----------------------------------------------------------------------------
LEMMA ScopeStep ==
  ASSUME IInv, ScopeInv, [Next]_vars
  PROVE  ScopeInv'
<1>1. CASE UNCHANGED vars
  BY <1>1 DEF ScopeInv, vars
<1>2. QED
  BY <1>1, ScopeEval, ScopeDispatch, ScopeCall, ScopeReturn, ScopeFail, ScopeNextLine
     DEF Next

\* Every node is evaluated in the context of the body it is part of, also after
\* a failure that a catch has stopped.
THEOREM EvaluatorBodyContext == Spec => []BodyContext
<1>1. Init => ScopeInv
  BY InitScope
<1>2. IInv /\ ScopeInv /\ [Next]_vars => ScopeInv'
  BY ScopeStep
<1>3. IInv /\ ScopeInv => BodyContext
  <2>1. SUFFICES ASSUME IInv, ScopeInv, control # "fail" PROVE context = Scope
    BY DEF BodyContext
  <2>2. /\ Within(context, frames, Len(frames))
        /\ DOMAIN frames = 1 .. Len(frames) /\ Len(frames) \in Nat
    BY <2>1, ScopeFacts DEF CStackOK
  <2>3. PICK j \in 1 .. Len(frames) :
          /\ frames[j].kind \in ScopeKinds /\ frames[j].own = context
          /\ \A k \in j + 1 .. Len(frames) : frames[k].kind \notin ScopeKinds
    BY <2>2 DEF Within
  <2>4. j \in Scopes /\ \A k \in Scopes : k \in Nat /\ k <= j
    BY <2>2, <2>3 DEF Scopes, ScopeKinds
  <2>5. \A i \in Scopes : (\A k \in Scopes : k <= i) => i = j
    BY <2>4
  <2>6. (CHOOSE i \in Scopes : \A k \in Scopes : k <= i) = j
    BY <2>4, <2>5
  <2>7. QED
    BY <2>3, <2>6 DEF Scope
<1>4. QED
  BY <1>1, <1>2, <1>3, Inductive, PTL DEF Spec
-----------------------------------------------------------------------------
(* The evaluator implements the stack of stacks, for any C stack, any      *)
(* number of stacks and any program.  Each step of the C functions changes *)
(* the frames and the current stack in one of a few ways, and each of them *)
(* is a step of the metastack or leaves it as it is.  That one of them     *)
(* never makes `.` raise in a stack in which it did not is not obvious for *)
(* the end of a zip, whose result takes the place of the current stack,    *)
(* and needs an invariant of its own (Barred).                             *)

GroupFrame(f) == f.kind \in GroupKinds

\* What a frame adds to the stacks that are interrupted.
Item(f) == [stk |-> f.stk, module |-> f.kind = "module"]

Items == [stk : Stack, module : BOOLEAN]

\* No group begins in frames i + 1 to m.
Ungrouped(F, i, m) == \A k \in i + 1 .. m : ~GroupFrame(F[k])

\* q[m] is what the first m of the frames have saved.
IsSaved(F, n, q) ==
  /\ q[0] = <<>>
  /\ \A m \in 1 .. n : q[m] = IF GroupFrame(F[m]) THEN Append(q[m - 1], Item(F[m]))
                              ELSE q[m - 1]

\* The definition of Saved by recursion defines a function.
LEMMA SavedExists ==
  ASSUME NEW n \in Nat, NEW F
  PROVE  \E q : IsSaved(F, n, q) /\ Saved(F, n) = q[n]
<1> DEFINE S == 0 .. n
           A == {Item(F[j]) : j \in 1 .. n}
           V == Seq(A)
           G == [g \in [S -> V] |-> [j \in S |->
                   IF j = 0 THEN <<>>
                   ELSE IF F[j].kind \in {"group", "arg", "precall", "module"}
                   THEN Append(g[j - 1], [stk |-> F[j].stk, module |-> F[j].kind = "module"])
                   ELSE g[j - 1]]]
           m == [j \in S |-> j]
<1>1. \A j \in S : j # 0 => j - 1 \in S /\ j \in 1 .. n
  OBVIOUS
<1>2. \A j \in S : j # 0 => Item(F[j]) \in A
  BY <1>1
<1>3. ASSUME NEW g \in [S -> V]
      PROVE  G[g] \in [S -> V]
  <2>1. ASSUME NEW j \in S
        PROVE  G[g][j] \in V
    <3>1. CASE j = 0
      BY <3>1, EmptySeq
    <3>2. CASE j # 0
      <4>1. g[j - 1] \in V
        BY <1>1, <3>2
      <4>2. Append(g[j - 1], Item(F[j])) \in V
        <5> HIDE DEF A
        <5> QED BY <1>2, <3>2, <4>1, AppendProperties
      <4>3. QED
        BY <3>2, <4>1, <4>2 DEF Item
    <3>3. QED
      BY <3>1, <3>2
  <2>2. DOMAIN G[g] = S /\ G[g] = [j \in S |-> G[g][j]]
    OBVIOUS
  <2> HIDE DEF G
  <2>3. QED
    BY <2>1, <2>2
<1>4. ASSUME NEW g \in [S -> V], NEW h \in [S -> V], NEW j \in S,
             \A i \in S : m[i] < m[j] => g[i] = h[i]
      PROVE  G[g][j] = G[h][j]
  <2>1. CASE j = 0
    BY <2>1
  <2>2. CASE j # 0
    <3>1. g[j - 1] = h[j - 1]
      BY <1>1, <1>4, <2>2
    <3>2. QED
      BY <2>2, <3>1
  <2>3. QED
    BY <2>1, <2>2
<1>5. G \in [[S -> V] -> [S -> V]]
  BY <1>3
<1>6. \E f \in [S -> V] : f = G[f]
  <2>0. m \in [S -> Nat]
    OBVIOUS
  <2>1. V # {}
    BY EmptySeq
  <2> HIDE DEF G, m, S, V
  <2>2. Recursive(G, S, V, m)
    BY <1>4, <1>5, <2>0 DEF Recursive
  <2>3. QED
    BY <2>1, <2>2, RecursionTheorem
<1>7. \E f : f = [j \in S |->
                   IF j = 0 THEN <<>>
                   ELSE IF F[j].kind \in {"group", "arg", "precall", "module"}
                   THEN Append(f[j - 1], [stk |-> F[j].stk, module |-> F[j].kind = "module"])
                   ELSE f[j - 1]]
  BY <1>6
<1> DEFINE q == CHOOSE f : f = [j \in S |->
                   IF j = 0 THEN <<>>
                   ELSE IF F[j].kind \in {"group", "arg", "precall", "module"}
                   THEN Append(f[j - 1], [stk |-> F[j].stk, module |-> F[j].kind = "module"])
                   ELSE f[j - 1]]
<1>8. q = [j \in S |->
                   IF j = 0 THEN <<>>
                   ELSE IF F[j].kind \in {"group", "arg", "precall", "module"}
                   THEN Append(q[j - 1], [stk |-> F[j].stk, module |-> F[j].kind = "module"])
                   ELSE q[j - 1]]
  BY <1>7
<1>9. Saved(F, n) = q[n]
  BY DEF Saved
<1> HIDE DEF q
<1>10. q[0] = <<>>
  BY <1>8
<1>11. ASSUME NEW j \in 1 .. n
       PROVE  q[j] = IF GroupFrame(F[j]) THEN Append(q[j - 1], Item(F[j])) ELSE q[j - 1]
  <2>1. j \in S /\ j # 0
    OBVIOUS
  <2>2. QED
    BY <1>8, <2>1 DEF GroupFrame, GroupKinds, Item
<1>12. IsSaved(F, n, q)
  BY <1>10, <1>11 DEF IsSaved
<1>13. QED
  BY <1>9, <1>12

LEMMA SavedAgree ==
  ASSUME NEW n \in Nat, NEW F, NEW q, IsSaved(F, n, q),
         NEW n2 \in Nat, NEW F2, NEW q2, IsSaved(F2, n2, q2),
         NEW m \in Nat, m <= n, m <= n2,
         \A j \in 1 .. m : /\ GroupFrame(F2[j]) <=> GroupFrame(F[j])
                           /\ GroupFrame(F[j]) => Item(F2[j]) = Item(F[j])
  PROVE  q2[m] = q[m]
<1> DEFINE T == {k \in Nat : k <= m => q2[k] = q[k]}
<1>1. 0 \in T
  BY DEF IsSaved
<1>2. ASSUME NEW k \in Nat, k \in T
      PROVE  k + 1 \in T
  <2>1. ASSUME k + 1 <= m
        PROVE  q2[k + 1] = q[k + 1]
    <3>1. k + 1 \in 1 .. m /\ k + 1 \in 1 .. n /\ k + 1 \in 1 .. n2 /\ (k + 1) - 1 = k
      BY <2>1
    <3>2. q2[k] = q[k]
      BY <1>2, <2>1
    <3>3. q[k + 1] = IF GroupFrame(F[k + 1]) THEN Append(q[k], Item(F[k + 1])) ELSE q[k]
      BY <3>1 DEF IsSaved
    <3>4. q2[k + 1] = IF GroupFrame(F2[k + 1]) THEN Append(q2[k], Item(F2[k + 1])) ELSE q2[k]
      BY <3>1 DEF IsSaved
    <3>5. QED
      BY <3>1, <3>2, <3>3, <3>4
  <2>2. QED
    BY <2>1
<1>3. Nat \subseteq T
  <2> HIDE DEF T
  <2> QED BY <1>1, <1>2, SetInduction
<1>4. QED
  BY <1>3

LEMMA SavedSame ==
  ASSUME NEW n \in Nat, NEW F, NEW F2,
         \A j \in 1 .. n : /\ GroupFrame(F2[j]) <=> GroupFrame(F[j])
                           /\ GroupFrame(F[j]) => Item(F2[j]) = Item(F[j])
  PROVE  Saved(F2, n) = Saved(F, n)
<1>1. PICK q : IsSaved(F, n, q) /\ Saved(F, n) = q[n]
  BY SavedExists
<1>2. PICK q2 : IsSaved(F2, n, q2) /\ Saved(F2, n) = q2[n]
  BY SavedExists
<1>3. QED
  BY <1>1, <1>2, SavedAgree

LEMMA SavedNext ==
  ASSUME NEW n \in Nat, NEW F
  PROVE  /\ Saved(F, 0) = <<>>
         /\ Saved(F, n + 1) = IF GroupFrame(F[n + 1])
                              THEN Append(Saved(F, n), Item(F[n + 1])) ELSE Saved(F, n)
<1>1. PICK q : IsSaved(F, n, q) /\ Saved(F, n) = q[n]
  BY SavedExists
<1>2. PICK p : IsSaved(F, n + 1, p) /\ Saved(F, n + 1) = p[n + 1]
  BY SavedExists
<1>3. PICK z : IsSaved(F, 0, z) /\ Saved(F, 0) = z[0]
  BY SavedExists
<1>4. p[n] = q[n]
  BY <1>1, <1>2, SavedAgree
<1>5. n + 1 \in 1 .. n + 1 /\ (n + 1) - 1 = n
  OBVIOUS
<1>6. p[n + 1] = IF GroupFrame(F[n + 1]) THEN Append(p[n], Item(F[n + 1])) ELSE p[n]
  BY <1>2, <1>5 DEF IsSaved
<1>7. z[0] = <<>>
  BY <1>3 DEF IsSaved
<1>8. QED
  BY <1>1, <1>2, <1>3, <1>4, <1>6, <1>7

\* Every stack that is interrupted has been saved by a group.
LEMMA SavedFrom ==
  ASSUME NEW n \in Nat, NEW F, \A j \in 1 .. n : GroupFrame(F[j]) => F[j].stk \in Stack
  PROVE  /\ Saved(F, n) \in Seq(Items)
         /\ \A k \in 1 .. Len(Saved(F, n)) : \E j \in 1 .. n :
              GroupFrame(F[j]) /\ Saved(F, n)[k] = Item(F[j])
<1> DEFINE Good(m) ==
      /\ Saved(F, m) \in Seq(Items)
      /\ \A k \in 1 .. Len(Saved(F, m)) : \E j \in 1 .. m :
           GroupFrame(F[j]) /\ Saved(F, m)[k] = Item(F[j])
    T == {m \in Nat : m <= n => Good(m)}
<1>1. 0 \in T
  <2>1. Saved(F, 0) \in Seq(Items) /\ Len(Saved(F, 0)) = 0
    BY SavedNext, EmptySeq
  <2>2. \A k \in 1 .. Len(Saved(F, 0)) : FALSE
    BY <2>1
  <2>3. QED
    BY <2>1, <2>2
<1>2. ASSUME NEW m \in Nat, m \in T
      PROVE  m + 1 \in T
  <2>1. SUFFICES ASSUME m + 1 <= n
                 PROVE  Good(m + 1)
    OBVIOUS
  <2>2. Good(m)
    BY <1>2, <2>1
  <2>3. \A j \in 1 .. m : j \in 1 .. m + 1
    OBVIOUS
  <2>4. CASE ~GroupFrame(F[m + 1])
    <3>1. Saved(F, m + 1) = Saved(F, m)
      BY <2>4, SavedNext
    <3>2. QED
      BY <2>2, <2>3, <3>1
  <2>5. CASE GroupFrame(F[m + 1])
    <3>1. Saved(F, m + 1) = Append(Saved(F, m), Item(F[m + 1]))
      BY <2>5, SavedNext
    <3>2. m + 1 \in 1 .. n /\ m + 1 \in 1 .. m + 1
      BY <2>1
    <3>3. Item(F[m + 1]) \in Items
      BY <2>5, <3>2 DEF Item, Items
    <3>4. PICK s \in Seq(Items) : s = Saved(F, m)
      BY <2>2
    <3>5. PICK x \in Items : x = Item(F[m + 1])
      BY <3>3
    <3>6. /\ Append(s, x) \in Seq(Items)
          /\ Len(Append(s, x)) = Len(s) + 1
          /\ \A k \in 1 .. Len(s) : Append(s, x)[k] = s[k]
          /\ Append(s, x)[Len(s) + 1] = x
          /\ Len(s) \in Nat
      BY AppendProperties
    <3>7. ASSUME NEW k \in 1 .. Len(Append(s, x))
          PROVE  \E j \in 1 .. m + 1 : GroupFrame(F[j]) /\ Append(s, x)[k] = Item(F[j])
      <4>1. CASE k = Len(s) + 1
        BY <2>5, <3>2, <3>5, <3>6, <4>1
      <4>2. CASE k # Len(s) + 1
        <5>1. k \in 1 .. Len(s)
          BY <3>6, <3>7, <4>2
        <5>2. PICK j \in 1 .. m : GroupFrame(F[j]) /\ s[k] = Item(F[j])
          BY <2>2, <3>4, <5>1
        <5>3. QED
          BY <2>3, <3>6, <5>1, <5>2
      <4>3. QED
        BY <4>1, <4>2
    <3>8. QED
      BY <3>1, <3>4, <3>5, <3>6, <3>7, ZenonT(40)
  <2>6. QED
    BY <2>4, <2>5
<1>3. Nat \subseteq T
  <2> HIDE DEF T
  <2> QED BY <1>1, <1>2, SetInduction
<1>4. n \in T
  BY <1>3
<1>5. QED
  BY <1>4

LEMMA SavedLast ==
  ASSUME NEW n \in Nat, NEW F, NEW i \in 0 .. n, Ungrouped(F, i, n)
  PROVE  Saved(F, n) = Saved(F, i)
<1> DEFINE T == {m \in Nat : i <= m /\ m <= n => Saved(F, m) = Saved(F, i)}
<1>1. 0 \in T
  OBVIOUS
<1>2. ASSUME NEW m \in Nat, m \in T
      PROVE  m + 1 \in T
  <2>1. SUFFICES ASSUME i <= m + 1, m + 1 <= n
                 PROVE  Saved(F, m + 1) = Saved(F, i)
    OBVIOUS
  <2>2. CASE i = m + 1
    BY <2>2
  <2>3. CASE i # m + 1
    <3>1. i <= m /\ m + 1 \in i + 1 .. n
      BY <2>1, <2>3
    <3>2. ~GroupFrame(F[m + 1])
      BY <3>1 DEF Ungrouped
    <3>3. QED
      BY <1>2, <2>1, <3>1, <3>2, SavedNext
  <2>4. QED
    BY <2>2, <2>3
<1>3. Nat \subseteq T
  <2> HIDE DEF T
  <2> QED BY <1>1, <1>2, SetInduction
<1>4. n \in T
  BY <1>3
<1>5. QED
  BY <1>4

LEMMA SavedPushed ==
  ASSUME NEW n \in Nat, NEW F, NEW F2, NEW n2, NEW f, Pushed(F, n, F2, n2, f)
  PROVE  Saved(F2, n2) = IF GroupFrame(f) THEN Append(Saved(F, n), Item(f)) ELSE Saved(F, n)
<1>1. n2 = n + 1 /\ F2[n + 1] = f /\ \A j \in 1 .. n : F2[j] = F[j]
  BY DEF Pushed
<1>2. Saved(F2, n) = Saved(F, n)
  BY <1>1, SavedSame
<1>3. QED
  BY <1>1, <1>2, SavedNext

LEMMA SavedPopped ==
  ASSUME NEW n \in Nat \ {0}, NEW F, NEW F2, NEW n2, Popped(F, n, F2, n2)
  PROVE  Saved(F, n) = IF GroupFrame(F[n]) THEN Append(Saved(F2, n2), Item(F[n]))
                       ELSE Saved(F2, n2)
<1>1. n2 \in Nat /\ n2 + 1 = n /\ \A j \in 1 .. n2 : F2[j] = F[j]
  BY DEF Popped
<1>2. Saved(F2, n2) = Saved(F, n2)
  BY <1>1, SavedSame
<1>3. QED
  BY <1>1, <1>2, SavedNext

LEMMA SavedSwapped ==
  ASSUME NEW n \in Nat \ {0}, NEW F, NEW F2, NEW n2, NEW f, Swapped(F, n, F2, n2, f)
  PROVE  \E s : /\ Saved(F, n) = IF GroupFrame(F[n]) THEN Append(s, Item(F[n])) ELSE s
                /\ Saved(F2, n2) = IF GroupFrame(f) THEN Append(s, Item(f)) ELSE s
<1>1. PICK m \in Nat : m + 1 = n
  OBVIOUS
<1>2. n2 = n /\ F2[n] = f /\ \A j \in 1 .. m : F2[j] = F[j]
  BY <1>1 DEF Swapped
<1>3. Saved(F2, m) = Saved(F, m)
  BY <1>2, SavedSame
<1>4. QED
  BY <1>1, <1>2, <1>3, SavedNext
-----------------------------------------------------------------------------
\* In a stack of the level in which a zip has begun without a stack below, there
\* is none below either until zip ends: of the stacks that groups have
\* interrupted in that level and the results of zips within it (k), and of the
\* current stack.
BarsWithin(H, F, n, j) ==
  \A k \in j + 1 .. n :
    (GroupFrame(F[k]) \/ F[k].kind = "zip") /\ Ungrouped(F, j, k - 1) =>
      H[F[k].stk].previous = NoStack

Barred(H, S, F, n) ==
  \A j \in 1 .. n : F[j].kind = "zip" /\ H[F[j].stk].previous = NoStack =>
    /\ BarsWithin(H, F, n, j)
    /\ Ungrouped(F, j, n) => H[S].previous = NoStack

\* What the frames of groups and zips hold is the same after a step.
HoldsSame(H, F, n, H2, F2) ==
  \A j \in 1 .. n : /\ F2[j].kind = "zip" <=> F[j].kind = "zip"
                    /\ GroupFrame(F2[j]) <=> GroupFrame(F[j])
                    /\ GroupFrame(F[j]) \/ F[j].kind = "zip" =>
                         F2[j].stk = F[j].stk
                         /\ H2[F[j].stk].previous = H[F[j].stk].previous

LEMMA UngroupedSame ==
  ASSUME NEW i \in Nat, NEW m \in Int, NEW F, NEW F2,
         \A k \in i + 1 .. m : GroupFrame(F2[k]) <=> GroupFrame(F[k])
  PROVE  Ungrouped(F2, i, m) <=> Ungrouped(F, i, m)
BY DEF Ungrouped

LEMMA UngroupedNext ==
  ASSUME NEW i \in Nat, NEW m \in Nat, i <= m, NEW F
  PROVE  Ungrouped(F, i, m + 1) <=> Ungrouped(F, i, m) /\ ~GroupFrame(F[m + 1])
<1>1. \A k : k \in i + 1 .. m + 1 <=> k \in i + 1 .. m \/ k = m + 1
  OBVIOUS
<1>2. QED
  BY <1>1 DEF Ungrouped

\* Frame j in the part of the C stack that a step leaves alone.
LEMMA BarredBelow ==
  ASSUME NEW H, NEW S, NEW F, NEW n \in Nat, NEW H2, NEW F2, NEW n2 \in Nat, n2 <= n,
         Barred(H, S, F, n), HoldsSame(H, F, n2, H2, F2),
         NEW j \in 1 .. n2, F2[j].kind = "zip", H2[F2[j].stk].previous = NoStack
  PROVE  /\ F[j].kind = "zip" /\ H[F[j].stk].previous = NoStack
         /\ BarsWithin(H2, F2, n2, j)
         /\ Ungrouped(F2, j, n2) <=> Ungrouped(F, j, n2)
<1>1. F[j].kind = "zip" /\ H[F[j].stk].previous = NoStack /\ j \in 1 .. n
  BY DEF HoldsSame
<1>2. ASSUME NEW m \in Int, m <= n2
      PROVE  Ungrouped(F2, j, m) <=> Ungrouped(F, j, m)
  <2>1. \A k \in j + 1 .. m : k \in 1 .. n2
    BY <1>2
  <2>2. \A k \in j + 1 .. m : GroupFrame(F2[k]) <=> GroupFrame(F[k])
    BY <2>1 DEF HoldsSame
  <2>3. QED
    BY <2>2, UngroupedSame
<1>3. ASSUME NEW k \in j + 1 .. n2, GroupFrame(F2[k]) \/ F2[k].kind = "zip",
             Ungrouped(F2, j, k - 1)
      PROVE  H2[F2[k].stk].previous = NoStack
  <2>1. k \in 1 .. n2 /\ k \in j + 1 .. n /\ k - 1 \in Int /\ k - 1 <= n2
    BY <1>3
  <2>2. GroupFrame(F[k]) \/ F[k].kind = "zip"
    BY <1>3, <2>1 DEF HoldsSame
  <2>3. Ungrouped(F, j, k - 1)
    BY <1>2, <1>3, <2>1
  <2>4. H[F[k].stk].previous = NoStack
    BY <1>1, <2>1, <2>2, <2>3 DEF Barred, BarsWithin
  <2>5. QED
    BY <2>1, <2>2, <2>4 DEF HoldsSame
<1>4. QED
  BY <1>1, <1>2, <1>3 DEF BarsWithin

LEMMA BarredSame ==
  ASSUME NEW H, NEW S, NEW F, NEW n \in Nat, NEW H2, NEW F2, NEW S2,
         Barred(H, S, F, n), HoldsSame(H, F, n, H2, F2),
         H[S].previous = NoStack => H2[S2].previous = NoStack
  PROVE  Barred(H2, S2, F2, n)
<1> SUFFICES ASSUME NEW j \in 1 .. n, F2[j].kind = "zip", H2[F2[j].stk].previous = NoStack
             PROVE  /\ BarsWithin(H2, F2, n, j)
                    /\ Ungrouped(F2, j, n) => H2[S2].previous = NoStack
  BY DEF Barred
<1>1. /\ F[j].kind = "zip" /\ H[F[j].stk].previous = NoStack
      /\ BarsWithin(H2, F2, n, j)
      /\ Ungrouped(F2, j, n) <=> Ungrouped(F, j, n)
  BY BarredBelow
<1>2. Ungrouped(F, j, n) => H[S].previous = NoStack
  BY <1>1 DEF Barred
<1>3. QED
  BY <1>1, <1>2

LEMMA BarredPushed ==
  ASSUME NEW H, NEW S, NEW F, NEW n \in Nat, Barred(H, S, F, n),
         NEW H2, NEW F2, NEW S2, NEW n2, NEW f, Pushed(F, n, F2, n2, f),
         HoldsSame(H, F, n, H2, F2),
         H[S].previous = NoStack /\ (GroupFrame(f) \/ f.kind = "zip") =>
           H2[f.stk].previous = NoStack,
         H[S].previous = NoStack /\ ~GroupFrame(f) => H2[S2].previous = NoStack,
         f.kind = "zip" /\ H2[f.stk].previous = NoStack => H2[S2].previous = NoStack
  PROVE  Barred(H2, S2, F2, n2)
<1>1. n2 = n + 1 /\ F2[n + 1] = f
  BY DEF Pushed
<1> SUFFICES ASSUME NEW j \in 1 .. n + 1, F2[j].kind = "zip", H2[F2[j].stk].previous = NoStack
             PROVE  /\ BarsWithin(H2, F2, n + 1, j)
                    /\ Ungrouped(F2, j, n + 1) => H2[S2].previous = NoStack
  BY <1>1 DEF Barred
<1>2. CASE j = n + 1
  BY <1>1, <1>2 DEF BarsWithin
<1>3. CASE j # n + 1
  <2>1. j \in 1 .. n
    BY <1>3
  <2>2. /\ F[j].kind = "zip" /\ H[F[j].stk].previous = NoStack
        /\ BarsWithin(H2, F2, n, j)
        /\ Ungrouped(F2, j, n) <=> Ungrouped(F, j, n)
    BY <2>1, BarredBelow
  <2>3. Ungrouped(F2, j, n) => H[S].previous = NoStack
    BY <2>1, <2>2 DEF Barred
  <2>4. Ungrouped(F2, j, n + 1) <=> Ungrouped(F2, j, n) /\ ~GroupFrame(f)
    BY <1>1, <2>1, UngroupedNext
  <2>5. ASSUME NEW k \in j + 1 .. n + 1, GroupFrame(F2[k]) \/ F2[k].kind = "zip",
               Ungrouped(F2, j, k - 1)
        PROVE  H2[F2[k].stk].previous = NoStack
    <3>1. CASE k = n + 1
      <4>1. Ungrouped(F2, j, n)
        BY <2>5, <3>1
      <4>2. QED
        BY <1>1, <2>3, <2>5, <3>1, <4>1
    <3>2. CASE k # n + 1
      <4>1. k \in j + 1 .. n
        BY <3>2
      <4>2. QED
        BY <2>2, <2>5, <4>1 DEF BarsWithin
    <3>3. QED
      BY <3>1, <3>2
  <2>6. QED
    BY <2>3, <2>4, <2>5 DEF BarsWithin
<1>4. QED
  BY <1>2, <1>3

LEMMA BarredDropped ==
  ASSUME NEW H, NEW S, NEW F, NEW n \in Nat \ {0}, Barred(H, S, F, n),
         NEW H2, NEW F2, NEW S2, NEW n2, n2 = n - 1 \/ n2 = n, NEW m, m = n - 1,
         HoldsSame(H, F, m, H2, F2),
         n2 = n => ~GroupFrame(F2[n]) /\ F2[n].kind # "zip",
         \A j \in 1 .. m :
           F[j].kind = "zip" /\ H[F[j].stk].previous = NoStack /\ Ungrouped(F, j, m) =>
             H2[S2].previous = NoStack
  PROVE  Barred(H2, S2, F2, n2)
<1>0. m \in Nat /\ m = n - 1
  OBVIOUS
<1>1. ASSUME NEW j \in 1 .. m, F2[j].kind = "zip", H2[F2[j].stk].previous = NoStack
      PROVE  /\ BarsWithin(H2, F2, m, j)
             /\ Ungrouped(F2, j, m) => H2[S2].previous = NoStack
  <2>1. /\ F[j].kind = "zip" /\ H[F[j].stk].previous = NoStack
        /\ BarsWithin(H2, F2, m, j)
        /\ Ungrouped(F2, j, m) <=> Ungrouped(F, j, m)
    BY <1>0, <1>1, BarredBelow
  <2>2. QED
    BY <1>0, <2>1
<1>2. CASE n2 = m
  BY <1>1, <1>2 DEF Barred
<1>3. CASE n2 = m + 1
  <2>1. n2 = n /\ ~GroupFrame(F2[m + 1]) /\ F2[m + 1].kind # "zip"
    BY <1>0, <1>3
  <2>2. SUFFICES ASSUME NEW j \in 1 .. m + 1, F2[j].kind = "zip",
                        H2[F2[j].stk].previous = NoStack
                 PROVE  /\ BarsWithin(H2, F2, m + 1, j)
                        /\ Ungrouped(F2, j, m + 1) => H2[S2].previous = NoStack
    BY <1>3 DEF Barred
  <2>3. j \in 1 .. m
    BY <2>1, <2>2
  <2>4. \A k \in j + 1 .. m + 1 : k \in j + 1 .. m \/ k = m + 1
    OBVIOUS
  <2>5. Ungrouped(F2, j, m + 1) <=> Ungrouped(F2, j, m) /\ ~GroupFrame(F2[m + 1])
    BY <2>3, UngroupedNext
  <2>6. QED
    BY <1>1, <2>1, <2>2, <2>3, <2>4, <2>5 DEF BarsWithin
<1>4. QED
  BY <1>0, <1>2, <1>3
-----------------------------------------------------------------------------
(* The metastack of a heap H, when S is the current stack and Q are those  *)
(* that are interrupted.                                                   *)

At(Q, S, k) == IF k < Len(Q) + 1 THEN Q[k].stk ELSE S

ValuesOf(H, S, Q) == [k \in 1 .. Len(Q) + 1 |-> H[At(Q, S, k)].values]
RootsOf(Q) == [k \in 1 .. Len(Q) + 1 |-> k = 1 \/ Q[k - 1].module]
WallsOf(H, S, Q) == [k \in 1 .. Len(Q) + 1 |-> H[At(Q, S, k)].previous = NoStack]

LEMMA MetaIs ==
  /\ Metastack = ValuesOf(heap, stack, Interrupted)
  /\ Rooted = RootsOf(Interrupted)
  /\ Walled = WallsOf(heap, stack, Interrupted)
  /\ Metastack' = ValuesOf(heap', stack', Interrupted')
  /\ Rooted' = RootsOf(Interrupted')
  /\ Walled' = WallsOf(heap', stack', Interrupted')
BY DEF Metastack, Rooted, Walled, Levels, Level, ValuesOf, RootsOf, WallsOf, At

\* Sequences as functions.
LEMMA WithoutLast ==
  ASSUME NEW A, NEW s \in Seq(A), Len(s) > 0
  PROVE  /\ Len(s) - 1 \in Nat
         /\ SubSeq(s, 1, Len(s) - 1) \in Seq(A)
         /\ Len(SubSeq(s, 1, Len(s) - 1)) = Len(s) - 1
         /\ \A k \in 1 .. Len(s) - 1 : SubSeq(s, 1, Len(s) - 1)[k] = s[k]
<1>1. PICK m \in Nat : m = Len(s) - 1 /\ \A k \in 1 .. m : s[k] \in A
  BY ElementOfSeq
<1>2. 1 \in Int /\ m \in Int
  OBVIOUS
<1>3. /\ SubSeq(s, 1, m) \in Seq(A)
      /\ Len(SubSeq(s, 1, m)) = IF 1 <= m THEN m - 1 + 1 ELSE 0
      /\ \A i \in 1 .. m - 1 + 1 : SubSeq(s, 1, m)[i] = s[1 + i - 1]
  BY <1>1, <1>2, SubSeqProperties
<1>4. Len(SubSeq(s, 1, m)) = m /\ \A k \in 1 .. m : SubSeq(s, 1, m)[k] = s[k]
  BY <1>3
<1>5. QED
  BY <1>1, <1>3, <1>4, Zenon

LEMMA WithLast ==
  ASSUME NEW A, NEW s \in Seq(A), NEW x \in A
  PROVE  /\ Append(s, x) \in Seq(A)
         /\ Len(Append(s, x)) = Len(s) + 1 /\ Len(s) \in Nat
         /\ \A k \in 1 .. Len(s) : Append(s, x)[k] = s[k]
         /\ Append(s, x)[Len(s) + 1] = x
BY AppendProperties

LEMMA SameSequence ==
  ASSUME NEW A, NEW s \in Seq(A), NEW t \in Seq(A), Len(s) = Len(t),
         \A k \in 1 .. Len(s) : s[k] = t[k]
  PROVE  s = t
BY SeqEqual

IsView(H, S, Q) ==
  /\ Len(Q) \in Nat
  /\ \A k \in 1 .. Len(Q) : /\ Q[k] \in Items /\ Q[k].stk \in Stack
                            /\ Q[k].module \in BOOLEAN
                            /\ At(Q, S, k) = Q[k].stk
  /\ At(Q, S, Len(Q) + 1) = S
  /\ \A k \in 1 .. Len(Q) + 1 : At(Q, S, k) \in Stack
  /\ ValuesOf(H, S, Q) \in Seq(Seq(Value))
  /\ RootsOf(Q) \in Seq(BOOLEAN)
  /\ WallsOf(H, S, Q) \in Seq(BOOLEAN)
  /\ Len(ValuesOf(H, S, Q)) = Len(Q) + 1
  /\ Len(RootsOf(Q)) = Len(Q) + 1
  /\ Len(WallsOf(H, S, Q)) = Len(Q) + 1
  /\ \A k \in 1 .. Len(Q) + 1 :
       /\ ValuesOf(H, S, Q)[k] = H[At(Q, S, k)].values
       /\ RootsOf(Q)[k] <=> k = 1 \/ Q[k - 1].module
       /\ WallsOf(H, S, Q)[k] <=> H[At(Q, S, k)].previous = NoStack

LEMMA ViewTypes ==
  ASSUME NEW H \in [Stack -> StackType], NEW S \in Stack, NEW Q \in Seq(Items)
  PROVE  IsView(H, S, Q)
<1>1. PICK n \in Nat : n = Len(Q)
  OBVIOUS
<1>2. ASSUME NEW k \in 1 .. n
      PROVE  /\ Q[k] \in Items /\ Q[k].stk \in Stack /\ Q[k].module \in BOOLEAN
             /\ At(Q, S, k) = Q[k].stk
  <2>1. Q[k] \in Items
    BY <1>1, ElementOfSeq
  <2>2. QED
    BY <1>1, <2>1 DEF Items, At
<1>3. At(Q, S, n + 1) = S
  BY <1>1 DEF At
<1>4. \A k \in 1 .. n + 1 : k = n + 1 \/ k \in 1 .. n
  OBVIOUS
<1>5. \A k \in 1 .. n + 1 : At(Q, S, k) \in Stack
  BY <1>2, <1>3, <1>4
<1>6. \A k \in 1 .. n + 1 : H[At(Q, S, k)].values \in Seq(Value)
  BY <1>5 DEF StackType
<1>7. ValuesOf(H, S, Q) \in Seq(Seq(Value))
  BY <1>1, <1>6, IsASeq DEF ValuesOf
<1>8. RootsOf(Q) \in Seq(BOOLEAN) /\ WallsOf(H, S, Q) \in Seq(BOOLEAN)
  <2>1. \A k \in 1 .. n + 1 : (k = 1 \/ Q[k - 1].module) \in BOOLEAN
    OBVIOUS
  <2>2. \A k \in 1 .. n + 1 : (H[At(Q, S, k)].previous = NoStack) \in BOOLEAN
    OBVIOUS
  <2>3. n + 1 \in Nat
    OBVIOUS
  <2>4. RootsOf(Q) \in Seq(BOOLEAN)
    BY <1>1, <2>1, <2>3, IsASeq DEF RootsOf
  <2>5. WallsOf(H, S, Q) \in Seq(BOOLEAN)
    BY <1>1, <2>2, <2>3, IsASeq DEF WallsOf
  <2>6. QED
    BY <2>4, <2>5
<1>9. /\ Len(ValuesOf(H, S, Q)) = n + 1 /\ Len(RootsOf(Q)) = n + 1
      /\ Len(WallsOf(H, S, Q)) = n + 1
  BY <1>1, <1>7, <1>8 DEF ValuesOf, RootsOf, WallsOf
<1>10. \A k \in 1 .. n + 1 :
         /\ ValuesOf(H, S, Q)[k] = H[At(Q, S, k)].values
         /\ RootsOf(Q)[k] <=> k = 1 \/ Q[k - 1].module
         /\ WallsOf(H, S, Q)[k] <=> H[At(Q, S, k)].previous = NoStack
  BY <1>1 DEF ValuesOf, RootsOf, WallsOf
<1>11. QED
  BY <1>1, <1>2, <1>3, <1>5, <1>7, <1>8, <1>9, <1>10 DEF IsView
-----------------------------------------------------------------------------
(* The steps of the metastack, as relations between the values M, the      *)
(* roots R and the walls L of its stacks before and after a step.          *)

Shorter(s) == SubSeq(s, 1, Len(s) - 1)

TopChanged(M, M2) ==
  /\ Len(M2) = Len(M)
  /\ Shorter(M2) = Shorter(M)
  /\ M2[Len(M)] \in Seq(Value)

WorkDone(M, R, L, M2, R2, L2) == TopChanged(M, M2) /\ R2 = R /\ L2 = L

ZipEnded(M, R, L, M2, R2, L2) ==
  /\ TopChanged(M, M2)
  /\ ~R[Len(M)]
  /\ L2 = [L EXCEPT ![Len(M)] = FALSE]
  /\ R2 = R

StackBegun(M, R, L, M2, R2, L2) ==
  \E root \in BOOLEAN : /\ M2 = Append(M, <<>>)
                        /\ R2 = Append(R, root)
                        /\ L2 = Append(L, root)

GroupEnded(M, R, L, M2, R2, L2) ==
  /\ Len(M) > 1
  /\ M2 = Append(Shorter(Shorter(M)), M[Len(M) - 1] \o M[Len(M)])
  /\ R2 = Shorter(R)
  /\ L2 = Shorter(L)

StackDropped(M, R, L, M2, R2, L2) ==
  /\ Len(M) > 1
  /\ M2 = Shorter(M)
  /\ R2 = Shorter(R)
  /\ L2 = Shorter(L)

Dotted(M, R, L, M2, R2, L2, m) ==
  /\ Len(M) > 1
  /\ ~L[Len(M)]
  /\ m <= Len(M[Len(M) - 1])
  /\ M2 = [M EXCEPT
             ![Len(M) - 1] = SubSeq(M[Len(M) - 1], 1, Len(M[Len(M) - 1]) - m),
             ![Len(M)] = @ \o SubSeq(M[Len(M) - 1], Len(M[Len(M) - 1]) - m + 1,
                                     Len(M[Len(M) - 1]))]
  /\ R2 = R /\ L2 = L

ImporterLost(M, R, L, M2, R2, L2) ==
  /\ Len(M) > 1
  /\ R[Len(M)]
  /\ M2 = Append(Shorter(Shorter(M)), M[Len(M)])
  /\ R2 = Shorter(R)
  /\ L2 = Append(Shorter(Shorter(L)), TRUE)

Stepped(M, R, L, M2, R2, L2) ==
  \/ WorkDone(M, R, L, M2, R2, L2) \/ ZipEnded(M, R, L, M2, R2, L2)
  \/ StackBegun(M, R, L, M2, R2, L2) \/ GroupEnded(M, R, L, M2, R2, L2)
  \/ StackDropped(M, R, L, M2, R2, L2) \/ ImporterLost(M, R, L, M2, R2, L2)
  \/ \E m \in 0 .. (IF Len(M) > 1 THEN Len(M[Len(M) - 1]) ELSE 0) :
       Dotted(M, R, L, M2, R2, L2, m)

\* Q and Q2 with their heaps and current stacks are the same below the top.
SameBelow(H, Q, H2) ==
  \A k \in 1 .. Len(Q) : /\ H2[Q[k].stk].values = H[Q[k].stk].values
                         /\ H2[Q[k].stk].previous = H[Q[k].stk].previous

\* A step of the metastack, as the stacks see it.
Seen(H, S, Q, H2, S2, Q2) ==
  Stepped(ValuesOf(H, S, Q), RootsOf(Q), WallsOf(H, S, Q),
          ValuesOf(H2, S2, Q2), RootsOf(Q2), WallsOf(H2, S2, Q2))

LEMMA TopSeen ==
  ASSUME NEW H \in [Stack -> StackType], NEW S \in Stack, NEW Q \in Seq(Items),
         NEW H2 \in [Stack -> StackType], NEW S2 \in Stack, SameBelow(H, Q, H2)
  PROVE  /\ TopChanged(ValuesOf(H, S, Q), ValuesOf(H2, S2, Q))
         /\ Len(ValuesOf(H, S, Q)) = Len(Q) + 1
         /\ \A k \in 1 .. Len(Q) : WallsOf(H2, S2, Q)[k] = WallsOf(H, S, Q)[k]
<1>0. IsView(H, S, Q) /\ IsView(H2, S2, Q)
  BY ViewTypes
<1>1. PICK n \in Nat : n = Len(Q)
  OBVIOUS
<1>2. PICK M \in Seq(Seq(Value)) : M = ValuesOf(H, S, Q)
  BY <1>0 DEF IsView
<1>3. PICK M2 \in Seq(Seq(Value)) : M2 = ValuesOf(H2, S2, Q)
  BY <1>0 DEF IsView
<1>4. Len(M) = n + 1 /\ Len(M2) = n + 1
  BY <1>0, <1>1, <1>2, <1>3 DEF IsView
<1>5. \A k \in 1 .. n : k \in 1 .. n + 1 /\ At(Q, S, k) = Q[k].stk /\ At(Q, S2, k) = Q[k].stk
  BY <1>1 DEF At
<1>6. \A k \in 1 .. n : M2[k] = M[k]
  <2>1. \A k \in 1 .. n + 1 : M[k] = H[At(Q, S, k)].values /\ M2[k] = H2[At(Q, S2, k)].values
    BY <1>0, <1>1, <1>2, <1>3 DEF IsView
  <2>2. QED
    BY <1>1, <1>5, <2>1 DEF SameBelow
<1>7. Shorter(M2) = Shorter(M)
  <2>1. /\ Shorter(M) \in Seq(Seq(Value)) /\ Len(Shorter(M)) = n
        /\ \A k \in 1 .. n : Shorter(M)[k] = M[k]
    BY <1>4, WithoutLast DEF Shorter
  <2>2. /\ Shorter(M2) \in Seq(Seq(Value)) /\ Len(Shorter(M2)) = n
        /\ \A k \in 1 .. n : Shorter(M2)[k] = M2[k]
    BY <1>4, WithoutLast DEF Shorter
  <2>3. QED
    BY <1>6, <2>1, <2>2, SameSequence
<1>8. M2[n + 1] \in Seq(Value)
  BY <1>4, ElementOfSeq
<1>9. ASSUME NEW k \in 1 .. n
      PROVE  WallsOf(H2, S2, Q)[k] = WallsOf(H, S, Q)[k]
  BY <1>1, <1>5 DEF WallsOf, SameBelow
<1>10. QED
  BY <1>1, <1>2, <1>3, <1>4, <1>7, <1>8, <1>9 DEF TopChanged

LEMMA WorkSeen ==
  ASSUME NEW H \in [Stack -> StackType], NEW S \in Stack, NEW Q \in Seq(Items),
         NEW H2 \in [Stack -> StackType], NEW S2 \in Stack, SameBelow(H, Q, H2),
         H2[S2].previous = NoStack <=> H[S].previous = NoStack
  PROVE  Seen(H, S, Q, H2, S2, Q)
<1>0. IsView(H, S, Q) /\ IsView(H2, S2, Q)
  BY ViewTypes
<1>1. /\ TopChanged(ValuesOf(H, S, Q), ValuesOf(H2, S2, Q))
      /\ \A k \in 1 .. Len(Q) : WallsOf(H2, S2, Q)[k] = WallsOf(H, S, Q)[k]
  BY TopSeen
<1>2. /\ At(Q, S, Len(Q) + 1) = S /\ At(Q, S2, Len(Q) + 1) = S2 /\ Len(Q) \in Nat
      /\ Len(Q) + 1 \in 1 .. Len(Q) + 1
  BY DEF At
<1>3. WallsOf(H2, S2, Q)[Len(Q) + 1] = WallsOf(H, S, Q)[Len(Q) + 1]
  BY <1>2 DEF WallsOf
<1>4. \A k \in 1 .. Len(Q) + 1 : k = Len(Q) + 1 \/ k \in 1 .. Len(Q)
  OBVIOUS
<1>5. WallsOf(H2, S2, Q) = WallsOf(H, S, Q)
  <2>1. \A k \in 1 .. Len(Q) + 1 : WallsOf(H2, S2, Q)[k] = WallsOf(H, S, Q)[k]
    BY <1>1, <1>3, <1>4
  <2>2. /\ WallsOf(H2, S2, Q) \in Seq(BOOLEAN) /\ WallsOf(H, S, Q) \in Seq(BOOLEAN)
        /\ Len(WallsOf(H2, S2, Q)) = Len(Q) + 1 /\ Len(WallsOf(H, S, Q)) = Len(Q) + 1
    BY <1>0 DEF IsView
  <2>3. QED
    BY <2>1, <2>2, SameSequence
<1>6. QED
  BY <1>1, <1>5 DEF Seen, Stepped, WorkDone

LEMMA ZipSeen ==
  ASSUME NEW H \in [Stack -> StackType], NEW S \in Stack, NEW Q \in Seq(Items),
         NEW H2 \in [Stack -> StackType], NEW S2 \in Stack, SameBelow(H, Q, H2),
         H2[S2].previous # NoStack, Len(Q) > 0, ~Q[Len(Q)].module
  PROVE  Seen(H, S, Q, H2, S2, Q)
<1>0. IsView(H, S, Q) /\ IsView(H2, S2, Q)
  BY ViewTypes
<1>1. /\ TopChanged(ValuesOf(H, S, Q), ValuesOf(H2, S2, Q))
      /\ Len(ValuesOf(H, S, Q)) = Len(Q) + 1
      /\ \A k \in 1 .. Len(Q) : WallsOf(H2, S2, Q)[k] = WallsOf(H, S, Q)[k]
  BY TopSeen
<1>2. /\ At(Q, S2, Len(Q) + 1) = S2 /\ Len(Q) \in Nat /\ Len(Q) + 1 \in 1 .. Len(Q) + 1
  BY DEF At
<1>3. ~RootsOf(Q)[Len(Q) + 1]
  <2>1. Len(Q) + 1 # 1 /\ (Len(Q) + 1) - 1 = Len(Q)
    BY <1>2
  <2>2. QED
    BY <1>0, <1>2, <2>1 DEF IsView
<1>4. WallsOf(H2, S2, Q)[Len(Q) + 1] = FALSE
  BY <1>2 DEF WallsOf
<1>5. DOMAIN WallsOf(H, S, Q) = 1 .. Len(Q) + 1 /\ DOMAIN WallsOf(H2, S2, Q) = 1 .. Len(Q) + 1
  BY DEF WallsOf
<1>6. WallsOf(H2, S2, Q) = [WallsOf(H, S, Q) EXCEPT ![Len(Q) + 1] = FALSE]
  <2> DEFINE L2 == WallsOf(H2, S2, Q)
             L == WallsOf(H, S, Q)
  <2>1. L2 = [k \in 1 .. Len(Q) + 1 |-> L2[k]]
    BY DEF WallsOf
  <2>2. ASSUME NEW k \in 1 .. Len(Q) + 1
        PROVE  L2[k] = IF k = Len(Q) + 1 THEN FALSE ELSE L[k]
    <3>1. k = Len(Q) + 1 \/ k \in 1 .. Len(Q)
      BY <1>2
    <3>2. QED
      BY <1>1, <1>4, <3>1
  <2> HIDE DEF L, L2
  <2>3. DOMAIN L = 1 .. Len(Q) + 1
    BY <1>5 DEF L
  <2>4. L2 = [L EXCEPT ![Len(Q) + 1] = FALSE]
    BY <2>1, <2>2, <2>3
  <2>5. QED
    BY <2>4 DEF L, L2
<1>7. QED
  BY <1>1, <1>3, <1>6 DEF Seen, Stepped, ZipEnded

\* One more stack is interrupted.
Appended(Q, it, S) ==
  /\ Append(Q, it) \in Seq(Items)
  /\ Len(Append(Q, it)) = Len(Q) + 1 /\ Len(Q) \in Nat
  /\ \A k \in 1 .. Len(Q) : Append(Q, it)[k] = Q[k]
  /\ Append(Q, it)[Len(Q) + 1] = it
  /\ \A k \in 1 .. Len(Q) : At(Append(Q, it), S, k) = Q[k].stk
  /\ At(Append(Q, it), S, Len(Q) + 1) = it.stk
  /\ At(Append(Q, it), S, Len(Q) + 2) = S

LEMMA AtAppend ==
  ASSUME NEW Q \in Seq(Items), NEW it \in Items, NEW S
  PROVE  Appended(Q, it, S)
<1>1. /\ Append(Q, it) \in Seq(Items)
      /\ Len(Append(Q, it)) = Len(Q) + 1 /\ Len(Q) \in Nat
      /\ \A k \in 1 .. Len(Q) : Append(Q, it)[k] = Q[k]
      /\ Append(Q, it)[Len(Q) + 1] = it
  BY WithLast
<1>2. QED
  BY <1>1 DEF At, Appended

\* The positions of a sequence with one or two more elements.
LEMMA OneMore ==
  ASSUME NEW n \in Nat, NEW k \in 1 .. n + 1
  PROVE  k \in 1 .. n \/ k = n + 1
OBVIOUS

LEMMA TwoMore ==
  ASSUME NEW n \in Nat, NEW k \in 1 .. n + 2
  PROVE  k \in 1 .. n \/ k = n + 1 \/ k = n + 2
OBVIOUS

\* What is seen of a heap with one more stack than Q2 has: the stacks of Q2, and
\* two more.
TwoView(H, S, Q2, it) ==
  /\ IsView(H, S, Append(Q2, it))
  /\ it.stk \in Stack /\ it.module \in BOOLEAN
  /\ Len(Q2) \in Nat
  /\ Len(ValuesOf(H, S, Append(Q2, it))) = Len(Q2) + 2
  /\ Len(RootsOf(Append(Q2, it))) = Len(Q2) + 2
  /\ Len(WallsOf(H, S, Append(Q2, it))) = Len(Q2) + 2
  /\ \A k \in 1 .. Len(Q2) :
       /\ ValuesOf(H, S, Append(Q2, it))[k] = H[Q2[k].stk].values
       /\ WallsOf(H, S, Append(Q2, it))[k] = (H[Q2[k].stk].previous = NoStack)
  /\ ValuesOf(H, S, Append(Q2, it))[Len(Q2) + 1] = H[it.stk].values
  /\ WallsOf(H, S, Append(Q2, it))[Len(Q2) + 1] = (H[it.stk].previous = NoStack)
  /\ ValuesOf(H, S, Append(Q2, it))[Len(Q2) + 2] = H[S].values
  /\ WallsOf(H, S, Append(Q2, it))[Len(Q2) + 2] = (H[S].previous = NoStack)
  /\ \A k \in 1 .. Len(Q2) + 1 : RootsOf(Append(Q2, it))[k] = RootsOf(Q2)[k]
  /\ RootsOf(Append(Q2, it))[Len(Q2) + 2] = it.module

LEMMA TwoSeen ==
  ASSUME NEW H \in [Stack -> StackType], NEW S \in Stack, NEW Q2 \in Seq(Items),
         NEW it \in Items
  PROVE  TwoView(H, S, Q2, it)
<1>1. PICK Q \in Seq(Items) : Q = Append(Q2, it)
  BY AtAppend DEF Appended
<1>2. PICK n \in Nat : n = Len(Q2)
  OBVIOUS
<1>3. /\ Len(Q) = n + 1
      /\ \A k \in 1 .. n : Q[k] = Q2[k] /\ At(Q, S, k) = Q2[k].stk
      /\ Q[n + 1] = it /\ At(Q, S, n + 1) = it.stk /\ At(Q, S, n + 2) = S
  <2>1. Appended(Q2, it, S)
    BY AtAppend
  <2>2. QED
    BY <1>1, <1>2, <2>1 DEF Appended
<1>4. /\ IsView(H, S, Q)
      /\ Len(ValuesOf(H, S, Q)) = n + 2 /\ Len(RootsOf(Q)) = n + 2
      /\ Len(WallsOf(H, S, Q)) = n + 2
      /\ \A k \in 1 .. n + 2 : /\ ValuesOf(H, S, Q)[k] = H[At(Q, S, k)].values
                               /\ WallsOf(H, S, Q)[k] = (H[At(Q, S, k)].previous = NoStack)
                               /\ RootsOf(Q)[k] = (k = 1 \/ Q[k - 1].module)
  <2>1. IsView(H, S, Q)
    BY ViewTypes
  <2>2. \A k \in 1 .. n + 2 : /\ ValuesOf(H, S, Q)[k] = H[At(Q, S, k)].values
                              /\ WallsOf(H, S, Q)[k] = (H[At(Q, S, k)].previous = NoStack)
                              /\ RootsOf(Q)[k] = (k = 1 \/ Q[k - 1].module)
    BY <1>3 DEF ValuesOf, WallsOf, RootsOf
  <2>3. QED
    BY <1>3, <2>1, <2>2 DEF IsView
<1>5. \A k \in 1 .. n + 1 : RootsOf(Q2)[k] = (k = 1 \/ Q2[k - 1].module)
  BY <1>2 DEF RootsOf
<1>6. ASSUME NEW k \in 1 .. n + 1
      PROVE  RootsOf(Q)[k] = RootsOf(Q2)[k]
  <2>1. k = 1 \/ k - 1 \in 1 .. n
    OBVIOUS
  <2>2. k \in 1 .. n + 2
    OBVIOUS
  <2>3. QED
    BY <1>3, <1>4, <1>5, <2>1, <2>2
<1>7. it.stk \in Stack /\ it.module \in BOOLEAN
  BY DEF Items
<1>8. RootsOf(Q)[n + 2] = it.module
  <2>1. n + 2 # 1 /\ (n + 2) - 1 = n + 1 /\ n + 2 \in 1 .. n + 2
    OBVIOUS
  <2>2. QED
    BY <1>3, <1>4, <1>7, <2>1
<1>9. (\A k \in 1 .. n : k \in 1 .. n + 2) /\ n + 1 \in 1 .. n + 2 /\ n + 2 \in 1 .. n + 2
  OBVIOUS
<1>10. /\ \A k \in 1 .. n : /\ ValuesOf(H, S, Q)[k] = H[Q2[k].stk].values
                            /\ WallsOf(H, S, Q)[k] = (H[Q2[k].stk].previous = NoStack)
       /\ ValuesOf(H, S, Q)[n + 1] = H[it.stk].values
       /\ WallsOf(H, S, Q)[n + 1] = (H[it.stk].previous = NoStack)
       /\ ValuesOf(H, S, Q)[n + 2] = H[S].values
       /\ WallsOf(H, S, Q)[n + 2] = (H[S].previous = NoStack)
  BY <1>3, <1>4, <1>9
<1>11. QED
  BY <1>1, <1>2, <1>4, <1>6, <1>7, <1>8, <1>10 DEF TwoView

\* What makes t the sequence of elements of A that a step of the metastack makes
\* of s, when n is known of their lengths.
Appends(A, n, s, t, x) == t = Append(s, x)
Shortens(A, n, s, t) == t = Shorter(s)
Replaces(A, n, s, t, x) == t = Append(Shorter(Shorter(s)), x)

LEMMA IsAppended ==
  ASSUME NEW A, NEW s \in Seq(A), NEW t \in Seq(A), NEW x \in A, NEW n \in Nat,
         Len(s) = n, Len(t) = n + 1, \A k \in 1 .. n : t[k] = s[k], t[n + 1] = x
  PROVE  Appends(A, n, s, t, x)
<1>1. /\ Append(s, x) \in Seq(A) /\ Len(Append(s, x)) = n + 1
      /\ \A k \in 1 .. n : Append(s, x)[k] = s[k]
      /\ Append(s, x)[n + 1] = x
  BY WithLast
<1>2. ASSUME NEW k \in 1 .. n + 1
      PROVE  t[k] = Append(s, x)[k]
  BY <1>1, OneMore
<1>3. QED
  BY <1>1, <1>2, SameSequence DEF Appends

LEMMA IsShorter ==
  ASSUME NEW A, NEW s \in Seq(A), NEW t \in Seq(A), NEW n \in Nat,
         Len(s) = n + 1, Len(t) = n, \A k \in 1 .. n : t[k] = s[k]
  PROVE  Shortens(A, n, s, t)
<1>1. /\ Shorter(s) \in Seq(A) /\ Len(Shorter(s)) = n
      /\ \A k \in 1 .. n : Shorter(s)[k] = s[k]
  BY WithoutLast DEF Shorter
<1>2. QED
  BY <1>1, SameSequence DEF Shortens

LEMMA IsReplaced ==
  ASSUME NEW A, NEW s \in Seq(A), NEW t \in Seq(A), NEW x \in A, NEW n \in Nat,
         Len(s) = n + 2, Len(t) = n + 1, \A k \in 1 .. n : t[k] = s[k], t[n + 1] = x
  PROVE  Replaces(A, n, s, t, x)
<1>1. /\ Shorter(s) \in Seq(A) /\ Len(Shorter(s)) = n + 1
      /\ \A k \in 1 .. n + 1 : Shorter(s)[k] = s[k]
  BY WithoutLast DEF Shorter
<1>2. /\ Shorter(Shorter(s)) \in Seq(A) /\ Len(Shorter(Shorter(s))) = n
      /\ \A k \in 1 .. n : Shorter(Shorter(s))[k] = Shorter(s)[k]
  BY <1>1, WithoutLast DEF Shorter
<1>3. \A k \in 1 .. n : t[k] = Shorter(Shorter(s))[k]
  BY <1>1, <1>2
<1>4. Appends(A, n, Shorter(Shorter(s)), t, x)
  BY <1>2, <1>3, IsAppended
<1>5. QED
  BY <1>4 DEF Appends, Replaces

\* A view of a heap, by the levels of Q and the current stack.
TopView(H, S, Q) ==
  /\ Len(Q) \in Nat
  /\ ValuesOf(H, S, Q) \in Seq(Seq(Value))
  /\ RootsOf(Q) \in Seq(BOOLEAN)
  /\ WallsOf(H, S, Q) \in Seq(BOOLEAN)
  /\ Len(ValuesOf(H, S, Q)) = Len(Q) + 1
  /\ Len(RootsOf(Q)) = Len(Q) + 1
  /\ Len(WallsOf(H, S, Q)) = Len(Q) + 1
  /\ \A k \in 1 .. Len(Q) :
       /\ ValuesOf(H, S, Q)[k] = H[Q[k].stk].values
       /\ WallsOf(H, S, Q)[k] = (H[Q[k].stk].previous = NoStack)
  /\ ValuesOf(H, S, Q)[Len(Q) + 1] = H[S].values
  /\ WallsOf(H, S, Q)[Len(Q) + 1] = (H[S].previous = NoStack)

LEMMA TopIs ==
  ASSUME NEW H \in [Stack -> StackType], NEW S \in Stack, NEW Q \in Seq(Items)
  PROVE  TopView(H, S, Q)
<1>1. IsView(H, S, Q)
  BY ViewTypes
<1>2. PICK n \in Nat : n = Len(Q)
  OBVIOUS
<1>3. /\ \A k \in 1 .. n : k \in 1 .. n + 1 /\ At(Q, S, k) = Q[k].stk
      /\ n + 1 \in 1 .. n + 1 /\ At(Q, S, n + 1) = S
  BY <1>2 DEF At
<1>4. \A k \in 1 .. n + 1 : /\ ValuesOf(H, S, Q)[k] = H[At(Q, S, k)].values
                            /\ WallsOf(H, S, Q)[k] = (H[At(Q, S, k)].previous = NoStack)
  BY <1>2 DEF ValuesOf, WallsOf
<1>5. /\ \A k \in 1 .. n : /\ ValuesOf(H, S, Q)[k] = H[Q[k].stk].values
                           /\ WallsOf(H, S, Q)[k] = (H[Q[k].stk].previous = NoStack)
      /\ ValuesOf(H, S, Q)[n + 1] = H[S].values
      /\ WallsOf(H, S, Q)[n + 1] = (H[S].previous = NoStack)
  BY <1>3, <1>4
<1>6. QED
  BY <1>1, <1>2, <1>5 DEF IsView, TopView

LEMMA BegunSeen ==
  ASSUME NEW H \in [Stack -> StackType], NEW S \in Stack, NEW Q \in Seq(Items),
         NEW H2 \in [Stack -> StackType], NEW S2 \in Stack, NEW it \in Items, it.stk = S,
         SameBelow(H, Q, H2),
         H2[S].values = H[S].values, H2[S].previous = H[S].previous,
         H2[S2].values = <<>>, H2[S2].previous = NoStack <=> it.module
  PROVE  Seen(H, S, Q, H2, S2, Append(Q, it))
<1> DEFINE M == ValuesOf(H, S, Q)
           R == RootsOf(Q)
           L == WallsOf(H, S, Q)
           M2 == ValuesOf(H2, S2, Append(Q, it))
           R2 == RootsOf(Append(Q, it))
           L2 == WallsOf(H2, S2, Append(Q, it))
<1>1. PICK n \in Nat : n = Len(Q)
  OBVIOUS
<1>2. TopView(H, S, Q) /\ TwoView(H2, S2, Q, it)
  BY TopIs, TwoSeen
<1>3. /\ M2 \in Seq(Seq(Value)) /\ R2 \in Seq(BOOLEAN) /\ L2 \in Seq(BOOLEAN)
      /\ it.module \in BOOLEAN
  BY <1>2 DEF TwoView, IsView
<1>4. /\ M \in Seq(Seq(Value)) /\ R \in Seq(BOOLEAN) /\ L \in Seq(BOOLEAN)
      /\ Len(M) = n + 1 /\ Len(R) = n + 1 /\ Len(L) = n + 1
      /\ \A k \in 1 .. n : M[k] = H[Q[k].stk].values /\ L[k] = (H[Q[k].stk].previous = NoStack)
      /\ M[n + 1] = H[S].values /\ L[n + 1] = (H[S].previous = NoStack)
  BY <1>1, <1>2 DEF TopView
<1>5. /\ Len(M2) = (n + 1) + 1 /\ Len(R2) = (n + 1) + 1 /\ Len(L2) = (n + 1) + 1
      /\ \A k \in 1 .. n : M2[k] = H2[Q[k].stk].values /\ L2[k] = (H2[Q[k].stk].previous = NoStack)
      /\ M2[n + 1] = H2[S].values /\ L2[n + 1] = (H2[S].previous = NoStack)
      /\ M2[(n + 1) + 1] = <<>> /\ L2[(n + 1) + 1] = it.module
      /\ \A k \in 1 .. n + 1 : R2[k] = R[k]
      /\ R2[(n + 1) + 1] = it.module
  <2>1. (n + 1) + 1 = n + 2
    OBVIOUS
  <2>2. QED
    BY <1>1, <1>2, <1>3, <2>1 DEF TwoView
<1>6. \A k \in 1 .. n : /\ H2[Q[k].stk].values = H[Q[k].stk].values
                        /\ H2[Q[k].stk].previous = H[Q[k].stk].previous
  BY <1>1 DEF SameBelow
<1> HIDE DEF M, R, L, M2, R2, L2
<1>7. ASSUME NEW k \in 1 .. n + 1
      PROVE  M2[k] = M[k] /\ L2[k] = L[k]
  <2>1. CASE k \in 1 .. n
    BY <1>4, <1>5, <1>6, <2>1, ZenonT(40)
  <2>2. CASE k = n + 1
    BY <1>4, <1>5, <2>2
  <2>3. QED
    BY <2>1, <2>2, OneMore
<1>8. M2 = Append(M, <<>>)
  <2>1. <<>> \in Seq(Value) /\ n + 1 \in Nat
    BY EmptySeq
  <2>2. Appends(Seq(Value), n + 1, M, M2, <<>>)
    BY <1>3, <1>4, <1>5, <1>7, <2>1, IsAppended
  <2>3. QED
    BY <2>2 DEF Appends
<1>9. R2 = Append(R, it.module) /\ L2 = Append(L, it.module)
  <2>1. n + 1 \in Nat
    OBVIOUS
  <2>2. Appends(BOOLEAN, n + 1, R, R2, it.module)
    BY <1>3, <1>4, <1>5, <2>1, IsAppended
  <2>3. Appends(BOOLEAN, n + 1, L, L2, it.module)
    BY <1>3, <1>4, <1>5, <1>7, <2>1, IsAppended
  <2>4. QED
    BY <2>2, <2>3 DEF Appends
<1>10. StackBegun(M, R, L, M2, R2, L2)
  BY <1>3, <1>8, <1>9 DEF StackBegun
<1>11. QED
  BY <1>10 DEF Seen, Stepped, M, R, L, M2, R2, L2

\* What the metastack is before and after a step that takes its last stack off.
Ended(H, S, Q2, it, H2, S2, n) ==
  LET M == ValuesOf(H, S, Append(Q2, it))
      R == RootsOf(Append(Q2, it))
      L == WallsOf(H, S, Append(Q2, it))
      M2 == ValuesOf(H2, S2, Q2)
      R2 == RootsOf(Q2)
      L2 == WallsOf(H2, S2, Q2)
  IN /\ M \in Seq(Seq(Value)) /\ R \in Seq(BOOLEAN) /\ L \in Seq(BOOLEAN)
     /\ M2 \in Seq(Seq(Value)) /\ R2 \in Seq(BOOLEAN) /\ L2 \in Seq(BOOLEAN)
     /\ Len(M) = n + 2 /\ Len(R) = n + 2 /\ Len(L) = n + 2
     /\ Len(M2) = n + 1 /\ Len(R2) = n + 1 /\ Len(L2) = n + 1
     /\ \A k \in 1 .. n : M2[k] = M[k] /\ L2[k] = L[k]
     /\ \A k \in 1 .. n + 1 : R2[k] = R[k]
     /\ M[n + 1] = H[it.stk].values /\ M[n + 2] = H[S].values
     /\ L[n + 1] = (H[it.stk].previous = NoStack)
     /\ R[n + 2] = it.module
     /\ M2[n + 1] = H2[S2].values
     /\ L2[n + 1] = (H2[S2].previous = NoStack)

LEMMA EndedIs ==
  ASSUME NEW H \in [Stack -> StackType], NEW S \in Stack, NEW Q2 \in Seq(Items),
         NEW it \in Items, NEW H2 \in [Stack -> StackType], NEW S2 \in Stack,
         SameBelow(H, Q2, H2), NEW n \in Nat, n = Len(Q2)
  PROVE  Ended(H, S, Q2, it, H2, S2, n)
<1>1. TwoView(H, S, Q2, it) /\ TopView(H2, S2, Q2)
  BY TopIs, TwoSeen
<1>2. \A k \in 1 .. n : /\ H2[Q2[k].stk].values = H[Q2[k].stk].values
                        /\ H2[Q2[k].stk].previous = H[Q2[k].stk].previous
  BY DEF SameBelow
<1>3. /\ ValuesOf(H, S, Append(Q2, it)) \in Seq(Seq(Value))
      /\ RootsOf(Append(Q2, it)) \in Seq(BOOLEAN)
      /\ WallsOf(H, S, Append(Q2, it)) \in Seq(BOOLEAN)
  BY <1>1 DEF TwoView, IsView
<1>4. /\ ValuesOf(H2, S2, Q2) \in Seq(Seq(Value))
      /\ RootsOf(Q2) \in Seq(BOOLEAN)
      /\ WallsOf(H2, S2, Q2) \in Seq(BOOLEAN)
      /\ Len(ValuesOf(H2, S2, Q2)) = n + 1
      /\ Len(RootsOf(Q2)) = n + 1
      /\ Len(WallsOf(H2, S2, Q2)) = n + 1
      /\ \A k \in 1 .. n :
           /\ ValuesOf(H2, S2, Q2)[k] = H2[Q2[k].stk].values
           /\ WallsOf(H2, S2, Q2)[k] = (H2[Q2[k].stk].previous = NoStack)
      /\ ValuesOf(H2, S2, Q2)[n + 1] = H2[S2].values
      /\ WallsOf(H2, S2, Q2)[n + 1] = (H2[S2].previous = NoStack)
  BY <1>1 DEF TopView
<1>5. /\ Len(ValuesOf(H, S, Append(Q2, it))) = n + 2
      /\ Len(RootsOf(Append(Q2, it))) = n + 2
      /\ Len(WallsOf(H, S, Append(Q2, it))) = n + 2
      /\ \A k \in 1 .. n :
           /\ ValuesOf(H, S, Append(Q2, it))[k] = H[Q2[k].stk].values
           /\ WallsOf(H, S, Append(Q2, it))[k] = (H[Q2[k].stk].previous = NoStack)
      /\ ValuesOf(H, S, Append(Q2, it))[n + 1] = H[it.stk].values
      /\ WallsOf(H, S, Append(Q2, it))[n + 1] = (H[it.stk].previous = NoStack)
      /\ ValuesOf(H, S, Append(Q2, it))[n + 2] = H[S].values
      /\ \A k \in 1 .. n + 1 : RootsOf(Append(Q2, it))[k] = RootsOf(Q2)[k]
      /\ RootsOf(Append(Q2, it))[n + 2] = it.module
  BY <1>1 DEF TwoView
<1>6. ASSUME NEW k \in 1 .. n
      PROVE  /\ ValuesOf(H2, S2, Q2)[k] = ValuesOf(H, S, Append(Q2, it))[k]
             /\ WallsOf(H2, S2, Q2)[k] = WallsOf(H, S, Append(Q2, it))[k]
  BY <1>2, <1>4, <1>5, ZenonT(40)
<1>7. \A k \in 1 .. n + 1 : RootsOf(Q2)[k] = RootsOf(Append(Q2, it))[k]
  BY <1>5
<1>8. QED
  BY <1>3, <1>4, <1>5, <1>6, <1>7, Zenon DEF Ended

LEMMA GroupSeen ==
  ASSUME NEW H \in [Stack -> StackType], NEW S \in Stack, NEW Q2 \in Seq(Items),
         NEW it \in Items, NEW H2 \in [Stack -> StackType], NEW S2 \in Stack, it.stk = S2,
         SameBelow(H, Q2, H2),
         H2[S2].values = H[S2].values \o H[S].values, H2[S2].previous = H[S2].previous
  PROVE  Seen(H, S, Append(Q2, it), H2, S2, Q2)
<1> DEFINE M == ValuesOf(H, S, Append(Q2, it))
           R == RootsOf(Append(Q2, it))
           L == WallsOf(H, S, Append(Q2, it))
           M2 == ValuesOf(H2, S2, Q2)
           R2 == RootsOf(Q2)
           L2 == WallsOf(H2, S2, Q2)
<1>1. PICK n \in Nat : n = Len(Q2)
  OBVIOUS
<1>2. Ended(H, S, Q2, it, H2, S2, n)
  BY <1>1, EndedIs
<1>3. /\ M \in Seq(Seq(Value)) /\ R \in Seq(BOOLEAN) /\ L \in Seq(BOOLEAN)
      /\ M2 \in Seq(Seq(Value)) /\ R2 \in Seq(BOOLEAN) /\ L2 \in Seq(BOOLEAN)
      /\ Len(M) = n + 2 /\ Len(R) = (n + 1) + 1 /\ Len(L) = (n + 1) + 1
      /\ Len(M2) = n + 1 /\ Len(R2) = n + 1 /\ Len(L2) = n + 1
      /\ \A k \in 1 .. n : M2[k] = M[k]
      /\ M2[n + 1] = M[n + 1] \o M[n + 2]
      /\ \A k \in 1 .. n + 1 : R2[k] = R[k]
  BY <1>2 DEF Ended
<1>4. \A k \in 1 .. n : L2[k] = L[k]
  BY <1>2 DEF Ended
<1>5. L2[n + 1] = L[n + 1]
  BY <1>2 DEF Ended
<1> HIDE DEF M, R, L, M2, R2, L2
<1>6. M2 = Append(Shorter(Shorter(M)), M[n + 1] \o M[n + 2])
  <2>1. n + 1 \in 1 .. Len(M2)
    BY <1>3
  <2>2. M[n + 1] \o M[n + 2] \in Seq(Value)
    BY <1>3, <2>1, ElementOfSeq
  <2>3. Replaces(Seq(Value), n, M, M2, M[n + 1] \o M[n + 2])
    BY <1>3, <2>2, IsReplaced
  <2>4. QED
    BY <2>3 DEF Replaces
<1>7. R2 = Shorter(R)
  <2>1. n + 1 \in Nat
    OBVIOUS
  <2>2. Shortens(BOOLEAN, n + 1, R, R2)
    BY <1>3, <2>1, IsShorter
  <2>3. QED
    BY <2>2 DEF Shortens
<1>8. L2 = Shorter(L)
  <2>1. n + 1 \in Nat
    OBVIOUS
  <2>2. \A k \in 1 .. n + 1 : L2[k] = L[k]
    BY <1>4, <1>5, OneMore
  <2>3. Shortens(BOOLEAN, n + 1, L, L2)
    BY <1>3, <2>1, <2>2, IsShorter
  <2>4. QED
    BY <2>3 DEF Shortens
<1>9. Len(M) > 1 /\ Len(M) - 1 = n + 1
  BY <1>3
<1>10. GroupEnded(M, R, L, M2, R2, L2)
  BY <1>3, <1>6, <1>7, <1>8, <1>9 DEF GroupEnded
<1>11. QED
  BY <1>10 DEF Seen, Stepped, M, R, L, M2, R2, L2

LEMMA DropSeen ==
  ASSUME NEW H \in [Stack -> StackType], NEW S \in Stack, NEW Q2 \in Seq(Items),
         NEW it \in Items, NEW H2 \in [Stack -> StackType], NEW S2 \in Stack, it.stk = S2,
         SameBelow(H, Q2, H2),
         H2[S2].values = H[S2].values, H2[S2].previous = H[S2].previous
  PROVE  Seen(H, S, Append(Q2, it), H2, S2, Q2)
<1> DEFINE M == ValuesOf(H, S, Append(Q2, it))
           R == RootsOf(Append(Q2, it))
           L == WallsOf(H, S, Append(Q2, it))
           M2 == ValuesOf(H2, S2, Q2)
           R2 == RootsOf(Q2)
           L2 == WallsOf(H2, S2, Q2)
<1>1. PICK n \in Nat : n = Len(Q2)
  OBVIOUS
<1>2. Ended(H, S, Q2, it, H2, S2, n)
  BY <1>1, EndedIs
<1>3. /\ M \in Seq(Seq(Value)) /\ R \in Seq(BOOLEAN) /\ L \in Seq(BOOLEAN)
      /\ M2 \in Seq(Seq(Value)) /\ R2 \in Seq(BOOLEAN) /\ L2 \in Seq(BOOLEAN)
      /\ Len(M) = (n + 1) + 1 /\ Len(R) = (n + 1) + 1 /\ Len(L) = (n + 1) + 1
      /\ Len(M2) = n + 1 /\ Len(R2) = n + 1 /\ Len(L2) = n + 1
      /\ \A k \in 1 .. n + 1 : R2[k] = R[k]
  BY <1>2 DEF Ended
<1>4. (\A k \in 1 .. n : M2[k] = M[k] /\ L2[k] = L[k]) /\ M2[n + 1] = M[n + 1]
  BY <1>2 DEF Ended
<1>5. L2[n + 1] = L[n + 1]
  BY <1>2 DEF Ended
<1> HIDE DEF M, R, L, M2, R2, L2
<1>6. \A k \in 1 .. n + 1 : M2[k] = M[k] /\ L2[k] = L[k]
  BY <1>4, <1>5, OneMore
<1>7. n + 1 \in Nat
  OBVIOUS
<1>8. /\ Shortens(Seq(Value), n + 1, M, M2) /\ Shortens(BOOLEAN, n + 1, R, R2)
      /\ Shortens(BOOLEAN, n + 1, L, L2)
  BY <1>3, <1>6, <1>7, IsShorter
<1>9. Len(M) > 1
  BY <1>3
<1>10. StackDropped(M, R, L, M2, R2, L2)
  BY <1>8, <1>9 DEF StackDropped, Shortens
<1>11. QED
  BY <1>10 DEF Seen, Stepped, M, R, L, M2, R2, L2

LEMMA LoseSeen ==
  ASSUME NEW H \in [Stack -> StackType], NEW S \in Stack, NEW Q2 \in Seq(Items),
         NEW it \in Items, it.module, NEW H2 \in [Stack -> StackType],
         SameBelow(H, Q2, H2), H2[S].values = H[S].values, H2[S].previous = NoStack
  PROVE  Seen(H, S, Append(Q2, it), H2, S, Q2)
<1> DEFINE M == ValuesOf(H, S, Append(Q2, it))
           R == RootsOf(Append(Q2, it))
           L == WallsOf(H, S, Append(Q2, it))
           M2 == ValuesOf(H2, S, Q2)
           R2 == RootsOf(Q2)
           L2 == WallsOf(H2, S, Q2)
<1>1. PICK n \in Nat : n = Len(Q2)
  OBVIOUS
<1>2. Ended(H, S, Q2, it, H2, S, n)
  BY <1>1, EndedIs
<1>3. /\ M \in Seq(Seq(Value)) /\ R \in Seq(BOOLEAN) /\ L \in Seq(BOOLEAN)
      /\ M2 \in Seq(Seq(Value)) /\ R2 \in Seq(BOOLEAN) /\ L2 \in Seq(BOOLEAN)
      /\ Len(M) = n + 2 /\ Len(R) = (n + 1) + 1 /\ Len(L) = n + 2
      /\ Len(M2) = n + 1 /\ Len(R2) = n + 1 /\ Len(L2) = n + 1
      /\ \A k \in 1 .. n : M2[k] = M[k]
      /\ M2[n + 1] = M[n + 2]
      /\ \A k \in 1 .. n + 1 : R2[k] = R[k]
  BY <1>2 DEF Ended
<1>4. (\A k \in 1 .. n : L2[k] = L[k]) /\ R[n + 2]
  BY <1>2 DEF Ended
<1>5. L2[n + 1] = TRUE
  BY <1>2 DEF Ended
<1> HIDE DEF M, R, L, M2, R2, L2
<1>6. M2 = Append(Shorter(Shorter(M)), M[n + 2])
  <2>1. M[n + 2] \in Seq(Value)
    BY <1>3, ElementOfSeq
  <2>2. Replaces(Seq(Value), n, M, M2, M[n + 2])
    BY <1>3, <2>1, IsReplaced
  <2>3. QED
    BY <2>2 DEF Replaces
<1>7. R2 = Shorter(R)
  <2>1. n + 1 \in Nat
    OBVIOUS
  <2>2. Shortens(BOOLEAN, n + 1, R, R2)
    BY <1>3, <2>1, IsShorter
  <2>3. QED
    BY <2>2 DEF Shortens
<1>8. L2 = Append(Shorter(Shorter(L)), TRUE)
  <2>1. Replaces(BOOLEAN, n, L, L2, TRUE)
    BY <1>3, <1>4, <1>5, IsReplaced
  <2>2. QED
    BY <2>1 DEF Replaces
<1>9. Len(M) > 1 /\ R[Len(M)]
  BY <1>3, <1>4
<1>10. ImporterLost(M, R, L, M2, R2, L2)
  BY <1>3, <1>6, <1>7, <1>8, <1>9 DEF ImporterLost
<1>11. QED
  BY <1>10 DEF Seen, Stepped, M, R, L, M2, R2, L2

LEMMA DotSeen ==
  ASSUME NEW H \in [Stack -> StackType], NEW S \in Stack, NEW Q2 \in Seq(Items),
         NEW it \in Items, NEW H2 \in [Stack -> StackType], SameBelow(H, Q2, H2),
         NEW m \in 0 .. Len(H[it.stk].values),
         H2[it.stk].values = SubSeq(H[it.stk].values, 1, Len(H[it.stk].values) - m),
         H2[it.stk].previous = H[it.stk].previous,
         H2[S].values = H[S].values \o SubSeq(H[it.stk].values,
                          Len(H[it.stk].values) - m + 1, Len(H[it.stk].values)),
         H2[S].previous = H[S].previous, H[S].previous # NoStack
  PROVE  Seen(H, S, Append(Q2, it), H2, S, Append(Q2, it))
<1> DEFINE M == ValuesOf(H, S, Append(Q2, it))
           R == RootsOf(Append(Q2, it))
           L == WallsOf(H, S, Append(Q2, it))
           M2 == ValuesOf(H2, S, Append(Q2, it))
           L2 == WallsOf(H2, S, Append(Q2, it))
           B == H[it.stk].values
<1>1. PICK n \in Nat : n = Len(Q2)
  OBVIOUS
<1>2. TwoView(H, S, Q2, it) /\ TwoView(H2, S, Q2, it)
  BY TwoSeen
<1>3. \A k \in 1 .. n : /\ H2[Q2[k].stk].values = H[Q2[k].stk].values
                        /\ H2[Q2[k].stk].previous = H[Q2[k].stk].previous
  BY <1>1 DEF SameBelow
<1>4. /\ M \in Seq(Seq(Value)) /\ M2 \in Seq(Seq(Value))
      /\ L \in Seq(BOOLEAN) /\ L2 \in Seq(BOOLEAN)
  BY <1>2 DEF TwoView, IsView
<1>5. /\ Len(M) = n + 2 /\ Len(M2) = n + 2 /\ Len(L) = n + 2 /\ Len(L2) = n + 2
      /\ \A k \in 1 .. n :
           /\ M[k] = H[Q2[k].stk].values /\ M2[k] = H2[Q2[k].stk].values
           /\ L[k] = (H[Q2[k].stk].previous = NoStack)
           /\ L2[k] = (H2[Q2[k].stk].previous = NoStack)
      /\ M[n + 1] = B /\ M2[n + 1] = H2[it.stk].values
      /\ L[n + 1] = (H[it.stk].previous = NoStack)
      /\ L2[n + 1] = (H2[it.stk].previous = NoStack)
      /\ M[n + 2] = H[S].values /\ M2[n + 2] = H2[S].values
      /\ L[n + 2] = (H[S].previous = NoStack)
      /\ L2[n + 2] = (H2[S].previous = NoStack)
  BY <1>1, <1>2 DEF TwoView
<1>6. /\ M2[n + 1] = SubSeq(M[n + 1], 1, Len(M[n + 1]) - m)
      /\ M2[n + 2] = M[n + 2] \o SubSeq(M[n + 1], Len(M[n + 1]) - m + 1, Len(M[n + 1]))
      /\ m \in 0 .. Len(M[n + 1]) /\ ~L[n + 2]
      /\ \A k \in 1 .. n : M2[k] = M[k] /\ L2[k] = L[k]
      /\ L2[n + 1] = L[n + 1] /\ L2[n + 2] = L[n + 2]
  BY <1>3, <1>5
<1> HIDE DEF M, R, L, M2, L2, B
<1>7. L2 = L
  <2>1. ASSUME NEW k \in 1 .. n + 2
        PROVE  L2[k] = L[k]
    BY <1>6, TwoMore
  <2>2. QED
    BY <1>4, <1>5, <2>1, SameSequence
<1>8. DOMAIN M = 1 .. n + 2 /\ DOMAIN M2 = 1 .. n + 2
  BY <1>4, <1>5, LenProperties
<1> DEFINE X == [M EXCEPT ![n + 1] = SubSeq(M[n + 1], 1, Len(M[n + 1]) - m),
                          ![n + 2] = @ \o SubSeq(M[n + 1], Len(M[n + 1]) - m + 1,
                                                 Len(M[n + 1]))]
<1>9. M2 = X
  <2>1. ASSUME NEW k \in 1 .. n + 2
        PROVE  M2[k] = X[k]
    <3>1. CASE k = n + 2
      BY <1>6, <1>8, <3>1
    <3>2. CASE k = n + 1
      BY <1>6, <1>8, <3>2
    <3>3. CASE k \in 1 .. n
      BY <1>6, <1>8, <3>3
    <3>4. QED
      BY <3>1, <3>2, <3>3, TwoMore
  <2>2. M2 = [k \in 1 .. n + 2 |-> M2[k]] /\ X = [k \in 1 .. n + 2 |-> X[k]]
    <3>1. M2 \in [1 .. n + 2 -> Seq(Value)] /\ M \in [1 .. n + 2 -> Seq(Value)]
      BY <1>4, <1>5, LenProperties
    <3>2. QED
      BY <3>1
  <2>3. QED
    BY <2>1, <2>2
<1>10. Len(M) > 1 /\ Len(M) - 1 = n + 1 /\ Len(M) = n + 2
  BY <1>5
<1>11. Dotted(M, R, L, M2, R, L2, m)
  <2>1. M2 = X
    BY <1>9
  <2> QED BY <1>6, <1>7, <1>10, <2>1 DEF Dotted
<1>12. m \in 0 .. (IF Len(M) > 1 THEN Len(M[Len(M) - 1]) ELSE 0)
  BY <1>6, <1>10
<1>13. QED
  BY <1>11, <1>12 DEF Seen, Stepped, M, R, L, M2, L2

\* What the stacks see is a step of the metastack.
LEMMA SeenIsStep ==
  ASSUME Seen(heap, stack, Interrupted, heap', stack', Interrupted')
  PROVE  Meta!Next
<1> DEFINE M2 == Metastack'
           R2 == Rooted'
           L2 == Walled'
<1>1. Stepped(Metastack, Rooted, Walled, M2, R2, L2)
  BY MetaIs DEF Seen
<1>2. ASSUME WorkDone(Metastack, Rooted, Walled, M2, R2, L2)
      PROVE  Meta!Next
  <2>1. Meta!Work
    BY <1>2 DEF WorkDone, TopChanged, Shorter, Meta!Work, Meta!TopChanges, Meta!n, Meta!Outer
  <2>2. QED
    BY <2>1 DEF Meta!Next
<1>3. ASSUME ZipEnded(Metastack, Rooted, Walled, M2, R2, L2)
      PROVE  Meta!Next
  <2>1. Meta!EndZip
    BY <1>3 DEF ZipEnded, TopChanged, Shorter, Meta!EndZip, Meta!TopChanges, Meta!n, Meta!Outer
  <2>2. QED
    BY <2>1 DEF Meta!Next
<1>4. ASSUME StackBegun(Metastack, Rooted, Walled, M2, R2, L2)
      PROVE  Meta!Next
  <2>1. \E root \in BOOLEAN : Meta!BeginStack(root)
    BY <1>4 DEF StackBegun, Meta!BeginStack
  <2>2. QED
    BY <2>1 DEF Meta!Next
<1>5. ASSUME GroupEnded(Metastack, Rooted, Walled, M2, R2, L2)
      PROVE  Meta!Next
  <2>1. Meta!EndGroup
    BY <1>5 DEF GroupEnded, Shorter, Meta!EndGroup, Meta!n, Meta!Outer
  <2>2. QED
    BY <2>1 DEF Meta!Next
<1>6. ASSUME StackDropped(Metastack, Rooted, Walled, M2, R2, L2)
      PROVE  Meta!Next
  <2>1. Meta!DropStack
    BY <1>6 DEF StackDropped, Shorter, Meta!DropStack, Meta!n, Meta!Outer
  <2>2. QED
    BY <2>1 DEF Meta!Next
<1>7. ASSUME ImporterLost(Metastack, Rooted, Walled, M2, R2, L2)
      PROVE  Meta!Next
  <2>1. Meta!LoseImporter
    BY <1>7 DEF ImporterLost, Shorter, Meta!LoseImporter, Meta!n, Meta!Outer
  <2>2. QED
    BY <2>1 DEF Meta!Next
<1>8. ASSUME NEW m \in 0 .. (IF Len(Metastack) > 1 THEN Len(Metastack[Len(Metastack) - 1])
                             ELSE 0),
             Dotted(Metastack, Rooted, Walled, M2, R2, L2, m)
      PROVE  Meta!Next
  <2>1. Meta!Dot(m)
    BY <1>8 DEF Dotted, Meta!Dot, Meta!n
  <2>2. m \in 0 .. (IF Meta!n > 1 THEN Len(Metastack[Meta!n - 1]) ELSE 0)
    BY <1>8 DEF Meta!n
  <2>3. QED
    BY <2>1, <2>2 DEF Meta!Next
<1>9. QED
  BY <1>1, <1>2, <1>3, <1>4, <1>5, <1>6, <1>7, <1>8 DEF Stepped
-----------------------------------------------------------------------------
(* What a step does to the frames, and what is seen of it.                 *)

\* No stack is interrupted or taken up again.
Quiet(F, n, F2, n2) ==
  \/ n2 = n /\ \A j \in 1 .. n : F2[j] = F[j]
  \/ \E f : Pushed(F, n, F2, n2, f) /\ ~GroupFrame(f) /\ f.kind # "zip"
  \/ Popped(F, n, F2, n2) /\ ~GroupFrame(F[n])
  \/ \E f : /\ Swapped(F, n, F2, n2, f)
            /\ GroupFrame(f) <=> GroupFrame(F[n])
            /\ f.kind = "module" <=> F[n].kind = "module"
            /\ f.kind = "zip" <=> F[n].kind = "zip"
            /\ f.stk = F[n].stk

LEMMA QuietSaved ==
  ASSUME NEW F, NEW n \in Nat \ {0}, NEW F2, NEW n2, Quiet(F, n, F2, n2)
  PROVE  Saved(F2, n2) = Saved(F, n)
<1>1. CASE n2 = n /\ \A j \in 1 .. n : F2[j] = F[j]
  BY <1>1, SavedSame
<1>2. ASSUME NEW f, Pushed(F, n, F2, n2, f), ~GroupFrame(f)
      PROVE  Saved(F2, n2) = Saved(F, n)
  BY <1>2, SavedPushed
<1>3. CASE Popped(F, n, F2, n2) /\ ~GroupFrame(F[n])
  BY <1>3, SavedPopped
<1>4. ASSUME NEW f, Swapped(F, n, F2, n2, f), GroupFrame(f) <=> GroupFrame(F[n]),
             f.kind = "module" <=> F[n].kind = "module", f.stk = F[n].stk
      PROVE  Saved(F2, n2) = Saved(F, n)
  <2>1. Item(f) = Item(F[n])
    BY <1>4 DEF Item
  <2>2. \E s : /\ Saved(F, n) = IF GroupFrame(F[n]) THEN Append(s, Item(F[n])) ELSE s
               /\ Saved(F2, n2) = IF GroupFrame(f) THEN Append(s, Item(f)) ELSE s
    BY <1>4, SavedSwapped
  <2>3. QED
    BY <1>4, <2>1, <2>2
<1>5. QED
  BY <1>1, <1>2, <1>3, <1>4 DEF Quiet

\* The pointers of the stacks that groups and zips hold stay.
PointersKept(H, F, n, H2) ==
  \A j \in 1 .. n : GroupFrame(F[j]) \/ F[j].kind = "zip" =>
    H2[F[j].stk].previous = H[F[j].stk].previous

LEMMA BarredHere ==
  ASSUME NEW H, NEW S, NEW F, NEW n \in Nat \ {0}, Barred(H, S, F, n),
         NEW j \in 1 .. n - 1, F[j].kind = "zip", H[F[j].stk].previous = NoStack,
         Ungrouped(F, j, n - 1)
  PROVE  /\ GroupFrame(F[n]) \/ F[n].kind = "zip" => H[F[n].stk].previous = NoStack
         /\ ~GroupFrame(F[n]) => H[S].previous = NoStack
<1>1. j \in 1 .. n /\ n \in j + 1 .. n
  OBVIOUS
<1>2. BarsWithin(H, F, n, j) /\ (Ungrouped(F, j, n) => H[S].previous = NoStack)
  BY <1>1 DEF Barred
<1>3. ~GroupFrame(F[n]) => Ungrouped(F, j, n)
  <2>1. \A k \in j + 1 .. n : k = n \/ k \in j + 1 .. n - 1
    BY <1>1
  <2>2. QED
    BY <2>1 DEF Ungrouped
<1>4. QED
  BY <1>1, <1>2, <1>3 DEF BarsWithin

LEMMA QuietBarred ==
  ASSUME NEW F, NEW n \in Nat \ {0}, NEW F2, NEW n2, Quiet(F, n, F2, n2),
         NEW H, NEW S, NEW H2, NEW S2, Barred(H, S, F, n), PointersKept(H, F, n, H2),
         H[S].previous = NoStack => H2[S2].previous = NoStack
  PROVE  Barred(H2, S2, F2, n2)
<1>1. CASE n2 = n /\ \A j \in 1 .. n : F2[j] = F[j]
  <2>1. HoldsSame(H, F, n, H2, F2)
    BY <1>1 DEF HoldsSame, PointersKept
  <2>2. QED
    BY <1>1, <2>1, BarredSame
<1>2. ASSUME NEW f, Pushed(F, n, F2, n2, f), ~GroupFrame(f), f.kind # "zip"
      PROVE  Barred(H2, S2, F2, n2)
  <2>1. HoldsSame(H, F, n, H2, F2)
    BY <1>2 DEF HoldsSame, PointersKept, Pushed
  <2>2. QED
    BY <1>2, <2>1, BarredPushed
<1>3. CASE Popped(F, n, F2, n2) /\ ~GroupFrame(F[n])
  <2>1. n2 = n - 1 /\ n2 \in {n - 1, n} /\ n2 # n
    BY <1>3 DEF Popped
  <2>2. HoldsSame(H, F, n - 1, H2, F2)
    BY <1>3, <2>1 DEF HoldsSame, PointersKept, Popped
  <2>3. \A j \in 1 .. n - 1 :
          F[j].kind = "zip" /\ H[F[j].stk].previous = NoStack /\ Ungrouped(F, j, n - 1) =>
            H2[S2].previous = NoStack
    BY <1>3, BarredHere
  <2>4. QED
    BY <2>1, <2>2, <2>3, BarredDropped
<1>4. ASSUME NEW f, Swapped(F, n, F2, n2, f), GroupFrame(f) <=> GroupFrame(F[n]),
             f.kind = "zip" <=> F[n].kind = "zip", f.stk = F[n].stk
      PROVE  Barred(H2, S2, F2, n2)
  <2>1. \A j \in 1 .. n : j = n \/ j \in 1 .. n - 1
    OBVIOUS
  <2>2. HoldsSame(H, F, n, H2, F2)
    BY <1>4, <2>1 DEF HoldsSame, PointersKept, Swapped
  <2>3. n2 = n
    BY <1>4 DEF Swapped
  <2>4. QED
    BY <2>2, <2>3, BarredSame
<1>5. QED
  BY <1>1, <1>2, <1>3, <1>4 DEF Quiet

\* The values and pointers of the stacks that groups hold stay.
GroupsKept(H, F, n, H2) ==
  \A j \in 1 .. n : GroupFrame(F[j]) =>
    /\ H2[F[j].stk].values = H[F[j].stk].values
    /\ H2[F[j].stk].previous = H[F[j].stk].previous

LEMMA SavedOK ==
  ASSUME NEW F, NEW n, FramesOK(F, n)
  PROVE  /\ n \in Nat \ {0}
         /\ Saved(F, n) \in Seq(Items)
         /\ \A k \in 1 .. Len(Saved(F, n)) : \E j \in 1 .. n :
              GroupFrame(F[j]) /\ Saved(F, n)[k] = Item(F[j])
<1>1. n \in Nat \ {0}
  BY DEF FramesOK
<1>2. \A j \in 1 .. n : GroupFrame(F[j]) => F[j].stk \in Stack
  BY DEF FramesOK, FrameOK, GroupFrame, OwnerKinds, Frame
<1>3. QED
  BY <1>1, <1>2, SavedFrom

LEMMA SameBelowSaved ==
  ASSUME NEW F, NEW n, FramesOK(F, n), NEW H, NEW H2, GroupsKept(H, F, n, H2)
  PROVE  SameBelow(H, Saved(F, n), H2)
<1>1. ASSUME NEW k \in 1 .. Len(Saved(F, n))
      PROVE  /\ H2[Saved(F, n)[k].stk].values = H[Saved(F, n)[k].stk].values
             /\ H2[Saved(F, n)[k].stk].previous = H[Saved(F, n)[k].stk].previous
  <2>1. PICK j \in 1 .. n : GroupFrame(F[j]) /\ Saved(F, n)[k] = Item(F[j])
    BY SavedOK
  <2>2. Saved(F, n)[k].stk = F[j].stk
    BY <2>1 DEF Item
  <2>3. QED
    BY <2>1, <2>2 DEF GroupsKept
<1>2. QED
  BY <1>1 DEF SameBelow

\* The frames stay quiet: only the current stack changes, or another one takes
\* its place.
LEMMA QuietSeen ==
  ASSUME NEW F, NEW n, FramesOK(F, n), NEW F2, NEW n2, Quiet(F, n, F2, n2),
         NEW H \in [Stack -> StackType], NEW S \in Stack,
         NEW H2 \in [Stack -> StackType], NEW S2 \in Stack,
         GroupsKept(H, F, n, H2), H2[S2].previous = NoStack <=> H[S].previous = NoStack
  PROVE  Seen(H, S, Saved(F, n), H2, S2, Saved(F2, n2))
<1>1. n \in Nat \ {0} /\ Saved(F, n) \in Seq(Items)
  BY SavedOK
<1>2. Saved(F2, n2) = Saved(F, n)
  BY <1>1, QuietSaved
<1>3. SameBelow(H, Saved(F, n), H2)
  BY SameBelowSaved
<1>4. QED
  BY <1>1, <1>2, <1>3, WorkSeen

\* The invariant that is needed, and what is proved of each step.
BInv == Barred(heap, stack, frames, Len(frames))

SeenStep == Seen(heap, stack, Interrupted, heap', stack', Interrupted')

Refines == BInv' /\ SeenStep

LEMMA InterruptedIs ==
  /\ Interrupted = Saved(frames, Len(frames))
  /\ Interrupted' = Saved(frames', Len(frames'))
BY DEF Interrupted

LEMMA IInvParts ==
  ASSUME IInv, IInv'
  PROVE  /\ FramesOK(frames, Len(frames)) /\ FramesOK(frames', Len(frames'))
         /\ heap \in [Stack -> StackType] /\ heap' \in [Stack -> StackType]
         /\ stack \in Stack /\ stack' \in Stack
         /\ Owned(heap, stack, frames, Len(frames))
         /\ Len(frames) \in Nat \ {0}
BY DEF IInv, StackInv, HeapOK, Owned, FramesOK

LEMMA QuietRefines ==
  ASSUME IInv, IInv', BInv, Quiet(frames, Len(frames), frames', Len(frames')),
         GroupsKept(heap, frames, Len(frames), heap'),
         PointersKept(heap, frames, Len(frames), heap'),
         heap'[stack'].previous = NoStack <=> heap[stack].previous = NoStack
  PROVE  Refines
<1> DEFINE H2 == heap'
           S2 == stack'
           F2 == frames'
           n2 == Len(frames')
<1>1. /\ FramesOK(frames, Len(frames)) /\ Len(frames) \in Nat \ {0}
      /\ heap \in [Stack -> StackType] /\ H2 \in [Stack -> StackType]
      /\ stack \in Stack /\ S2 \in Stack
  BY IInvParts
<1>2. /\ Quiet(frames, Len(frames), F2, n2) /\ GroupsKept(heap, frames, Len(frames), H2)
      /\ PointersKept(heap, frames, Len(frames), H2)
      /\ H2[S2].previous = NoStack <=> heap[stack].previous = NoStack
  OBVIOUS
<1>3. Barred(heap, stack, frames, Len(frames))
  BY DEF BInv
<1> HIDE DEF H2, S2, F2, n2
<1>4. Seen(heap, stack, Saved(frames, Len(frames)), H2, S2, Saved(F2, n2))
  BY <1>1, <1>2, QuietSeen
<1>5. Barred(H2, S2, F2, n2)
  BY <1>1, <1>2, <1>3, QuietBarred
<1>6. SeenStep
  BY <1>4, InterruptedIs DEF SeenStep, H2, S2, F2, n2
<1>7. BInv'
  BY <1>5 DEF BInv, H2, S2, F2, n2
<1>8. QED
  BY <1>6, <1>7 DEF Refines

\* A step that writes to the current stack, or to a stack that the innermost
\* frame holds and is no group's.
Near(W) == \A s \in W : s = stack \/ (s = Inner.stk /\ ~GroupFrame(Inner))

LEMMA NearKept ==
  ASSUME IInv, NEW W, Near(W), NEW j \in 1 .. Len(frames), GroupFrame(frames[j])
  PROVE  frames[j].stk \in Stack /\ frames[j].stk \notin W
<1>1. /\ Owned(heap, stack, frames, Len(frames)) /\ FrameOK(frames[j])
      /\ Len(frames) \in 1 .. Len(frames)
  BY DEF IInv, StackInv, FramesOK
<1>2. frames[j].stk # NoStack /\ frames[j].stk \in Stack
  BY <1>1 DEF FrameOK, Frame, OwnerKinds, GroupFrame
<1>3. frames[j].stk # stack
  BY <1>1, <1>2 DEF Owned
<1>4. frames[j].stk = Inner.stk => Len(frames) = j
  BY <1>1, <1>2 DEF Owned, Inner
<1>5. QED
  BY <1>2, <1>3, <1>4 DEF Near, Inner

LEMMA WorkedKept ==
  ASSUME IInv, NEW W, Near(W), Worked(heap, heap', W)
  PROVE  /\ GroupsKept(heap, frames, Len(frames), heap')
         /\ PointersKept(heap, frames, Len(frames), heap')
         /\ heap'[stack].previous = heap[stack].previous
<1>1. stack \in Stack /\ Len(frames) \in Nat \ {0}
  BY Facts
<1>2. \A j \in 1 .. Len(frames) : GroupFrame(frames[j]) \/ frames[j].kind = "zip" =>
        frames[j].stk \in Stack
  BY DEF IInv, StackInv, FramesOK, FrameOK, Frame, OwnerKinds, GroupFrame
<1>3. PointersKept(heap, frames, Len(frames), heap')
  BY <1>2 DEF PointersKept, Worked
<1>4. GroupsKept(heap, frames, Len(frames), heap')
  BY NearKept DEF GroupsKept, Worked
<1>5. QED
  BY <1>1, <1>3, <1>4 DEF Worked

LEMMA WorkRefines ==
  ASSUME IInv, IInv', BInv, NEW W, Near(W), Worked(heap, heap', W), stack' = stack,
         Quiet(frames, Len(frames), frames', Len(frames'))
  PROVE  Refines
BY WorkedKept, QuietRefines

LEMMA StaysRefine ==
  ASSUME IInv, IInv', BInv, NEW W, Near(W), Worked(heap, heap', W),
         UNCHANGED <<frames, stack>>
  PROVE  Refines
<1>1. Quiet(frames, Len(frames), frames', Len(frames'))
  BY DEF Quiet
<1>2. QED
  BY <1>1, WorkRefines

LEMMA CallsRefine ==
  ASSUME IInv, IInv', BInv, NEW W, Near(W), Worked(heap, heap', W),
         NEW f, FrameOK(f), f.stk = NoStack, f.kind # "repl",
         NEW c, Enter(f, c), UNCHANGED stack
  PROVE  Refines
<1>1. Pushed(frames, Len(frames), frames', Len(frames'), f)
  BY EnterFits DEF IInv
<1>2. ~GroupFrame(f) /\ f.kind # "zip"
  BY DEF FrameOK, OwnerKinds, GroupFrame
<1>3. Quiet(frames, Len(frames), frames', Len(frames'))
  BY <1>1, <1>2 DEF Quiet
<1>4. QED
  BY <1>3, WorkRefines

LEMMA ReturnsRefine ==
  ASSUME IInv, IInv', BInv, NEW W, Near(W), Worked(heap, heap', W),
         Inner.kind # "repl", Inner.kind \notin GroupKinds,
         NEW c, Leave(c), UNCHANGED stack
  PROVE  Refines
<1>1. Popped(frames, Len(frames), frames', Len(frames'))
  BY LeaveFits DEF IInv
<1>2. Quiet(frames, Len(frames), frames', Len(frames'))
  BY <1>1 DEF Quiet, GroupFrame, Inner
<1>3. QED
  BY <1>2, WorkRefines

LEMMA TurnsRefine ==
  ASSUME IInv, IInv', BInv, NEW W, Near(W), Worked(heap, heap', W),
         NEW f, FrameOK(f), f.stk = Inner.stk,
         f.kind = "repl" <=> Inner.kind = "repl",
         f.kind \in GroupKinds <=> Inner.kind \in GroupKinds,
         f.kind = "module" <=> Inner.kind = "module",
         f.kind = "zip" <=> Inner.kind = "zip",
         NEW c, Replace(f, c), UNCHANGED stack
  PROVE  Refines
<1>1. Swapped(frames, Len(frames), frames', Len(frames'), f)
  BY ReplaceFits DEF IInv
<1>2. Quiet(frames, Len(frames), frames', Len(frames'))
  BY <1>1 DEF Quiet, GroupFrame, Inner
<1>3. QED
  BY <1>2, WorkRefines

\* The stack that is acquired is empty and none that is held.
LEMMA AcquiredKept ==
  ASSUME IInv, NEW s \in Acquirable(HeldStacks), NEW prev \in Stack \cup {NoStack},
         Stack_acquire(s, prev, heap)
  PROVE  /\ GroupsKept(heap, frames, Len(frames), heap')
         /\ PointersKept(heap, frames, Len(frames), heap')
         /\ heap'[stack] = heap[stack]
         /\ s \in Stack /\ heap'[s].previous = prev /\ heap'[s].values = <<>>
<1>1. /\ Acquired(heap, pool, s, prev, heap', pool')
      /\ s \notin HeldBy(stack, frames, Len(frames))
      /\ \A t \in Stack \ {s} : heap'[t] = heap[t]
  BY HeldNotAcquirable
<1>2. HeapOK(heap, pool) /\ Chained(heap, pool) /\ stack \in Stack
  BY DEF IInv, StackInv, Owned
<1>3. s \in Stack /\ heap'[s].previous = prev
  <2> DEFINE H2 == heap'
             P2 == pool'
  <2>1. /\ Acquired(heap, pool, s, prev, H2, P2) /\ prev \in Stack \cup {NoStack}
        /\ HeapOK(heap, pool) /\ Chained(heap, pool)
    BY <1>1, <1>2
  <2> HIDE DEF H2, P2
  <2>2. /\ HeapOK(H2, P2) /\ Chained(H2, P2)
        /\ H2[s].status = "used" /\ H2[s].previous = prev
    BY ONLY <2>1, AcquiredOK
  <2>3. s \in Stack
    BY <1>1 DEF Acquired
  <2>4. QED
    BY <2>2, <2>3 DEF H2
<1>4. heap'[s].values = <<>>
  BY <1>1, <1>2, <1>3 DEF Acquired, NewStack, HeapOK, StackType
<1>5. \A j \in 1 .. Len(frames) : GroupFrame(frames[j]) \/ frames[j].kind = "zip" =>
        frames[j].stk \in Stack
  BY DEF IInv, StackInv, FramesOK, FrameOK, Frame, OwnerKinds, GroupFrame
<1>6. \A j \in 1 .. Len(frames) : GroupFrame(frames[j]) \/ frames[j].kind = "zip" =>
        heap'[frames[j].stk] = heap[frames[j].stk]
  BY <1>1, <1>5 DEF HeldBy
<1>7. heap'[stack] = heap[stack]
  BY <1>1, <1>2 DEF HeldBy
<1>8. QED
  BY <1>3, <1>4, <1>6, <1>7 DEF GroupsKept, PointersKept

LEMMA StartEachRefines ==
  ASSUME IInv, IInv', BInv, NEW kind \in {"map", "filter"}, StartEach(kind)
  PROVE  Refines
<1>1. PICK s \in Acquirable(HeldStacks) :
        Stack_acquire(s, heap[stack].previous, heap) /\ stack' = s
  BY DEF StartEach
<1>2. stack \in Stack /\ heap[stack].previous \in Stack \cup {NoStack} /\ CStackOK
  BY Facts
<1>3. /\ GroupsKept(heap, frames, Len(frames), heap')
      /\ PointersKept(heap, frames, Len(frames), heap')
      /\ heap'[stack'].previous = heap[stack].previous
  BY <1>1, <1>2, AcquiredKept
<1>4. /\ FrameOK(Saving(kind, stack)) /\ Saving(kind, stack).kind = kind
      /\ Enter(Saving(kind, stack), "turn")
  BY <1>2, SavingOK DEF StartEach
<1>5. Pushed(frames, Len(frames), frames', Len(frames'), Saving(kind, stack))
  BY <1>2, <1>4, EnterFits
<1>6. Quiet(frames, Len(frames), frames', Len(frames'))
  BY <1>4, <1>5 DEF Quiet, GroupFrame, GroupKinds
<1>7. QED
  BY <1>3, <1>6, QuietRefines

\* zip's result takes the same stack below as the current one has.
LEMMA StartZipRefines ==
  ASSUME IInv, IInv', BInv, StartZip
  PROVE  Refines
<1> DEFINE H2 == heap'
           F2 == frames'
           n2 == Len(frames')
<1>1. PICK s \in Acquirable(HeldStacks) :
        Stack_acquire(s, heap[stack].previous, heap) /\ Enter(Saving("zip", s), "turn")
  BY DEF StartZip
<1>2. /\ stack \in Stack /\ heap[stack].previous \in Stack \cup {NoStack} /\ CStackOK
      /\ Len(frames) \in Nat \ {0} /\ stack' = stack
  BY Facts DEF StartZip
<1>3. /\ GroupsKept(heap, frames, Len(frames), heap')
      /\ PointersKept(heap, frames, Len(frames), heap')
      /\ heap'[stack] = heap[stack] /\ s \in Stack
      /\ heap'[s].previous = heap[stack].previous
  BY <1>1, <1>2, AcquiredKept
<1>4. /\ FrameOK(Saving("zip", s)) /\ Saving("zip", s).kind = "zip"
      /\ Saving("zip", s).stk = s /\ ~GroupFrame(Saving("zip", s))
  BY <1>3, SavingOK DEF GroupFrame, GroupKinds
<1>5. Pushed(frames, Len(frames), frames', Len(frames'), Saving("zip", s))
  BY <1>1, <1>2, <1>4, EnterFits
<1>6. BInv'
  <2>1. HoldsSame(heap, frames, Len(frames), H2, F2)
    BY <1>3, <1>5 DEF HoldsSame, PointersKept, Pushed
  <2>2. /\ Pushed(frames, Len(frames), F2, n2, Saving("zip", s))
        /\ H2[stack] = heap[stack] /\ H2[s].previous = heap[stack].previous
        /\ Barred(heap, stack, frames, Len(frames))
    BY <1>3, <1>5 DEF BInv
  <2> HIDE DEF H2, F2, n2
  <2>3. Barred(H2, stack, F2, n2)
    BY <1>2, <1>4, <2>1, <2>2, BarredPushed
  <2>4. QED
    BY <1>2, <2>3 DEF BInv, H2, F2, n2
<1>7. SeenStep
  <2>1. /\ FramesOK(frames, Len(frames)) /\ heap \in [Stack -> StackType]
        /\ H2 \in [Stack -> StackType]
    BY IInvParts
  <2>2. /\ GroupsKept(heap, frames, Len(frames), H2) /\ H2[stack] = heap[stack]
        /\ Pushed(frames, Len(frames), F2, n2, Saving("zip", s))
    BY <1>3, <1>5
  <2> HIDE DEF H2, F2, n2
  <2>3. Saved(F2, n2) = Saved(frames, Len(frames))
    BY <1>2, <1>4, <2>2, SavedPushed
  <2>4. SameBelow(heap, Saved(frames, Len(frames)), H2)
    BY <2>1, <2>2, SameBelowSaved
  <2>5. Saved(frames, Len(frames)) \in Seq(Items)
    BY <2>1, SavedOK
  <2>6. Seen(heap, stack, Saved(frames, Len(frames)), H2, stack, Saved(frames, Len(frames)))
    BY <1>2, <2>1, <2>2, <2>4, <2>5, WorkSeen
  <2>7. QED
    BY <1>2, <2>3, <2>6, InterruptedIs DEF SeenStep, H2, F2, n2
<1>8. QED
  BY <1>6, <1>7 DEF Refines

\* A group or a module begins.
LEMMA BeginsRefine ==
  ASSUME IInv, IInv', BInv, NEW s \in Acquirable(HeldStacks),
         NEW prev \in Stack \cup {NoStack}, Stack_acquire(s, prev, heap), stack' = s,
         NEW f, FrameOK(f), f.kind \in GroupKinds, f.stk = stack,
         prev = NoStack <=> f.kind = "module", NEW c, Enter(f, c)
  PROVE  Refines
<1> DEFINE H2 == heap'
           F2 == frames'
           n2 == Len(frames')
<1>1. /\ stack \in Stack /\ CStackOK /\ Len(frames) \in Nat \ {0}
  BY Facts
<1>2. /\ GroupsKept(heap, frames, Len(frames), heap')
      /\ PointersKept(heap, frames, Len(frames), heap')
      /\ heap'[stack] = heap[stack]
      /\ s \in Stack /\ heap'[s].previous = prev /\ heap'[s].values = <<>>
  BY AcquiredKept
<1>3. Pushed(frames, Len(frames), frames', Len(frames'), f)
  <2>1. f.kind # "repl"
    BY DEF GroupKinds
  <2>2. QED
    BY <1>1, <2>1, EnterFits
<1>4. GroupFrame(f) /\ f.kind # "zip"
  BY DEF GroupFrame, GroupKinds
<1>5. BInv'
  <2>1. HoldsSame(heap, frames, Len(frames), H2, F2)
    BY <1>2, <1>3 DEF HoldsSame, PointersKept, Pushed
  <2>2. /\ Pushed(frames, Len(frames), F2, n2, f) /\ H2[stack] = heap[stack]
        /\ Barred(heap, stack, frames, Len(frames))
    BY <1>2, <1>3 DEF BInv
  <2> HIDE DEF H2, F2, n2
  <2>3. Barred(H2, s, F2, n2)
    BY <1>1, <1>4, <2>1, <2>2, BarredPushed
  <2>4. QED
    BY <2>3 DEF BInv, H2, F2, n2
<1>6. SeenStep
  <2>1. /\ FramesOK(frames, Len(frames)) /\ heap \in [Stack -> StackType]
        /\ H2 \in [Stack -> StackType]
    BY IInvParts
  <2>2. /\ GroupsKept(heap, frames, Len(frames), H2) /\ H2[stack] = heap[stack]
        /\ H2[s].previous = prev /\ H2[s].values = <<>>
        /\ Pushed(frames, Len(frames), F2, n2, f)
    BY <1>2, <1>3
  <2> HIDE DEF H2, F2, n2
  <2>3. Saved(F2, n2) = Append(Saved(frames, Len(frames)), Item(f))
    BY <1>1, <1>4, <2>2, SavedPushed
  <2>4. SameBelow(heap, Saved(frames, Len(frames)), H2)
    BY <2>1, <2>2, SameBelowSaved
  <2>5. Saved(frames, Len(frames)) \in Seq(Items)
    BY <2>1, SavedOK
  <2>6. /\ Item(f) \in Items /\ Item(f).stk = stack
        /\ Item(f).module <=> f.kind = "module"
    BY <1>1 DEF Item, Items
  <2>7. H2[s].previous = NoStack <=> Item(f).module
    BY <2>2, <2>6
  <2>8. Seen(heap, stack, Saved(frames, Len(frames)), H2, s,
             Append(Saved(frames, Len(frames)), Item(f)))
    BY <1>1, <1>2, <2>1, <2>2, <2>4, <2>5, <2>6, <2>7, BegunSeen
  <2>9. QED
    BY <2>3, <2>8, InterruptedIs DEF SeenStep, H2, F2, n2
<1>7. QED
  BY <1>5, <1>6 DEF Refines
-----------------------------------------------------------------------------
(* Values that move between stacks, and groups and modules that end.       *)

\* The top n of the values B of a stack and the rest of them.
TopOf(B, n) == SubSeq(B, Len(B) - n + 1, Len(B))
RestOf(B, n) == SubSeq(B, 1, Len(B) - n)

\* In K the top n values of `from` are on the end of `to`.
MovedTop(H, K, from, to, n) ==
  /\ K[from].values = RestOf(H[from].values, n)
  /\ K[to].values = H[to].values \o TopOf(H[from].values, n)

LEMMA WrittenValues ==
  ASSUME NEW H \in [Stack -> StackType], NEW s \in Stack, NEW vs \in Seq(Value)
  PROVE  /\ Write(H, s, vs)[s].values = vs
         /\ \A t \in Stack \ {s} : Write(H, s, vs)[t] = H[t]
<1> DEFINE G == [H EXCEPT ![s].values = vs]
<1>1. H[s] \in StackType
  OBVIOUS
<1>2. G \in [Stack -> StackType] /\ G[s].values = vs /\ \A t \in Stack \ {s} : G[t] = H[t]
  BY <1>1 DEF StackType
<1> HIDE DEF G
<1>3. Write(H, s, vs) = [G EXCEPT ![s].big = @ \/ Len(vs) > PooledMax]
  BY DEF Write, Reserve, G
<1>4. G[s] \in StackType
  BY <1>2
<1>5. [G[s] EXCEPT !.big = @ \/ Len(vs) > PooledMax].values = G[s].values
  BY <1>4 DEF StackType
<1>6. QED
  BY <1>2, <1>3, <1>5

LEMMA MovedValues ==
  ASSUME NEW H \in [Stack -> StackType],
         NEW from \in Stack, NEW to \in Stack, from # to,
         NEW n \in Nat, n <= Len(H[from].values)
  PROVE  MovedTop(H, Stack_move(H, from, to, n), from, to, n)
<1>1. H[from] \in StackType /\ H[to] \in StackType
  OBVIOUS
<1>2. PICK B \in Seq(Value) : B = H[from].values
  BY <1>1 DEF StackType
<1>3. PICK C \in Seq(Value) : C = H[to].values
  BY <1>1 DEF StackType
<1>4. Len(B) \in Nat /\ n <= Len(B)
  BY <1>2
<1> DEFINE K == Stack_move(H, from, to, n)
<1>5. CASE C = <<>> /\ Len(B) = n
  <2>1. K = [H EXCEPT ![from].values = <<>>, ![from].big = H[to].big,
                      ![to].values = H[from].values, ![to].big = H[from].big]
    BY <1>2, <1>3, <1>5 DEF Stack_move
  <2>2. K[from].values = <<>> /\ K[to].values = B
    BY <1>1, <1>2, <2>1 DEF StackType
  <2>3. TopOf(B, n) = B
    <3>1. Len(B) - n + 1 = 1
      BY <1>4, <1>5
    <3>2. SubSeq(B, 1, Len(B)) = B
      BY SubSeqFull
    <3>3. QED
      BY <3>1, <3>2 DEF TopOf
  <2>4. RestOf(B, n) = <<>>
    <3>1. Len(B) - n = 0
      BY <1>4, <1>5
    <3>2. SubSeq(B, 1, 0) = <<>>
      BY SubSeqEmpty
    <3>3. QED
      BY <3>1, <3>2 DEF RestOf
  <2>5. <<>> \o B = B
    BY ConcatEmptySeq
  <2> HIDE DEF K
  <2>6. QED
    BY <1>2, <1>3, <1>5, <2>2, <2>3, <2>4, <2>5 DEF MovedTop, K
<1>6. CASE ~(C = <<>> /\ Len(B) = n)
  <2> DEFINE G == Drop(H, from, n)
             vs == C \o TopOf(B, n)
  <2>1. K = Write(G, to, vs)
    BY <1>2, <1>3, <1>6 DEF Stack_move, Top, TopOf
  <2>2. PICK m \in Int : m = Len(B) - n /\ m <= Len(B) /\ 1 <= m + 1 /\ m + 1 \in Int
    <3>1. PICK l \in Nat : l = Len(B) /\ n <= l
      BY <1>4
    <3>2. l - n \in Int /\ l - n <= l /\ 1 <= (l - n) + 1 /\ (l - n) + 1 \in Int
      BY <3>1
    <3>3. QED
      BY <3>1, <3>2
  <2>3. TopOf(B, n) \in Seq(Value) /\ RestOf(B, n) \in Seq(Value)
    <3>1. SubSeq(B, m + 1, Len(B)) \in Seq(Value)
      BY <1>4, <2>2, PartOfValues
    <3>2. SubSeq(B, 1, m) \in Seq(Value)
      BY <2>2, PartOfValues
    <3>3. QED
      BY <2>2, <3>1, <3>2 DEF TopOf, RestOf
  <2>4. vs \in Seq(Value)
    BY <2>3, ConcatProperties
  <2>5. G = [H EXCEPT ![from].values = RestOf(B, n)]
    BY <1>2 DEF Drop, RestOf
  <2>6. G \in [Stack -> StackType] /\ G[from].values = RestOf(B, n)
    <3>1. PICK rs \in Seq(Value) : rs = RestOf(B, n)
      BY <2>3
    <3>2. [H EXCEPT ![from].values = rs] \in [Stack -> StackType]
      BY <1>1 DEF StackType
    <3>3. [H EXCEPT ![from].values = rs][from].values = rs
      BY <1>1 DEF StackType
    <3>4. G = [H EXCEPT ![from].values = rs]
      BY <2>5, <3>1
    <3>5. QED
      BY <3>1, <3>2, <3>3, <3>4
  <2> HIDE DEF G, vs
  <2>7. Write(G, to, vs)[to].values = vs /\ Write(G, to, vs)[from] = G[from]
    BY <2>4, <2>6, WrittenValues
  <2>8. QED
    BY <1>2, <1>3, <2>1, <2>6, <2>7 DEF MovedTop, vs
<1>7. QED
  BY <1>5, <1>6

LEMMA AllMoved ==
  ASSUME NEW H \in [Stack -> StackType], NEW from \in Stack, NEW to \in Stack, from # to
  PROVE  MoveAll(H, from, to)[to].values = H[to].values \o H[from].values
<1>1. PICK B \in Seq(Value) : B = H[from].values
  BY DEF StackType
<1>2. PICK n \in Nat : n = Len(B)
  OBVIOUS
<1>3. MovedTop(H, Stack_move(H, from, to, n), from, to, n)
  BY <1>1, <1>2, MovedValues
<1>4. TopOf(B, n) = B
  <2>1. Len(B) - n + 1 = 1
    BY <1>2
  <2>2. SubSeq(B, 1, Len(B)) = B
    BY SubSeqFull
  <2>3. QED
    BY <2>1, <2>2 DEF TopOf
<1>5. MoveAll(H, from, to) = Stack_move(H, from, to, n)
  BY <1>1, <1>2 DEF MoveAll
<1>6. QED
  BY <1>1, <1>3, <1>4, <1>5 DEF MovedTop

\* The innermost frame is gone, or holds no stack any more.
Over(F, n, F2, n2) ==
  \/ Popped(F, n, F2, n2)
  \/ \E f : Swapped(F, n, F2, n2, f) /\ ~GroupFrame(f) /\ f.kind # "zip"

LEMMA OverFrames ==
  ASSUME NEW F, NEW n \in Nat \ {0}, NEW F2, NEW n2, Over(F, n, F2, n2)
  PROVE  /\ n2 \in {n - 1, n}
         /\ n2 = n => ~GroupFrame(F2[n]) /\ F2[n].kind # "zip"
         /\ \A j \in 1 .. n - 1 : F2[j] = F[j]
         /\ \A j \in 1 .. n2 : GroupFrame(F2[j]) \/ F2[j].kind = "zip" => j \in 1 .. n - 1
         /\ Saved(F, n) = IF GroupFrame(F[n]) THEN Append(Saved(F2, n2), Item(F[n]))
                          ELSE Saved(F2, n2)
<1>1. CASE Popped(F, n, F2, n2)
  <2>1. n2 = n - 1 /\ \A j \in 1 .. n - 1 : F2[j] = F[j]
    BY <1>1 DEF Popped
  <2>2. Saved(F, n) = IF GroupFrame(F[n]) THEN Append(Saved(F2, n2), Item(F[n]))
                      ELSE Saved(F2, n2)
    BY <1>1, SavedPopped
  <2>3. \A j \in 1 .. n2 : GroupFrame(F2[j]) \/ F2[j].kind = "zip" => j \in 1 .. n - 1
    BY <2>1
  <2>4. n2 # n /\ n2 \in {n - 1, n}
    BY <2>1
  <2>5. QED
    BY <2>1, <2>2, <2>3, <2>4, Zenon
<1>2. ASSUME NEW f, Swapped(F, n, F2, n2, f), ~GroupFrame(f), f.kind # "zip"
      PROVE  /\ n2 = n /\ F2[n] = f
             /\ \A j \in 1 .. n - 1 : F2[j] = F[j]
             /\ Saved(F, n) = IF GroupFrame(F[n]) THEN Append(Saved(F2, n2), Item(F[n]))
                              ELSE Saved(F2, n2)
  <2>1. n2 = n /\ F2[n] = f /\ \A j \in 1 .. n - 1 : F2[j] = F[j]
    BY <1>2 DEF Swapped
  <2>2. PICK s : /\ Saved(F, n) = IF GroupFrame(F[n]) THEN Append(s, Item(F[n])) ELSE s
                 /\ Saved(F2, n2) = IF GroupFrame(f) THEN Append(s, Item(f)) ELSE s
    BY <1>2, SavedSwapped
  <2>3. QED
    BY <1>2, <2>1, <2>2
<1>3. ASSUME NEW j \in 1 .. n, j # n
      PROVE  j \in 1 .. n - 1
  BY <1>3
<1>4. QED
  BY <1>1, <1>2, <1>3 DEF Over

\* S2 is taken up again, and S left: what S holds is dropped or goes to S2.
HandsBack(H, S, H2, S2) ==
  /\ \A t \in Stack \ {S} : H2[t].previous = H[t].previous
  /\ \A t \in Stack \ {S, S2} : H2[t].values = H[t].values
  /\ \/ H2[S2].values = H[S2].values \o H[S].values
     \/ H2[S2].values = H[S2].values

LEMMA EndsSeen ==
  ASSUME NEW F, NEW n \in Nat \ {0}, FramesOK(F, n),
         NEW F2, NEW n2 \in Nat \ {0}, FramesOK(F2, n2),
         Over(F, n, F2, n2), GroupFrame(F[n]),
         NEW H \in [Stack -> StackType], NEW S \in Stack, Owned(H, S, F, n),
         NEW H2 \in [Stack -> StackType], NEW S2 \in Stack, S2 = F[n].stk,
         HandsBack(H, S, H2, S2),
         Barred(H, S, F, n)
  PROVE  Seen(H, S, Saved(F, n), H2, S2, Saved(F2, n2)) /\ Barred(H2, S2, F2, n2)
<1>1. n \in 1 .. n
  OBVIOUS
<1>2. /\ n2 \in {n - 1, n}
      /\ n2 = n => ~GroupFrame(F2[n]) /\ F2[n].kind # "zip"
      /\ \A j \in 1 .. n - 1 : F2[j] = F[j]
      /\ \A j \in 1 .. n2 : GroupFrame(F2[j]) \/ F2[j].kind = "zip" => j \in 1 .. n - 1
      /\ Saved(F, n) = Append(Saved(F2, n2), Item(F[n]))
  BY <1>1, OverFrames
<1>3. ASSUME NEW j \in 1 .. n, GroupFrame(F[j]) \/ F[j].kind = "zip"
      PROVE  F[j].stk \in Stack /\ F[j].stk # S /\ (j # n => F[j].stk # S2)
  <2>1. FrameOK(F[j])
    BY DEF FramesOK
  <2>2. F[j].stk # NoStack /\ F[j].stk \in Stack
    BY <1>3, <2>1 DEF FrameOK, Frame, OwnerKinds, GroupFrame
  <2>3. QED
    BY <1>1, <2>2 DEF Owned
<1>4. S2 # S /\ H2[S2].previous = H[S2].previous
  BY <1>1, <1>3 DEF HandsBack
<1>5. GroupsKept(H, F2, n2, H2)
  <2>1. ASSUME NEW j \in 1 .. n2, GroupFrame(F2[j])
        PROVE  /\ H2[F2[j].stk].values = H[F2[j].stk].values
               /\ H2[F2[j].stk].previous = H[F2[j].stk].previous
    <3>1. j \in 1 .. n - 1 /\ j \in 1 .. n /\ j # n /\ F2[j] = F[j]
      BY <1>1, <1>2, <2>1
    <3>2. F[j].stk \in Stack \ {S, S2}
      BY <1>3, <2>1, <3>1
    <3>3. QED
      BY <3>1, <3>2 DEF HandsBack
  <2>2. QED
    BY <2>1 DEF GroupsKept
<1>6. SameBelow(H, Saved(F2, n2), H2)
  BY <1>5, SameBelowSaved
<1>7. Saved(F2, n2) \in Seq(Items) /\ Item(F[n]) \in Items /\ Item(F[n]).stk = S2
  BY <1>1, <1>3, SavedOK DEF Item, Items
<1>8. Seen(H, S, Append(Saved(F2, n2), Item(F[n])), H2, S2, Saved(F2, n2))
  <2>1. CASE H2[S2].values = H[S2].values \o H[S].values
    BY <1>4, <1>6, <1>7, <2>1, GroupSeen
  <2>2. CASE H2[S2].values = H[S2].values
    BY <1>4, <1>6, <1>7, <2>2, DropSeen
  <2>3. QED
    BY <2>1, <2>2 DEF HandsBack
<1>9. Barred(H2, S2, F2, n2)
  <2>1. HoldsSame(H, F, n - 1, H2, F2)
    <3>1. ASSUME NEW j \in 1 .. n - 1
          PROVE  j \in 1 .. n /\ F2[j] = F[j]
      BY <1>1, <1>2
    <3>2. QED
      BY <1>3, <3>1 DEF HoldsSame, HandsBack
  <2>2. \A j \in 1 .. n - 1 :
          F[j].kind = "zip" /\ H[F[j].stk].previous = NoStack /\ Ungrouped(F, j, n - 1) =>
            H2[S2].previous = NoStack
    BY <1>1, <1>4, BarredHere
  <2>3. /\ n \in Nat \ {0} /\ Barred(H, S, F, n) /\ n2 \in {n - 1, n}
        /\ n2 = n => ~GroupFrame(F2[n]) /\ F2[n].kind # "zip"
    BY <1>2
  <2>4. QED
    BY ONLY <2>1, <2>2, <2>3, BarredDropped
<1>10. QED
  BY <1>2, <1>8, <1>9

LEMMA EndsRefine ==
  ASSUME IInv, IInv', BInv, GroupFrame(Inner), stack' = Inner.stk,
         Over(frames, Len(frames), frames', Len(frames')),
         HandsBack(heap, stack, heap', stack')
  PROVE  Refines
<1> DEFINE H2 == heap'
           S2 == stack'
           F2 == frames'
           n2 == Len(frames')
<1>1. /\ FramesOK(frames, Len(frames)) /\ FramesOK(F2, n2)
      /\ Len(frames) \in Nat \ {0} /\ n2 \in Nat \ {0}
      /\ heap \in [Stack -> StackType] /\ H2 \in [Stack -> StackType]
      /\ stack \in Stack /\ S2 \in Stack
      /\ Owned(heap, stack, frames, Len(frames))
  BY IInvParts DEF FramesOK
<1>2. /\ Over(frames, Len(frames), F2, n2) /\ GroupFrame(frames[Len(frames)])
      /\ S2 = frames[Len(frames)].stk
      /\ HandsBack(heap, stack, H2, S2)
  BY DEF Inner
<1>3. Barred(heap, stack, frames, Len(frames))
  BY DEF BInv
<1> HIDE DEF H2, S2, F2, n2
<1>4. /\ Seen(heap, stack, Saved(frames, Len(frames)), H2, S2, Saved(F2, n2))
      /\ Barred(H2, S2, F2, n2)
  BY <1>1, <1>2, <1>3, EndsSeen
<1>5. SeenStep
  BY <1>4, InterruptedIs DEF SeenStep, H2, S2, F2, n2
<1>6. BInv'
  BY <1>4 DEF BInv, H2, S2, F2, n2
<1>7. QED
  BY <1>5, <1>6 DEF Refines

LEMMA ReleasedElsewhere ==
  ASSUME NEW h \in [Stack -> StackType], stack \in Stack,
         Stack_release(stack, h) \/ heap' = h
  PROVE  \A t \in Stack \ {stack} : heap'[t] = h[t]
BY DEF Stack_release

LEMMA MovedBack ==
  ASSUME IInv, GroupFrame(Inner), stack' = Inner.stk,
         \/ Stack_release(stack, MoveAll(heap, stack, Inner.stk))
         \/ heap' = MoveAll(heap, stack, Inner.stk)
  PROVE  HandsBack(heap, stack, heap', stack')
<1>1. /\ heap \in [Stack -> StackType] /\ stack \in Stack
      /\ Inner.stk \in Stack /\ Inner.stk # stack
  BY Facts, InnerStack DEF GroupFrame, OwnerKinds
<1>2. Worked(heap, MoveAll(heap, stack, Inner.stk), {stack, Inner.stk})
  BY MovesOK DEF GroupFrame
<1>3. PICK h : h = MoveAll(heap, stack, Inner.stk)
  OBVIOUS
<1>4. h \in [Stack -> StackType] /\ (Stack_release(stack, h) \/ heap' = h)
  BY <1>2, <1>3 DEF Worked
<1>5. \A t \in Stack \ {stack} : heap'[t] = h[t]
  BY <1>1, <1>4, ReleasedElsewhere
<1>6. \A t \in Stack : /\ h[t].previous = heap[t].previous
                       /\ t \notin {stack, Inner.stk} => h[t] = heap[t]
  BY <1>2, <1>3 DEF Worked
<1>7. h[Inner.stk].values = heap[Inner.stk].values \o heap[stack].values
  BY <1>1, <1>3, AllMoved
<1>8. /\ \A t \in Stack \ {stack} : heap'[t].previous = heap[t].previous
      /\ \A t \in Stack \ {stack, stack'} : heap'[t].values = heap[t].values
  BY <1>5, <1>6
<1>9. heap'[stack'].values = heap[stack'].values \o heap[stack].values
  BY <1>1, <1>5, <1>7
<1>10. QED
  BY <1>8, <1>9 DEF HandsBack

LEMMA LeftBehind ==
  ASSUME IInv, GroupFrame(Inner), stack' = Inner.stk, Stack_release(stack, heap)
  PROVE  HandsBack(heap, stack, heap', stack')
<1>1. /\ heap \in [Stack -> StackType] /\ stack \in Stack
      /\ Inner.stk \in Stack /\ Inner.stk # stack
  BY Facts, InnerStack DEF GroupFrame, OwnerKinds
<1>2. \A t \in Stack \ {stack} : heap'[t] = heap[t]
  BY <1>1, ReleasedElsewhere
<1>3. QED
  BY <1>1, <1>2 DEF HandsBack

LEMMA GroupOverRefines ==
  ASSUME IInv, IInv', BInv, GroupFrame(Inner), stack' = Inner.stk,
         \/ Stack_release(stack, MoveAll(heap, stack, Inner.stk))
         \/ heap' = MoveAll(heap, stack, Inner.stk)
         \/ Stack_release(stack, heap),
         NEW c, Leave(c)
  PROVE  Refines
<1>1. HandsBack(heap, stack, heap', stack')
  BY MovedBack, LeftBehind
<1>2. Inner.kind # "repl"
  BY DEF GroupFrame, GroupKinds
<1>3. Over(frames, Len(frames), frames', Len(frames'))
  BY <1>2, LeaveFits DEF IInv, Over
<1>4. QED
  BY <1>1, <1>3, EndsRefine

LEMMA ModuleRefines ==
  ASSUME IInv, IInv', BInv, ModuleReturns
  PROVE  Refines
<1>1. GroupFrame(Inner) /\ Inner.kind # "repl" /\ stack' = Inner.stk
  BY DEF ModuleReturns, Returned, GroupFrame, GroupKinds
<1>2. Stack_release(stack, heap)
  BY DEF ModuleReturns
<1>3. CASE Leave("eval")
  BY <1>1, <1>2, <1>3, GroupOverRefines
<1>4. CASE Replace(Plain("node"), "call")
  <2>1. Swapped(frames, Len(frames), frames', Len(frames'), Plain("node"))
    BY <1>1, <1>4, PlainOK, ReplaceFits DEF IInv
  <2>2. ~GroupFrame(Plain("node")) /\ Plain("node").kind # "zip"
    BY PlainOK DEF GroupFrame
  <2>3. Over(frames, Len(frames), frames', Len(frames'))
    BY <2>1, <2>2 DEF Over
  <2>4. HandsBack(heap, stack, heap', stack')
    BY <1>1, <1>2, LeftBehind
  <2>5. QED
    BY <1>1, <2>3, <2>4, EndsRefine
<1>5. QED
  BY <1>3, <1>4 DEF ModuleReturns

\* A module fails: its stack stays current, and `.` raises in it.
LEMMA ImporterRefines ==
  ASSUME IInv, IInv', BInv, Inner.kind = "module", UNCHANGED <<heap, stack>>, Leave("fail")
  PROVE  Refines
<1> DEFINE F2 == frames'
           n2 == Len(frames')
<1>1. /\ FramesOK(frames, Len(frames)) /\ FramesOK(F2, n2)
      /\ heap \in [Stack -> StackType] /\ stack \in Stack
      /\ Owned(heap, stack, frames, Len(frames))
      /\ Len(frames) \in Nat \ {0}
  BY IInvParts
<1>2. Popped(frames, Len(frames), F2, n2)
  BY LeaveFits DEF IInv
<1>3. GroupFrame(Inner) /\ Inner = frames[Len(frames)]
  BY DEF GroupFrame, GroupKinds, Inner
<1>4. heap[stack].previous = NoStack
  <2>1. Linked(heap[stack].previous, frames, Len(frames))
    BY DEF IInv, StackInv, Links
  <2>2. QED
    BY <1>1, <1>3, <2>1, LinkedModule
<1>5. Barred(heap, stack, frames, Len(frames))
  BY DEF BInv
<1> HIDE DEF F2, n2
<1>6. Saved(frames, Len(frames)) = Append(Saved(F2, n2), Item(Inner))
  BY <1>1, <1>2, <1>3, SavedPopped
<1>7. Saved(F2, n2) \in Seq(Items)
  BY <1>1, SavedOK
<1>8. Item(Inner) \in Items /\ Item(Inner).module
  <2>1. Inner.stk \in Stack
    BY <1>3, InnerStack DEF GroupFrame, OwnerKinds
  <2>2. QED
    BY <2>1 DEF Item, Items
<1>9. SameBelow(heap, Saved(F2, n2), heap)
  BY DEF SameBelow
<1>10. Seen(heap, stack, Append(Saved(F2, n2), Item(Inner)), heap, stack, Saved(F2, n2))
  BY <1>1, <1>4, <1>7, <1>8, <1>9, LoseSeen
<1>11. Barred(heap, stack, F2, n2)
  <2>1. HoldsSame(heap, frames, n2, heap, F2) /\ n2 = Len(frames) - 1
    BY <1>2 DEF HoldsSame, Popped
  <2>2. n2 # Len(frames)
    BY <1>1, <2>1
  <2>3. QED
    BY <1>1, <1>4, <1>5, <2>1, <2>2, BarredDropped
<1>12. SeenStep
  BY <1>6, <1>10, InterruptedIs DEF SeenStep, F2, n2
<1>13. BInv'
  BY <1>11 DEF BInv, F2, n2
<1>14. QED
  BY <1>12, <1>13 DEF Refines

\* Frame i + 1 is the innermost one that has interrupted a stack, p.
InnermostAt(F, n, p, i) ==
  /\ i + 1 \in 1 .. n /\ GroupFrame(F[i + 1])
  /\ F[i + 1].kind # "module" /\ F[i + 1].stk = p
  /\ Saved(F, n) = Append(Saved(F, i), Item(F[i + 1]))

\* `.` moves values from the stack that the innermost group has interrupted.
LEMMA InnermostSaved ==
  ASSUME NEW F, NEW n, FramesOK(F, n), NEW p, p # NoStack, Linked(p, F, n)
  PROVE  \E i \in Nat : InnermostAt(F, n, p, i)
<1>1. n \in Nat \ {0}
  BY DEF FramesOK
<1>2. PICK j \in 1 .. n : /\ F[j].kind \in GroupKinds \ {"module"} /\ F[j].stk = p
                          /\ \A k \in j + 1 .. n : F[k].kind \notin GroupKinds
  BY DEF Linked
<1>3. PICK i \in Nat : i + 1 = j
  BY <1>1
<1>4. j \in 0 .. n /\ n \in Nat
  BY <1>1
<1>5. Ungrouped(F, j, n)
  BY <1>2 DEF Ungrouped, GroupFrame
<1>6. Saved(F, n) = Saved(F, j)
  BY <1>4, <1>5, SavedLast
<1>7. GroupFrame(F[i + 1])
  BY <1>2, <1>3 DEF GroupFrame
<1>8. Saved(F, i + 1) = Append(Saved(F, i), Item(F[i + 1]))
  BY <1>3, <1>7, SavedNext
<1>9. QED
  BY <1>2, <1>3, <1>6, <1>7, <1>8 DEF InnermostAt

LEMMA DotsRefine ==
  ASSUME IInv, IInv', BInv, NEW n \in 0 .. MaxValues, NodeDots(n)
  PROVE  Refines
<1> DEFINE H2 == heap'
<1>1. /\ FramesOK(frames, Len(frames)) /\ Len(frames) \in Nat \ {0}
      /\ heap \in [Stack -> StackType] /\ H2 \in [Stack -> StackType] /\ stack \in Stack
      /\ Owned(heap, stack, frames, Len(frames))
  BY IInvParts
<1>2. PICK p \in Stack : p = heap[stack].previous
  BY Facts DEF NodeDots
<1>3. p # NoStack /\ n <= Len(heap[p].values) /\ H2 = Stack_move(heap, p, stack, n)
  BY <1>2 DEF NodeDots, SetHeap
<1>4. heap[p].status = "used" /\ heap[stack].status = "used" /\ p # stack /\ n \in Nat
  BY <1>2, PreviousHeld, Facts, EvaluatorAssumption
<1>5. Worked(heap, H2, {p, stack})
  BY <1>1, <1>3, <1>4, MoveWorks
<1>6. MovedTop(heap, H2, p, stack, n)
  BY <1>1, <1>3, <1>4, MovedValues
<1>7. UNCHANGED <<frames, stack>>
  BY DEF NodeDots
<1> HIDE DEF H2
<1>8. \A s \in Stack : /\ H2[s].previous = heap[s].previous
                       /\ s \notin {p, stack} => H2[s] = heap[s]
  BY <1>5 DEF Worked
<1>9. Linked(p, frames, Len(frames))
  BY <1>2 DEF IInv, StackInv, Links
<1>10. PICK i \in Nat : /\ i + 1 \in 1 .. Len(frames) /\ GroupFrame(frames[i + 1])
                        /\ frames[i + 1].kind # "module" /\ frames[i + 1].stk = p
                        /\ Saved(frames, Len(frames)) =
                             Append(Saved(frames, i), Item(frames[i + 1]))
  <2>1. PICK i \in Nat : InnermostAt(frames, Len(frames), p, i)
    BY <1>1, <1>3, <1>9, InnermostSaved
  <2>2. QED
    BY <2>1 DEF InnermostAt
<1>11. Item(frames[i + 1]) \in Items /\ Item(frames[i + 1]).stk = p
  BY <1>10 DEF Item, Items
<1>12. ASSUME NEW j \in 1 .. Len(frames), GroupFrame(frames[j]) \/ frames[j].kind = "zip"
       PROVE  /\ frames[j].stk \in Stack /\ frames[j].stk # stack
              /\ frames[j].stk = p => j = i + 1
  <2>1. FrameOK(frames[j])
    BY <1>1 DEF FramesOK
  <2>2. frames[j].stk # NoStack /\ frames[j].stk \in Stack
    BY <1>12, <2>1 DEF FrameOK, Frame, OwnerKinds, GroupFrame
  <2>3. QED
    BY <1>1, <1>10, <2>2 DEF Owned
<1>13. /\ Saved(frames, i) \in Seq(Items)
       /\ \A k \in 1 .. Len(Saved(frames, i)) : \E j \in 1 .. i :
            GroupFrame(frames[j]) /\ Saved(frames, i)[k] = Item(frames[j])
  <2>1. \A j \in 1 .. i : j \in 1 .. Len(frames)
    BY <1>1, <1>10
  <2>2. \A j \in 1 .. i : GroupFrame(frames[j]) => frames[j].stk \in Stack
    BY <1>12, <2>1
  <2>3. QED
    BY <2>2, SavedFrom
<1>14. SameBelow(heap, Saved(frames, i), H2)
  <2>1. ASSUME NEW k \in 1 .. Len(Saved(frames, i))
        PROVE  H2[Saved(frames, i)[k].stk] = heap[Saved(frames, i)[k].stk]
    <3>1. PICK j \in 1 .. i : GroupFrame(frames[j]) /\ Saved(frames, i)[k] = Item(frames[j])
      BY <1>13
    <3>2. j \in 1 .. Len(frames) /\ j # i + 1
      BY <1>1, <1>10, <3>1
    <3>3. frames[j].stk \in Stack /\ frames[j].stk \notin {p, stack}
      BY <1>12, <3>1, <3>2
    <3>4. Saved(frames, i)[k].stk = frames[j].stk
      BY <3>1 DEF Item
    <3>5. QED
      BY <1>8, <3>3, <3>4
  <2>2. QED
    BY <2>1 DEF SameBelow
<1>15. SeenStep
  <2> DEFINE it == Item(frames[i + 1])
             Q2 == Saved(frames, i)
  <2>1. it \in Items /\ it.stk = p /\ Q2 \in Seq(Items) /\ SameBelow(heap, Q2, H2)
    BY <1>11, <1>13, <1>14
  <2>2. Interrupted = Append(Q2, it) /\ Interrupted' = Append(Q2, it)
    BY <1>7, <1>10, InterruptedIs
  <2> HIDE DEF it, Q2
  <2>3. n \in 0 .. Len(heap[it.stk].values)
    <3>1. heap[p].values \in Seq(Value)
      BY <1>1 DEF StackType
    <3>2. Len(heap[p].values) \in Nat
      BY <3>1
    <3>3. QED
      BY <1>3, <1>4, <2>1, <3>2
  <2>4. /\ H2[it.stk].values = SubSeq(heap[it.stk].values, 1, Len(heap[it.stk].values) - n)
        /\ H2[stack].values = heap[stack].values \o SubSeq(heap[it.stk].values,
                                Len(heap[it.stk].values) - n + 1, Len(heap[it.stk].values))
    BY <1>6, <2>1 DEF MovedTop, TopOf, RestOf
  <2>5. /\ H2[it.stk].previous = heap[it.stk].previous
        /\ H2[stack].previous = heap[stack].previous /\ heap[stack].previous # NoStack
    BY <1>1, <1>2, <1>3, <1>8, <2>1
  <2>6. Seen(heap, stack, Append(Q2, it), H2, stack, Append(Q2, it))
    BY <1>1, <2>1, <2>3, <2>4, <2>5, DotSeen
  <2>7. QED
    BY <1>7, <2>2, <2>6 DEF SeenStep, H2
<1>16. BInv'
  <2>1. PointersKept(heap, frames, Len(frames), H2)
    BY <1>8, <1>12 DEF PointersKept
  <2>2. Quiet(frames, Len(frames), frames, Len(frames))
    BY DEF Quiet
  <2>3. Barred(heap, stack, frames, Len(frames)) /\ H2[stack].previous = heap[stack].previous
    BY <1>1, <1>8 DEF BInv
  <2>4. Barred(H2, stack, frames, Len(frames))
    BY <1>1, <2>1, <2>2, <2>3, QuietBarred
  <2>5. QED
    BY <1>7, <2>4 DEF BInv, H2
<1>17. QED
  BY <1>15, <1>16 DEF Refines

\* map or filter has visited all of its stack, which nothing else refers to.
LEMMA VisitedRefines ==
  ASSUME IInv, IInv', BInv, Inner.kind \in {"map", "filter"},
         Stack_release(Inner.stk, heap), Leave("eval"), UNCHANGED stack
  PROVE  Refines
<1>1. PICK t \in Stack : t = Inner.stk /\ t # stack
  BY InnerStack DEF OwnerKinds
<1>2. /\ heap \in [Stack -> StackType] /\ stack \in Stack
      /\ FramesOK(frames, Len(frames)) /\ Owned(heap, stack, frames, Len(frames))
      /\ Len(frames) \in Nat \ {0}
  BY IInvParts
<1>3. \A u \in Stack \ {t} : heap'[u] = heap[u]
  BY <1>1, <1>2 DEF Stack_release
<1>4. ASSUME NEW j \in 1 .. Len(frames), GroupFrame(frames[j]) \/ frames[j].kind = "zip"
      PROVE  heap'[frames[j].stk] = heap[frames[j].stk]
  <2>1. FrameOK(frames[j])
    BY <1>2 DEF FramesOK
  <2>2. frames[j].stk # NoStack /\ frames[j].stk \in Stack
    BY <1>4, <2>1 DEF FrameOK, Frame, OwnerKinds, GroupFrame
  <2>3. frames[j].kind # Inner.kind
    BY <1>4 DEF GroupFrame, GroupKinds
  <2>4. j # Len(frames)
    BY <2>3 DEF Inner
  <2>5. Len(frames) \in 1 .. Len(frames)
    BY <1>2
  <2>6. frames[j].stk # t
    BY <1>1, <1>2, <2>2, <2>4, <2>5 DEF Owned, Inner
  <2>7. QED
    BY <1>3, <2>2, <2>6
<1>5. /\ GroupsKept(heap, frames, Len(frames), heap')
      /\ PointersKept(heap, frames, Len(frames), heap')
  BY <1>4 DEF GroupsKept, PointersKept
<1>6. Quiet(frames, Len(frames), frames', Len(frames'))
  <2>1. Popped(frames, Len(frames), frames', Len(frames'))
    BY LeaveFits DEF IInv
  <2>2. ~GroupFrame(frames[Len(frames)])
    BY DEF GroupFrame, GroupKinds, Inner
  <2>3. QED
    BY <2>1, <2>2 DEF Quiet
<1>7. heap'[stack'].previous = heap[stack].previous
  BY <1>1, <1>2, <1>3
<1>8. QED
  BY <1>5, <1>6, <1>7, QuietRefines

\* zip ends: its result becomes the top stack.  The stack below can be reached
\* again if a module has failed in the stack zip worked on.
LEMMA ZipOverRefines ==
  ASSUME IInv, IInv', BInv, ZipTurn, ~(Size > 0)
  PROVE  Refines
<1> DEFINE H2 == heap'
           F2 == frames'
           n2 == Len(frames')
<1>1. Inner.kind = "zip" /\ Inner.kind # "repl" /\ ~GroupFrame(Inner) /\ Leave("eval")
  BY DEF ZipTurn, GroupFrame, GroupKinds
<1>2. PICK t \in Stack : t = Inner.stk /\ t # stack
  BY <1>1, InnerStack DEF OwnerKinds
<1>3. /\ heap \in [Stack -> StackType] /\ heap' \in [Stack -> StackType]
      /\ stack \in Stack /\ Len(frames) \in Nat \ {0}
      /\ FramesOK(frames, Len(frames)) /\ Owned(heap, stack, frames, Len(frames))
      /\ Len(frames) \in 1 .. Len(frames) /\ frames[Len(frames)] = Inner
  BY IInvParts DEF Inner
<1>4. PICK rs \in Seq(Value) : rs = Reverse(heap[t].values)
  BY <1>1, <1>2, InnerStack, ReverseValues DEF OwnerKinds
<1>5. PICK h : h = [heap EXCEPT ![t].values = rs]
  OBVIOUS
<1>6. Stack_release(stack, h) /\ stack' = t
  BY <1>2, <1>4, <1>5 DEF ZipTurn
<1>7. h \in [Stack -> StackType]
  <2>1. heap[t] \in StackType
    BY <1>3
  <2>2. QED
    BY <1>3, <1>5, <2>1 DEF StackType
<1>8. \A u \in Stack \ {stack} : /\ heap'[u].previous = heap[u].previous
                                 /\ u # t => heap'[u] = heap[u]
  <2>1. \A u \in Stack \ {stack} : heap'[u] = h[u]
    BY <1>3, <1>6, <1>7, ReleasedElsewhere
  <2>2. \A u \in Stack : h[u].previous = heap[u].previous /\ (u # t => h[u] = heap[u])
    <3>1. ASSUME NEW u \in Stack
          PROVE  h[u].previous = heap[u].previous /\ (u # t => h[u] = heap[u])
      <4>1. heap[u] \in StackType
        BY <1>3
      <4>2. QED
        BY <1>3, <1>5, <4>1 DEF StackType
    <3>2. QED
      BY <3>1
  <2>3. QED
    BY <2>1, <2>2
<1>9. ASSUME NEW j \in 1 .. Len(frames), GroupFrame(frames[j]) \/ frames[j].kind = "zip"
      PROVE  /\ frames[j].stk \in Stack \ {stack}
             /\ GroupFrame(frames[j]) => frames[j].stk # t
  <2>1. FrameOK(frames[j])
    BY <1>3 DEF FramesOK
  <2>2. frames[j].stk # NoStack /\ frames[j].stk \in Stack
    BY <1>9, <2>1 DEF FrameOK, Frame, OwnerKinds, GroupFrame
  <2>3. GroupFrame(frames[j]) => j # Len(frames)
    BY <1>1, <1>3
  <2>4. QED
    BY <1>2, <1>3, <2>2, <2>3 DEF Owned
<1>10. GroupsKept(heap, frames, Len(frames), H2) /\ PointersKept(heap, frames, Len(frames), H2)
  BY <1>8, <1>9 DEF GroupsKept, PointersKept
<1>11. Popped(frames, Len(frames), frames', Len(frames'))
  BY <1>1, LeaveFits DEF IInv
<1>12. Quiet(frames, Len(frames), F2, n2)
  BY <1>1, <1>3, <1>11 DEF Quiet
<1>13. H2[t].previous = heap[t].previous
  BY <1>2, <1>8
<1>14. Barred(heap, stack, frames, Len(frames))
  BY DEF BInv
<1>15. heap[t].previous = NoStack => heap[stack].previous = NoStack
  <2>1. Ungrouped(frames, Len(frames), Len(frames))
    BY <1>3 DEF Ungrouped
  <2>2. QED
    BY <1>1, <1>2, <1>3, <1>14, <2>1 DEF Barred
<1>16. CASE heap[t].previous = NoStack <=> heap[stack].previous = NoStack
  BY <1>6, <1>10, <1>12, <1>13, <1>16, QuietRefines
<1>17. CASE heap[t].previous # NoStack
  <2> DEFINE n == Len(frames)
  <2>1. BInv'
    <3>1. n2 = n - 1 /\ HoldsSame(heap, frames, n - 1, H2, F2)
      BY <1>3, <1>10, <1>11 DEF HoldsSame, PointersKept, Popped
    <3>2. \A j \in 1 .. n - 1 : ~(/\ frames[j].kind = "zip" /\ Ungrouped(frames, j, n - 1)
                                 /\ heap[frames[j].stk].previous = NoStack)
      BY <1>1, <1>2, <1>3, <1>14, <1>17, BarredHere
    <3> HIDE DEF H2, F2, n2, n
    <3>3. Barred(H2, t, F2, n2)
      <4>1. n \in Nat \ {0} /\ n2 # n /\ Barred(heap, stack, frames, n)
        BY <1>3, <1>14, <3>1 DEF n
      <4>2. QED
        BY <3>1, <3>2, <4>1, BarredDropped
    <3>4. QED
      BY <1>6, <3>3 DEF BInv, H2, F2, n2
  <2>2. PICK i \in Nat : InnermostAt(frames, n, heap[t].previous, i)
    <3>1. PICK m \in Nat : m + 1 = n
      BY <1>3
    <3>2. Linked(heap[t].previous, frames, n - 1) /\ n - 1 = m
      BY <1>1, <1>2, <1>3, <3>1 DEF IInv, StackInv, Links
    <3>3. frames[m + 1].kind \notin GroupKinds
      BY <1>1, <1>3, <3>1 DEF GroupFrame
    <3>4. Linked(heap[t].previous, frames, n)
      BY <3>1, <3>2, <3>3, LinkedUp
    <3>5. QED
      BY <1>3, <1>17, <3>4, InnermostSaved
  <2> HIDE DEF n
  <2>3. PICK Q \in Seq(Items) : Q = Saved(frames, n)
    BY <1>3, SavedOK DEF n
  <2>4. Len(Q) > 0 /\ ~Q[Len(Q)].module
    <3>1. /\ Q = Append(Saved(frames, i), Item(frames[i + 1]))
          /\ frames[i + 1].kind # "module" /\ GroupFrame(frames[i + 1])
          /\ i + 1 \in 1 .. n
      BY <2>2, <2>3 DEF InnermostAt
    <3>2. ~Item(frames[i + 1]).module
      BY <3>1 DEF Item
    <3>3. Saved(frames, i) \in Seq(Items)
      <4>1. \A j \in 1 .. i : j \in 1 .. Len(frames)
        BY <1>3, <3>1 DEF n
      <4>2. \A j \in 1 .. i : GroupFrame(frames[j]) => frames[j].stk \in Stack
        BY <1>9, <4>1
      <4>3. QED
        BY <4>2, SavedFrom
    <3>4. Item(frames[i + 1]) \in Items
      BY <1>9, <3>1 DEF Item, Items, n
    <3>5. QED
      BY <3>1, <3>2, <3>3, <3>4, WithLast
  <2>5. SeenStep
    <3>1. /\ n \in Nat \ {0} /\ Quiet(frames, n, F2, n2) /\ FramesOK(frames, n)
          /\ GroupsKept(heap, frames, n, H2) /\ H2[t].previous # NoStack
          /\ H2 \in [Stack -> StackType]
      BY <1>3, <1>10, <1>12, <1>13, <1>17 DEF n
    <3> HIDE DEF H2, F2, n2
    <3>2. Saved(F2, n2) = Q
      BY <2>3, <3>1, QuietSaved
    <3>3. SameBelow(heap, Q, H2)
      BY <2>3, <3>1, SameBelowSaved
    <3>4. Seen(heap, stack, Q, H2, t, Q)
      BY <1>3, <2>4, <3>1, <3>3, ZipSeen
    <3>5. QED
      BY <1>6, <2>3, <3>2, <3>4, InterruptedIs DEF SeenStep, H2, F2, n2, n
  <2>6. QED
    BY <2>1, <2>5 DEF Refines
<1>18. QED
  BY <1>15, <1>16, <1>17
-----------------------------------------------------------------------------
(* The actions.  Each lemma is about one part of Next.                     *)

LEMMA NearOK ==
  Near({}) /\ Near({stack}) /\ (~GroupFrame(Inner) => Near({stack} \cup {Inner.stk}))
BY DEF Near

LEMMA EvalRefines ==
  ASSUME IInv, IInv', BInv, Eval
  PROVE  Refines
<1> USE DEF SetHeap
<1>1. ASSUME NEW v \in Value, NodePush(v) PROVE Refines
  <2>1. Worked(heap, heap', {stack})
    BY <1>1, PushesOK DEF NodePush
  <2>2. QED
    BY <1>1, <2>1, NearOK, StaysRefine DEF NodePush
<1>2. CASE NodePop
  <2>1. Worked(heap, heap', {stack})
    BY <1>2, DropsOK DEF NodePop
  <2>2. QED
    BY <1>2, <2>1, NearOK, StaysRefine DEF NodePop
<1>3. CASE NodeRaise \/ EndBody
  <2>1. Worked(heap, heap', {}) /\ UNCHANGED <<frames, stack>>
    BY <1>3, NoWorkOK DEF NodeRaise, EndBody
  <2>2. QED
    BY <2>1, NearOK, StaysRefine
<1>4. CASE NodeCall
  <2>1. Worked(heap, heap', {})
    BY <1>4, NoWorkOK DEF NodeCall
  <2>2. PICK f : f = Plain("node")
    OBVIOUS
  <2>3. FrameOK(f) /\ f.kind # "repl" /\ f.stk = NoStack
    BY <2>2, PlainOK
  <2>4. QED
    BY <1>4, <2>1, <2>2, <2>3, NearOK, CallsRefine DEF NodeCall
<1>5. ASSUME NEW n \in 0 .. 1, NodeOperand(n) PROVE Refines
  <2>1. Worked(heap, heap', {stack})
    BY <1>5, DropsOK DEF NodeOperand
  <2>2. PICK f : f = Plain("operand")
    OBVIOUS
  <2>3. FrameOK(f) /\ f.kind # "repl" /\ f.stk = NoStack
    BY <2>2, PlainOK
  <2>4. QED
    BY <1>5, <2>1, <2>2, <2>3, NearOK, CallsRefine DEF NodeOperand
<1>6. ASSUME NEW kind \in {"group", "arg"}, NodeNewStack(kind) PROVE Refines
  <2>1. stack \in Stack \cup {NoStack} /\ stack # NoStack
    BY Facts, StacksAssumption
  <2>2. PICK s \in Acquirable(HeldStacks) : Stack_acquire(s, stack, heap) /\ stack' = s
    BY <1>6 DEF NodeNewStack
  <2>3. PICK f : f = Saving(kind, stack)
    OBVIOUS
  <2>4. FrameOK(f) /\ f.kind = kind /\ f.stk = stack
    BY <2>3, Facts, SavingOK
  <2>5. f.kind \in GroupKinds /\ f.kind # "module" /\ Enter(f, "eval")
    BY <1>6, <2>3, <2>4 DEF GroupKinds, NodeNewStack
  <2>6. QED
    BY <2>1, <2>2, <2>4, <2>5, BeginsRefine
<1>7. CASE NodeObject
  <2>1. Worked(heap, heap', {})
    BY <1>7, NoWorkOK DEF NodeObject
  <2>2. NewContext \in Context /\ context \in Context
    BY <1>7, NewContextOK, Facts DEF NodeObject
  <2>3. PICK f : f = Scoped("object", context, NewContext)
    OBVIOUS
  <2>4. FrameOK(f) /\ f.kind # "repl" /\ f.stk = NoStack
    BY <2>2, <2>3, ScopedOK
  <2>5. QED
    BY <1>7, <2>1, <2>3, <2>4, NearOK, CallsRefine DEF NodeObject
<1>8. CASE NodeImport
  <2>1. stack \in Stack /\ context \in Context /\ NewContext \in Context
    BY <1>8, Facts, NewContextOK DEF NodeImport
  <2>2. PICK s \in Acquirable(HeldStacks) : Stack_acquire(s, NoStack, heap) /\ stack' = s
    BY <1>8 DEF NodeImport
  <2>3. PICK f : f = ModuleFrame(context, NewContext, stack)
    OBVIOUS
  <2>4. FrameOK(f) /\ f.stk = stack /\ f.kind = "module" /\ f.kind \in GroupKinds
    BY <2>1, <2>3, ModuleFrameOK DEF GroupKinds
  <2>5. Enter(f, "eval") /\ NoStack \in Stack \cup {NoStack}
    BY <1>8, <2>3 DEF NodeImport, ModuleFrame
  <2>6. QED
    BY <2>2, <2>4, <2>5, BeginsRefine
<1>9. ASSUME NEW n \in 0 .. MaxValues, NodeDots(n) PROVE Refines
  BY <1>9, DotsRefine
<1>10. QED
  BY <1>1, <1>2, <1>3, <1>4, <1>5, <1>6, <1>7, <1>8, <1>9 DEF Eval

LEMMA PlainRefines ==
  ASSUME IInv, IInv', BInv, NEW W, Near(W), Worked(heap, heap', W),
         NEW kind \in {"node", "operand", "loop", "catch"},
         NEW c, Enter(Plain(kind), c), UNCHANGED stack
  PROVE  Refines
<1>1. PICK f : f = Plain(kind)
  OBVIOUS
<1>2. FrameOK(f) /\ f.kind # "repl" /\ f.stk = NoStack
  BY <1>1, PlainOK
<1>3. QED
  BY <1>1, <1>2, CallsRefine

LEMMA DispatchRefines ==
  ASSUME IInv, IInv', BInv, Dispatch
  PROVE  Refines
<1> USE DEF SetHeap
<1>1. ASSUME NEW n \in 0 .. 1, DispatchRaise(n) PROVE Refines
  <2>1. Worked(heap, heap', {stack})
    BY <1>1, DropsOK DEF DispatchRaise
  <2>2. QED
    BY <1>1, <2>1, NearOK, StaysRefine DEF DispatchRaise
<1>2. ASSUME NEW n \in 0 .. 1, StartLoop(n) PROVE Refines
  <2>1. Worked(heap, heap', {stack})
    BY <1>2, DropsOK DEF StartLoop
  <2>2. QED
    BY <1>2, <2>1, NearOK, PlainRefines DEF StartLoop
<1>3. ASSUME NEW n \in 0 .. 1, NEW out \in Outputs, Finish(n, out)
      PROVE  Refines
  <2>0. n \in Nat /\ out \in Seq(Value)
    BY OutputValues
  <2>1. Worked(heap, heap', {stack})
    BY <1>3, <2>0, KeptWorks DEF Finish
  <2>2. QED
    BY <1>3, <2>1, NearOK, StaysRefine DEF Finish
<1>4. ASSUME NEW n \in 0 .. 1, NEW kind \in {"node", "operand"}, NEW out \in Outputs,
             DispatchCall(kind, n, out)
      PROVE  Refines
  <2>0. n \in Nat /\ out \in Seq(Value)
    BY OutputValues
  <2>1. Worked(heap, heap', {stack})
    BY <1>4, <2>0, KeptWorks DEF DispatchCall
  <2>2. QED
    BY <1>4, <2>1, NearOK, PlainRefines DEF DispatchCall
<1>5. ASSUME NEW kind \in {"map", "filter"}, StartEach(kind) PROVE Refines
  BY <1>5, StartEachRefines
<1>6. CASE StartZip
  BY <1>6, StartZipRefines
<1>7. CASE StartCatch
  <2>1. Worked(heap, heap', {stack})
    BY <1>7, DropsOK DEF StartCatch
  <2>2. QED
    BY <1>7, <2>1, NearOK, PlainRefines DEF StartCatch
<1>8. QED
  BY <1>1, <1>2, <1>3, <1>4, <1>5, <1>6, <1>7 DEF Dispatch

LEMMA CallRefines ==
  ASSUME IInv, IInv', BInv, Call
  PROVE  Refines
<1> USE DEF SetHeap
<1>1. CASE CallClosure
  <2>1. Worked(heap, heap', {})
    BY <1>1, NoWorkOK DEF CallClosure
  <2>2. NewContext \in Context /\ context \in Context
    BY <1>1, NewContextOK, Facts DEF CallClosure
  <2>3. PICK f : f = Scoped("call", context, NewContext)
    OBVIOUS
  <2>4. FrameOK(f) /\ f.kind # "repl" /\ f.stk = NoStack
    BY <2>2, <2>3, ScopedOK
  <2>5. QED
    BY <1>1, <2>1, <2>3, <2>4, NearOK, CallsRefine DEF CallClosure
<1>2. ASSUME NEW c \in HeldContexts, CallEvalin(c) PROVE Refines
  <2>1. Worked(heap, heap', {stack})
    BY <1>2, DropsOK DEF CallEvalin
  <2>2. c \in Context /\ context \in Context
    BY HeldContextsOK, Facts
  <2>3. PICK f : f = Scoped("call", context, c)
    OBVIOUS
  <2>4. FrameOK(f) /\ f.kind # "repl" /\ f.stk = NoStack
    BY <2>2, <2>3, ScopedOK
  <2>5. QED
    BY <1>2, <2>1, <2>3, <2>4, NearOK, CallsRefine DEF CallEvalin
<1>3. ASSUME NEW c \in HeldContexts, CallLock(c) PROVE Refines
  <2>1. Worked(heap, heap', {stack})
    BY <1>3, DropsOK DEF CallLock
  <2>2. QED
    BY <1>3, <2>1, NearOK, StaysRefine DEF CallLock
<1>4. ASSUME NEW v \in Value, CallValue(v) PROVE Refines
  <2>1. Worked(heap, heap', {stack})
    BY <1>4, PushesOK DEF CallValue
  <2>2. QED
    BY <1>4, <2>1, NearOK, StaysRefine DEF CallValue
<1>5. ASSUME NEW v \in Value, CallList(v) PROVE Refines
  <2>1. Worked(heap, heap', {stack})
    BY <1>5, ListWorks DEF CallList
  <2>2. QED
    BY <1>5, <2>1, NearOK, StaysRefine DEF CallList
<1>6. ASSUME NEW n \in 0 .. 2, CallNativeFails(n) PROVE Refines
  <2>1. Worked(heap, heap', {stack})
    BY <1>6, DropsOK DEF CallNativeFails
  <2>2. QED
    BY <1>6, <2>1, NearOK, StaysRefine DEF CallNativeFails
<1>7. ASSUME NEW n \in 0 .. 2, NEW out \in Outputs, CallNative(n, out)
      PROVE  Refines
  <2>0. n \in Nat /\ out \in Seq(Value)
    BY OutputValues
  <2>1. Worked(heap, heap', {stack})
    BY <1>7, <2>0, KeptWorks DEF CallNative
  <2>2. QED
    BY <1>7, <2>1, NearOK, StaysRefine DEF CallNative
<1>8. QED
  BY <1>1, <1>2, <1>3, <1>4, <1>5, <1>6, <1>7 DEF Call

\* A frame that holds no stack a group has interrupted is left.
LEMMA LeavesRefine ==
  ASSUME IInv, IInv', BInv, Inner.kind \notin {"repl", "group", "arg", "precall", "module"},
         NEW c, Leave(c), UNCHANGED <<heap, stack>>
  PROVE  Refines
<1>1. Worked(heap, heap', {})
  BY NoWorkOK
<1>2. Inner.kind # "repl" /\ Inner.kind \notin GroupKinds
  BY DEF GroupKinds
<1>3. QED
  BY <1>1, <1>2, NearOK, ReturnsRefine

LEMMA WritesRefine ==
  ASSUME IInv, IInv', BInv, Inner.kind \notin {"repl", "group", "arg", "precall", "module"},
         Worked(heap, heap', {stack}), NEW c, Leave(c), UNCHANGED stack
  PROVE  Refines
<1>1. Inner.kind # "repl" /\ Inner.kind \notin GroupKinds
  BY DEF GroupKinds
<1>2. QED
  BY <1>1, NearOK, ReturnsRefine

\* map or filter calls its closure with the next value.
LEMMA NextRefines ==
  ASSUME IInv, IInv', BInv, Inner.kind \in {"map", "filter"},
         Inner.i < Len(heap[Inner.stk].values),
         heap' = Stack_push(heap, stack, heap[Inner.stk].values[Inner.i + 1]),
         Replace([Inner EXCEPT !.i = @ + 1], "call"), UNCHANGED stack
  PROVE  Refines
<1>1. PICK v \in Value : v = heap[Inner.stk].values[Inner.i + 1]
  BY NextValue
<1>2. Worked(heap, heap', {stack})
  BY <1>1, PushesOK
<1>3. PICK f : f = Onward
  OBVIOUS
<1>4. FrameOK(f) /\ f.kind = Inner.kind /\ f.stk = Inner.stk
  BY <1>3, OnwardOK
<1>5. Replace(f, "call")
  BY <1>3 DEF Onward
<1>6. QED
  BY <1>2, <1>4, <1>5, NearOK, TurnsRefine

LEMMA ArgRefines ==
  ASSUME IInv, IInv', BInv, ArgReturns
  PROVE  Refines
<1>1. Inner.kind = "arg" /\ UNCHANGED <<heap, stack>>
  BY DEF ArgReturns, Returned
<1>2. PICK f : f = [Inner EXCEPT !.kind = "precall"]
  OBVIOUS
<1>3. Inner \in Frame /\ FrameOK(Inner)
  BY Facts DEF FrameOK
<1>4. f \in Frame /\ f.kind = "precall" /\ f.stk = Inner.stk
  BY <1>2, <1>3 DEF Frame, Kind
<1>5. FrameOK(f) /\ f.kind \in GroupKinds /\ Inner.kind \in GroupKinds
  BY <1>1, <1>3, <1>4 DEF FrameOK, OwnerKinds, GroupKinds
<1>6. Replace(f, "call")
  BY <1>2 DEF ArgReturns
<1>7. Worked(heap, heap', {})
  BY <1>1, NoWorkOK
<1>8. QED
  BY <1>1, <1>4, <1>5, <1>6, <1>7, NearOK, TurnsRefine

\* The closure of zip has delivered a value, which goes to the result.
LEMMA ZipTakesRefines ==
  ASSUME IInv, IInv', BInv, ZipReturns, Size > 0
  PROVE  Refines
<1>1. /\ Inner.kind = "zip" /\ stack \in Stack /\ heap[stack].values \in Seq(Value)
      /\ Size \in Nat /\ UNCHANGED <<frames, stack>>
  BY Facts DEF ZipReturns, Returned
<1>2. PICK t \in Stack : t = Inner.stk /\ heap[t].status = "used"
  BY <1>1, InnerStack DEF OwnerKinds
<1>3. Worked(heap, Drop(heap, stack, 1), {stack})
  BY DropsOK
<1>4. PICK v \in Value : v = Top(heap, stack, 1)[1]
  <2>1. PICK vs \in Seq(Value) : vs = heap[stack].values
    BY <1>1
  <2>2. Len(vs) \in Nat /\ Len(vs) \in 1 .. Len(vs)
    BY <2>1 DEF Size
  <2>3. vs[Len(vs)] \in Value
    BY <2>2, ElementOfSeq
  <2>4. Top(heap, stack, 1) = SubSeq(vs, Len(vs), Len(vs))
    BY <2>1, <2>2 DEF Top
  <2>5. SubSeq(vs, Len(vs), Len(vs))[1] = vs[Len(vs)]
    BY <2>2
  <2>6. QED
    BY <2>3, <2>4, <2>5
<1> DEFINE G == Drop(heap, stack, 1)
<1>5. G \in [Stack -> StackType] /\ G[t].status = "used"
  BY <1>2, <1>3 DEF Worked
<1>6. heap' = Stack_push(G, t, v)
  BY <1>2, <1>4 DEF ZipReturns, SetHeap
<1> HIDE DEF G
<1>7. Worked(G, heap', {t})
  BY <1>5, <1>6, PushWorks
<1>8. Worked(heap, heap', {stack} \cup {t})
  BY <1>3, <1>7, WorkTwice DEF G
<1>9. Near({stack} \cup {t})
  BY <1>1, <1>2, NearOK DEF GroupFrame, GroupKinds
<1>10. QED
  BY <1>1, <1>8, <1>9, StaysRefine

LEMMA FilterAsksRefines ==
  ASSUME IInv, IInv', BInv, FilterReturns, Size > 0
  PROVE  Refines
<1>1. /\ Inner.kind = "filter" /\ control = "ok" /\ Len(frames) \in Nat \ {0}
      /\ UNCHANGED <<frames, stack>>
  BY Facts DEF FilterReturns, Returned, Running
<1>2. PICK vs \in Seq(Value) : vs = heap[Inner.stk].values
  BY <1>1, InnerStack DEF OwnerKinds
<1>3. Inner.i \in Nat /\ Inner.i <= Len(vs) /\ Inner.i # 0 /\ Len(vs) \in Nat
  <2>1. frames[Len(frames)].i <= Len(heap[frames[Len(frames)].stk].values)
        /\ frames[Len(frames)].i # 0
    BY <1>1 DEF IInv, Counted, Inner
  <2>2. QED
    BY <1>2, <2>1, OnwardOK DEF Inner
<1>4. PICK v \in Value : v = heap[Inner.stk].values[Inner.i]
  <2>1. vs[Inner.i] \in Value
    BY <1>3, ElementOfSeq
  <2>2. QED
    BY <1>2, <2>1
<1>5. PICK out \in {<<>>, <<v>>} : SetHeap(Write(heap, stack, Kept(1) \o out))
  BY <1>4 DEF FilterReturns
<1>6. out \in Seq(Value)
  <2>1. <<>> \in Seq(Value) /\ <<v>> \in Seq(Value)
    BY EmptySeq
  <2>2. QED
    BY <2>1
<1>7. Worked(heap, heap', {stack})
  BY <1>5, <1>6, KeptWorks DEF SetHeap
<1>8. QED
  BY <1>1, <1>7, NearOK, StaysRefine

LEMMA ReturnRefines ==
  ASSUME IInv, IInv', BInv, Return
  PROVE  Refines
<1>1. CASE NodeReturns
  BY <1>1, LeavesRefine DEF NodeReturns, Returned
<1>2. CASE OperandReturns
  <2>1. Inner.kind = "operand" /\ UNCHANGED stack
    BY <1>2 DEF OperandReturns, Returned
  <2>2. CASE Size > 0
    <3>1. Worked(heap, heap', {stack}) /\ Leave("dispatch")
      BY <1>2, <2>2, DropsOK DEF OperandReturns, SetHeap
    <3>2. QED
      BY <2>1, <3>1, WritesRefine
  <2>3. CASE ~(Size > 0)
    BY <1>2, <2>1, <2>3, LeavesRefine DEF OperandReturns
  <2>4. QED
    BY <2>2, <2>3
<1>3. CASE GroupReturns
  BY <1>3, GroupOverRefines DEF GroupReturns, Returned, GroupFrame, GroupKinds
<1>4. CASE ArgReturns
  BY <1>4, ArgRefines
<1>5. CASE PrecallReturns
  BY <1>5, GroupOverRefines DEF PrecallReturns, GroupFrame, GroupKinds
<1>6. CASE CallReturns
  BY <1>6, LeavesRefine DEF CallReturns
<1>7. CASE ModuleReturns
  BY <1>7, ModuleRefines
<1>8. CASE CatchReturns
  BY <1>8, LeavesRefine DEF CatchReturns, Returned
<1>9. CASE MapTurn
  <2>1. Inner.kind \in {"map", "filter"} /\ UNCHANGED stack
    BY <1>9 DEF MapTurn
  <2>2. CASE Inner.i < Len(heap[Inner.stk].values)
    BY <1>9, <2>1, <2>2, NextRefines DEF MapTurn, SetHeap
  <2>3. CASE ~(Inner.i < Len(heap[Inner.stk].values))
    BY <1>9, <2>1, <2>3, VisitedRefines DEF MapTurn
  <2>4. QED
    BY <2>2, <2>3
<1>10. CASE FilterTurn
  <2>1. Inner.kind \in {"map", "filter"} /\ UNCHANGED stack
    BY <1>10 DEF FilterTurn
  <2>2. CASE Inner.i < Len(heap[Inner.stk].values)
    BY <1>10, <2>1, <2>2, NextRefines DEF FilterTurn, SetHeap
  <2>3. CASE ~(Inner.i < Len(heap[Inner.stk].values))
    BY <1>10, <2>1, <2>3, VisitedRefines DEF FilterTurn
  <2>4. QED
    BY <2>2, <2>3
<1>11. CASE FilterReturns
  <2>1. CASE Size > 0
    BY <1>11, <2>1, FilterAsksRefines
  <2>2. CASE ~(Size > 0)
    BY <1>11, <2>2, LeavesRefine DEF FilterReturns, Returned
  <2>3. QED
    BY <2>1, <2>2
<1>12. CASE ZipTurn
  <2>1. CASE Size > 0
    <3>1. Worked(heap, heap', {}) /\ UNCHANGED <<frames, stack>>
      BY <1>12, <2>1, NoWorkOK DEF ZipTurn
    <3>2. QED
      BY <3>1, NearOK, StaysRefine
  <2>2. CASE ~(Size > 0)
    BY <1>12, <2>2, ZipOverRefines
  <2>3. QED
    BY <2>1, <2>2
<1>13. CASE ZipReturns
  <2>1. CASE Size > 0
    BY <1>13, <2>1, ZipTakesRefines
  <2>2. CASE ~(Size > 0)
    BY <1>13, <2>2, LeavesRefine DEF ZipReturns, Returned
  <2>3. QED
    BY <2>1, <2>2
<1>14. CASE LoopTurn
  <2>1. Inner.kind = "loop" /\ UNCHANGED stack
    BY <1>14 DEF LoopTurn
  <2>2. PICK n \in {0, 1} : SetHeap(Drop(heap, stack, n))
    BY <1>14 DEF LoopTurn
  <2>3. Worked(heap, heap', {stack})
    BY <2>2, DropsOK DEF SetHeap
  <2>4. CASE UNCHANGED frames
    BY <2>1, <2>3, <2>4, NearOK, StaysRefine
  <2>5. CASE Leave("eval")
    BY <2>1, <2>3, <2>5, WritesRefine
  <2>6. CASE Leave("fail")
    BY <2>1, <2>3, <2>6, WritesRefine
  <2>7. QED
    BY <1>14, <2>4, <2>5, <2>6 DEF LoopTurn
<1>15. ASSUME NEW v \in Value, ObjectReturns(v) PROVE Refines
  <2>1. Inner.kind = "object" /\ UNCHANGED stack
    BY <1>15 DEF ObjectReturns
  <2>2. CASE context \in locked
    BY <1>15, <2>1, <2>2, LeavesRefine DEF ObjectReturns
  <2>3. CASE context \notin locked
    <3>1. Worked(heap, heap', {stack})
      BY <1>15, <2>3, PushesOK DEF ObjectReturns, SetHeap
    <3>2. PICK c : Leave(c)
      BY <1>15, <2>3 DEF ObjectReturns
    <3>3. QED
      BY <2>1, <3>1, <3>2, WritesRefine
  <2>4. QED
    BY <2>2, <2>3
<1>16. QED
  BY <1>1, <1>2, <1>3, <1>4, <1>5, <1>6, <1>7, <1>8, <1>9, <1>10, <1>11, <1>12,
     <1>13, <1>14, <1>15 DEF Return

LEMMA FailRefines ==
  ASSUME IInv, IInv', BInv, Fail
  PROVE  Refines
<1>1. CASE Unwind
  <2>1. CASE Inner.kind = "module"
    BY <1>1, <2>1, ImporterRefines DEF Unwind
  <2>2. CASE Inner.kind # "module"
    BY <1>1, <2>2, LeavesRefine DEF Unwind
  <2>3. QED
    BY <2>1, <2>2
<1>2. CASE GroupFails
  BY <1>2, GroupOverRefines DEF GroupFails, GroupFrame, GroupKinds
<1>3. CASE ArgFails
  BY <1>3, GroupOverRefines DEF ArgFails, SetHeap, GroupFrame, GroupKinds
<1>4. ASSUME NEW v \in Value, Catch(v) PROVE Refines
  <2>1. Worked(heap, heap', {stack})
    BY <1>4, PushesOK DEF Catch, SetHeap
  <2>2. PICK f : f = Plain("node")
    OBVIOUS
  <2>3. FrameOK(f) /\ f.kind = "node" /\ f.stk = NoStack /\ f.kind \notin GroupKinds
    BY <2>2, PlainOK
  <2>4. Inner.kind = "catch" /\ Inner.kind \notin GroupKinds /\ Inner.kind \notin OwnerKinds
    BY <1>4 DEF Catch, GroupKinds, OwnerKinds
  <2>5. f.stk = Inner.stk
    BY <2>3, <2>4, Facts DEF FrameOK
  <2>6. Replace(f, "call") /\ UNCHANGED stack
    BY <1>4, <2>2 DEF Catch
  <2>7. QED
    BY <2>1, <2>3, <2>4, <2>5, <2>6, NearOK, TurnsRefine
<1>5. QED
  BY <1>1, <1>2, <1>3, <1>4 DEF Fail

LEMMA NextLineRefines ==
  ASSUME IInv, IInv', BInv, NextLine
  PROVE  Refines
<1>1. Inner.kind = "repl" /\ UNCHANGED stack /\ context \in Context
  BY Facts DEF NextLine
<1>2. Worked(heap, heap', {stack})
  <2>1. heap \in [Stack -> StackType] /\ stack \in Stack /\ heap[stack].status = "used"
    BY Facts
  <2>2. <<>> \in Seq(Value)
    BY EmptySeq
  <2>3. heap' = [heap EXCEPT ![stack].values = <<>>]
    BY DEF NextLine, SetHeap
  <2>4. QED
    BY <2>1, <2>2, <2>3 DEF Worked, StackType
<1>3. PICK f : f = [Inner EXCEPT !.own = context]
  OBVIOUS
<1>4. Inner \in Frame /\ FrameOK(Inner)
  BY Facts DEF FrameOK
<1>5. f \in Frame /\ f.kind = "repl" /\ f.stk = Inner.stk /\ f.own = context
  BY <1>1, <1>3, <1>4 DEF Frame
<1>6. FrameOK(f)
  BY <1>1, <1>4, <1>5 DEF FrameOK
<1>7. Replace(f, "eval")
  BY <1>3 DEF NextLine
<1>8. /\ (f.kind = "repl" <=> Inner.kind = "repl")
      /\ (f.kind \in GroupKinds <=> Inner.kind \in GroupKinds)
      /\ (f.kind = "module" <=> Inner.kind = "module")
      /\ (f.kind = "zip" <=> Inner.kind = "zip")
  BY <1>1, <1>5
<1>9. QED
  BY <1>1, <1>2, <1>5, <1>6, <1>7, <1>8, NearOK, TurnsRefine

LEMMA StutterRefines ==
  ASSUME IInv, IInv', BInv, UNCHANGED vars
  PROVE  Refines
<1>1. Worked(heap, heap', {}) /\ UNCHANGED <<frames, stack>>
  BY NoWorkOK DEF vars
<1>2. QED
  BY <1>1, NearOK, StaysRefine

LEMMA StepRefines ==
  ASSUME IInv, BInv, [Next]_vars
  PROVE  BInv' /\ Meta!Next
<1>1. IInv'
  BY StepKeeps
<1>2. Refines
  BY <1>1, EvalRefines, DispatchRefines, CallRefines, ReturnRefines, FailRefines,
     NextLineRefines, StutterRefines DEF Next
<1>3. Meta!Next
  BY <1>2, SeenIsStep DEF Refines, SeenStep
<1>4. QED
  BY <1>2, <1>3 DEF Refines

LEMMA InitRefines ==
  ASSUME Init
  PROVE  BInv /\ Meta!Init
<1>1. /\ Len(frames) = 1 /\ frames[1].kind = "repl"
      /\ stack \in Stack
      /\ heap[stack].values = <<>> /\ heap[stack].previous = NoStack
  BY StacksAssumption DEF Init, Plain, NewStack
<1>2. ~GroupFrame(frames[1]) /\ frames[1].kind # "zip"
  BY <1>1 DEF GroupFrame, GroupKinds
<1>3. BInv
  BY <1>1, <1>2 DEF BInv, Barred
<1>4. Interrupted = <<>>
  <2>1. Saved(frames, 0) = <<>> /\ Saved(frames, 0 + 1) = Saved(frames, 0)
    BY <1>2, SavedNext
  <2>2. QED
    BY <1>1, <2>1 DEF Interrupted
<1>5. Levels = 1 /\ Level(1) = stack
  BY <1>4 DEF Levels, Level
<1>6. \A k \in 1 .. Levels : k = 1
  BY <1>5
<1>7. /\ Metastack = [k \in 1 .. 1 |-> <<>>]
      /\ Rooted = [k \in 1 .. 1 |-> TRUE]
      /\ Walled = [k \in 1 .. 1 |-> TRUE]
  BY <1>1, <1>5, <1>6 DEF Metastack, Rooted, Walled
<1>8. ASSUME NEW A, NEW x \in A
      PROVE  [k \in 1 .. 1 |-> x] = <<x>>
  <2>1. PICK s : s = [k \in 1 .. 1 |-> x]
    OBVIOUS
  <2>2. PICK t : t = <<x>>
    OBVIOUS
  <2>3. s \in Seq(A) /\ Len(s) = 1 /\ s[1] = x
    BY <2>1
  <2>4. t \in Seq(A) /\ Len(t) = 1 /\ t[1] = x
    BY <2>2
  <2>5. s = t
    BY <2>3, <2>4, SameSequence
  <2>6. QED
    BY <2>1, <2>2, <2>5
<1>9. Metastack = << <<>> >> /\ Rooted = <<TRUE>> /\ Walled = <<TRUE>>
  <2>1. <<>> \in {<<>>} /\ TRUE \in BOOLEAN
    OBVIOUS
  <2>2. QED
    BY <1>7, <1>8, <2>1
<1>10. QED
  BY <1>3, <1>9 DEF Meta!Init

\* The evaluator implements the stack of stacks that web/main.kiwi (Groups,
\* Dot) documents, at any depth of the C stack: every step changes the top
\* stack, begins or ends one, or is a `.` that takes from the stack below, and
\* no value on the way is lost, duplicated or reordered.
THEOREM EvaluatorImplementsStackOfStacks == Spec => ImplementsStackOfStacks
<1>1. Init => IInv /\ BInv /\ Meta!Init
  BY InitIInv, InitRefines
<1>2. IInv /\ BInv /\ [Next]_vars => IInv' /\ BInv' /\ [Meta!Next]_Meta!vars
  BY StepKeeps, StepRefines
<1>3. QED
  BY <1>1, <1>2, PTL DEF Spec, ImplementsStackOfStacks, Meta!Spec
=============================================================================

------------------------------- MODULE Sorting -------------------------------
(***************************************************************************)
(* builtin_sort (src/src/builtin.c) and what it hangs together with in     *)
(* src/src/vm.c: valueCompare, which calls the `_cmp` closure of an object,*)
(* and exceptions with their traces, which is how such a call fails.       *)
(*                                                                         *)
(* sort gives the indices of the values on vm->stack to qsort, which knows *)
(* the values only through compare_values; this one reads the stack again  *)
(* at every question, through the global sort_vm, which it clears when a   *)
(* comparison fails.  While a `_cmp` runs the program may do anything:     *)
(* take the values sort was called for, sort other ones, raise and catch.  *)
(* That it may also leave another stack current (by a failed import, see   *)
(* Evaluator) is the same here as taking every value.                      *)
(*                                                                         *)
(* A C function that waits for another one is a frame: the prompt, a call  *)
(* at a place of the program, a catch, a sort, a comparison.               *)
(***************************************************************************)
EXTENDS Integers, FiniteSets, SequencesExt

CONSTANTS
  Numbers,   \* the numbers
  Objects,   \* the contexts, as numbers
  Answers,   \* the numbers that programs push, and `_cmp` answers
  Places,    \* nodes of the program that call something
  Quiet,     \* those that leave no entry in a trace that has one: `catch {..}`,
             \* a special function applied to a closure
  MaxSize,   \* bound on the values a program has on the stack
  MaxLoad,   \* bound on these together with the depth of the C stack
  MaxCalls,  \* bound on the calls of closures it is in
  MaxRaised  \* bound on the exceptions it raises

ASSUME SortingAssumption ==
  /\ Numbers \subseteq Int /\ Objects \subseteq Int
  /\ Answers \subseteq Numbers
  /\ Places \cap Quiet = {}
  /\ {MaxSize, MaxLoad, MaxCalls, MaxRaised} \subseteq Nat

VARIABLES
  stack,     \* the values on vm->stack
  frames,    \* the C stack, outermost first
  control,   \* what the innermost C function does
  sort_vm,   \* whether the global is set
  ex,        \* the exception in the VM: its trace, and exSourceHasTrace
  raised,    \* history: how many exceptions there were, and where the last one
             \* was raised with the calls out to the catch
  stray      \* history: a sort has failed although each of its comparisons
             \* succeeded

svars == <<stack, frames, control, sort_vm, ex, raised, stray>>

\* "run"  the program evaluates its next node;  "ask"  qsort wants an answer or
\* is done;  "fail"  a function returns false
Control == {"run", "ask", "fail"}

Number(n) == [t |-> "number", v |-> n]
Object(o) == [t |-> "context", v |-> o]
StackValues == {Number(n) : n \in Numbers} \cup {Object(o) : o \in Objects}

Prompt == [kind |-> "prompt"]
CallAt(p) == [kind |-> "call", place |-> p]
CatchAt(p) == [kind |-> "catch", place |-> p]
\* le: the pairs of indices qsort knows the order of.  Two history fields: the
\* values at the first question, and whether later ones saw the same; and
\* whether a comparison failed.
SortAt(p) == [kind |-> "sort", place |-> p, size |-> Len(stack), le |-> {},
              initial |-> stack, same |-> TRUE, failed |-> FALSE]
\* valueCompare of the values at a and b, when the stack had oldStk values
Comparing(a, b, oldStk) == [kind |-> "cmp", a |-> a, b |-> b, oldStk |-> oldStk]

Inner == frames[Len(frames)]
Below == Front(frames)
Room == Len(frames) + Len(stack) < MaxLoad

\* A line of the prompt starts with the values it was given.
SortingInit ==
  /\ stack \in BoundedSeq(StackValues, MaxSize)
  /\ frames = <<Prompt>>
  /\ control = "run"
  /\ sort_vm = FALSE
  /\ ex = [trace |-> <<>>, sourceHasTrace |-> FALSE]
  /\ raised = [count |-> 0, calls |-> <<>>]
  /\ stray = FALSE
-----------------------------------------------------------------------------
(* Exceptions                                                              *)

\* What evalCall adds to a trace that has an entry, on its way out of frame f:
\* the native function's own entry, and the node f was called from unless that
\* is a quiet one.  A comparison has no node.
Entries(f) ==
  (IF f.kind = "sort" THEN <<"sort">> ELSE <<>>)
    \o (IF f.kind \in {"call", "catch", "sort"} /\ f.place \notin Quiet
        THEN <<f.place>> ELSE <<>>)

\* The calls from the innermost frame out to the nearest catch that leave an
\* entry.
CallsToCatch(fs) ==
  LET calls[j \in 0 .. Len(fs)] ==
        IF j = 0 THEN <<>>
        ELSE Entries(fs[j])
               \o (IF fs[j].kind \in {"catch", "prompt"} THEN <<>> ELSE calls[j - 1])
  IN calls[Len(fs)]

\* traceNative appends to the trace, and so does traceNode, except for a quiet
\* node, which only starts one.
traceNative(trace, name) == Append(trace, name)
traceNode(trace, p) ==
  IF trace # <<>> /\ p \in Quiet THEN trace ELSE Append(trace, p)

\* Adds to the trace of the last exception when there is one.
RaiseKeepsTrace(trace) ==
  /\ raised.count < MaxRaised
  /\ raised' = [count |-> raised.count + 1, calls |-> trace \o CallsToCatch(frames)]
  /\ ex' = [trace |-> ex.trace \o trace, sourceHasTrace |-> trace # <<>>]
  /\ stray' = FALSE

\* raiseUnbound ... raiseInternal and throw replace the exception.  trace: the
\* node that raises; or the native function that does and the node that called
\* it, which evalCall adds at once; or nothing, for a comparison.
Raise(trace) ==
  /\ raised.count < MaxRaised
  /\ raised' = [count |-> raised.count + 1, calls |-> trace \o CallsToCatch(frames)]
  /\ ex' = [trace |-> trace, sourceHasTrace |-> trace # <<>>]
  /\ stray' = FALSE

\* How evalCall returns the failure of what it called for frame f.
Unwound(f) ==
  [ex EXCEPT !.trace = traceNode(IF f.kind = "sort" THEN traceNative(@, "sort") ELSE @,
                                 f.place),
             !.sourceHasTrace = @ \/ (f.kind = "sort" /\ ex.trace = <<>>)]
-----------------------------------------------------------------------------
(* The program                                                             *)

Running == control = "run"

Push(v) ==
  /\ Running
  /\ Room /\ Len(stack) < MaxSize
  /\ stack' = Append(stack, v)
  /\ UNCHANGED <<frames, control, sort_vm, ex, raised, stray>>

Pop ==
  /\ Running
  /\ stack # <<>>
  /\ stack' = Front(stack)
  /\ UNCHANGED <<frames, control, sort_vm, ex, raised, stray>>

\* A node at p raises.
RaiseAt(p) ==
  /\ Running
  /\ Raise(<<p>>)
  /\ control' = "fail"
  /\ UNCHANGED <<stack, frames, sort_vm>>

\* builtin_throw, or another native function called at p that raises.
ThrowAt(p) ==
  /\ Running
  /\ Raise(traceNode(traceNative(<<>>, "throw"), p))
  /\ control' = "fail"
  /\ UNCHANGED <<stack, frames, sort_vm>>

\* A closure is called, or a catch evaluates its body.
Enter(f) ==
  /\ Running
  /\ Room
  /\ f.kind = "call" =>
       Cardinality({j \in DOMAIN frames : frames[j].kind = "call"}) < MaxCalls
  /\ frames' = Append(frames, f)
  /\ UNCHANGED <<stack, control, sort_vm, ex, raised, stray>>

\* builtin_sort, up to qsort
StartSort(p) ==
  /\ Running
  /\ Room
  /\ frames' = Append(frames, SortAt(p))
  /\ control' = "ask"
  /\ sort_vm' = TRUE
  /\ UNCHANGED <<stack, ex, raised, stray>>

\* The end of a closure's body, or of a catch's.
Return ==
  /\ Running
  /\ Inner.kind \in {"call", "catch"}
  /\ frames' = Below
  /\ UNCHANGED <<stack, control, sort_vm, ex, raised, stray>>
-----------------------------------------------------------------------------
(* Comparisons                                                             *)

compareNums(a, b) == IF a < b THEN -1 ELSE IF a > b THEN 1 ELSE 0

\* Values of different types are in the order of the types.
compareTypes(s, t) == IF s = t THEN 0 ELSE IF s = "number" THEN -1 ELSE 1

\* The sort frame f once qsort has the result of comparing index a with b.
Answered(f, a, b, result) ==
  [f EXCEPT !.le = @ \cup (IF result <= 0 THEN {<<a, b>>} ELSE {})
                     \cup (IF result >= 0 THEN {<<b, a>>} ELSE {})]

\* qsort asks about two indices and compare_values reads the stack.
Question(a, b) ==
  /\ control = "ask"
  /\ sort_vm
  /\ a # b
  /\ Inner.le \cap {<<a, b>>, <<b, a>>} = {}

Seen == IF stack = Inner.initial THEN Inner
        ELSE [Inner EXCEPT !.same = FALSE, !.initial = <<>>]
Objects2(a, b) == stack[a].t = "context" /\ stack[b].t = "context"

ComparePlain(a, b) ==
  /\ Question(a, b)
  /\ ~Objects2(a, b)
  /\ LET lhs == stack[a]
         rhs == stack[b]
         result == IF lhs.t = rhs.t THEN compareNums(lhs.v, rhs.v)
                   ELSE compareTypes(lhs.t, rhs.t)
     IN frames' = Append(Below, Answered(Seen, a, b, result))
  /\ UNCHANGED <<stack, control, sort_vm, ex, raised, stray>>

\* The `_cmp` of the left object is called with the right one on the stack.
CompareObjects(a, b) ==
  /\ Question(a, b)
  /\ Objects2(a, b)
  /\ Len(frames) + Len(stack) < MaxLoad - 1
  /\ frames' = Append(Append(Below, Seen), Comparing(a, b, Len(stack)))
  /\ stack' = Append(stack, stack[b])
  /\ control' = "run"
  /\ UNCHANGED <<sort_vm, ex, raised, stray>>

\* compare_values for a comparison that has failed, for the sort frame f.
ComparisonFails(outer, f) ==
  /\ frames' = Append(outer, [f EXCEPT !.failed = TRUE])
  /\ sort_vm' = FALSE
  /\ control' = "ask"

\* It has no `_cmp`.
CompareUnbound(a, b) ==
  /\ Question(a, b)
  /\ Objects2(a, b)
  /\ Raise(<<>>)
  /\ ComparisonFails(Below, Inner)
  /\ UNCHANGED stack

\* `_cmp` has returned, and the number of values is not checked.
CmpReturnsUnchecked ==
  /\ Running
  /\ Inner.kind = "cmp"
  /\ stack # <<>>
  /\ Last(stack).t = "number"
  /\ frames' = Append(Front(Below), Answered(Last(Below), Inner.a, Inner.b,
                                             compareNums(Last(stack).v, 0)))
  /\ stack' = Front(stack)
  /\ control' = "ask"
  /\ UNCHANGED <<sort_vm, ex, raised, stray>>

\* `_cmp` has returned: one value more than before, a number.
CmpReturns ==
  /\ Running
  /\ Inner.kind = "cmp"
  /\ Len(stack) = Inner.oldStk + 1
  /\ Last(stack).t = "number"
  /\ frames' = Append(Front(Below), Answered(Last(Below), Inner.a, Inner.b,
                                             compareNums(Last(stack).v, 0)))
  /\ stack' = Front(stack)
  /\ control' = "ask"
  /\ UNCHANGED <<sort_vm, ex, raised, stray>>

\* It has left another number of values, or something else: the value is popped
\* only in the second case.
CmpInvalid ==
  /\ Running
  /\ Inner.kind = "cmp"
  /\ \/ Len(stack) # Inner.oldStk + 1 /\ UNCHANGED stack
     \/ /\ Len(stack) = Inner.oldStk + 1
        /\ Last(stack).t # "number"
        /\ stack' = Front(stack)
  /\ Raise(<<>>)
  /\ ComparisonFails(Front(Below), Last(Below))

CmpFails ==
  /\ control = "fail"
  /\ Inner.kind = "cmp"
  /\ ComparisonFails(Front(Below), Last(Below))
  /\ UNCHANGED <<stack, ex, raised, stray>>
-----------------------------------------------------------------------------
(* The end of a sort                                                       *)

\* The orders qsort can leave n indices in.
Orders(n) == {p \in [1 .. n -> 1 .. n] : \A i \in 1 .. n : \E k \in 1 .. n : p[k] = i}

\* qsort is done: what it knows of each two neighbours puts them in this order.
InOrder(p, f) == \A k \in 1 .. f.size - 1 : <<p[k], p[k + 1]>> \in f.le

\* Puts each value at its index instead.
RearrangedBack(indices, vs) ==
  [k \in DOMAIN indices |-> vs[CHOOSE j \in DOMAIN indices : indices[j] = k]]

\* The values at the indices.
Rearranged(indices, vs) == [k \in DOMAIN indices |-> vs[indices[k]]]

SortReturns(indices) ==
  /\ control = "ask"
  /\ sort_vm
  /\ InOrder(indices, Inner)
  /\ stack' = Rearranged(indices, stack)
  /\ frames' = Below
  /\ control' = "run"
  /\ UNCHANGED <<sort_vm, ex, raised, stray>>

\* A comparison has cleared sort_vm: the others answer 0, and sort fails.
SortFails ==
  /\ control = "ask"
  /\ ~sort_vm
  /\ ex' = Unwound(Inner)
  /\ stray' = (stray \/ ~Inner.failed)
  /\ frames' = Below
  /\ control' = "fail"
  /\ UNCHANGED <<stack, sort_vm, raised>>
-----------------------------------------------------------------------------
(* Failures                                                                *)

CallFails ==
  /\ control = "fail"
  /\ Inner.kind = "call"
  /\ ex' = Unwound(Inner)
  /\ frames' = Below
  /\ UNCHANGED <<stack, control, sort_vm, raised, stray>>

\* The exception with its trace (genTraceList) is pushed as an object and the
\* handler called.
Catch(o) ==
  /\ control = "fail"
  /\ Inner.kind = "catch"
  /\ ex' = Unwound(Inner)
  /\ stack' = Append(stack, Object(o))
  /\ frames' = Append(Below, CallAt(Inner.place))
  /\ control' = "run"
  /\ raised' = [raised EXCEPT !.calls = <<>>]
  /\ UNCHANGED <<sort_vm, stray>>

\* The prompt prints the error (dumpError) and drops the values.
PromptFails ==
  /\ control = "fail"
  /\ Inner.kind = "prompt"
  /\ stack' = <<>>
  /\ control' = "run"
  /\ raised' = [raised EXCEPT !.calls = <<>>]
  /\ UNCHANGED <<frames, sort_vm, ex, stray>>

SortingNext ==
  \/ \E n \in Answers : Push(Number(n))
  \/ Pop \/ Return
  \/ \E p \in Places : RaiseAt(p) \/ ThrowAt(p) \/ StartSort(p)
  \/ \E p \in Places : Enter(CallAt(p))
  \/ \E p \in Quiet : Enter(CatchAt(p))
  \/ /\ control = "ask"
     /\ \/ \E a, b \in 1 .. Inner.size :
             ComparePlain(a, b) \/ CompareObjects(a, b) \/ CompareUnbound(a, b)
        \/ \E indices \in Orders(Inner.size) : SortReturns(indices)
  \/ CmpReturns \/ CmpInvalid \/ CmpFails
  \/ SortFails \/ CallFails \/ PromptFails
  \/ \E o \in Objects : Catch(o)
-----------------------------------------------------------------------------
(* Properties                                                              *)

\* Every index qsort asks about is that of a value on the stack, whatever the
\* `_cmp` closures did to it (and when qsort is done, so is every index the
\* result is read from).  compare_values has no check of its own: it relies on
\* valueCompare's, which refuses a `_cmp` that leaves another number of values.
SortReadsInRange == control = "ask" /\ sort_vm => Len(stack) = Inner.size

\* sort leaves the values it was called for in the order the comparisons gave:
\* numbers before objects, numbers by size, and objects as `_cmp` answered
\* (web/main.kiwi:1305), provided every comparison saw those values.
SortOrders ==
  [][control = "ask" /\ frames' = Below /\ control' = "run"
       /\ Inner.same /\ stack = Inner.initial =>
     /\ \A v \in StackValues :
          Cardinality({k \in DOMAIN stack : stack[k] = v}) =
            Cardinality({k \in DOMAIN stack' : stack'[k] = v})
     /\ \A k \in 1 .. Len(stack') - 1 :
          LET u == stack'[k]
              w == stack'[k + 1]
          IN \/ u.t = "number" /\ (w.t = "number" => u.v <= w.v)
             \/ /\ u.t = "context" /\ w.t = "context"
                /\ \E pair \in Inner.le : stack[pair[1]] = u /\ stack[pair[2]] = w]_svars

\* When an exception is caught or printed its trace is exactly the calls between
\* where it was raised and where it is caught (web/main.kiwi:1263), innermost
\* first: none is missing or left over from an exception caught before, also
\* when it passes through a sort.  Not so when sort fails for a reason that was
\* caught inside `_cmp` already: it raises nothing then.
TraceIsCallChain ==
  [][control = "fail" /\ Inner.kind \in {"catch", "prompt"} /\ ~stray
       => ex'.trace = raised.calls /\ ex'.sourceHasTrace]_svars
=============================================================================

----------------------------- MODULE Evaluator -----------------------------
(***************************************************************************)
(* The tree-walking evaluator, src/src/vm.c: evalNode, evalCall and        *)
(* evalSpecial with the C stack they recurse on, the metastack of value    *)
(* stacks (Stacks), the current context, and how a failure unwinds.        *)
(*                                                                         *)
(* Every program is covered at once: whenever a C function is about to     *)
(* evaluate the next node, any node may be the next one, and any value may *)
(* turn out to be a closure, a native function or a plain value.  A C      *)
(* function that is waiting for another one is a frame, with the locals it *)
(* will read when it resumes:                                              *)
(*                                                                         *)
(*   repl            runFallbackRepl                                       *)
(*   node            evalNode, with nothing to do after the call           *)
(*   operand         evalAndPop, or a method call whose result is popped   *)
(*   group, object   evalNode, AST_GROUP and AST_OBJECT                    *)
(*   arg, precall    evalNode, AST_PRECALL, before and in the call         *)
(*   module          VM_evalModule in AST_IMPORT                           *)
(*   call            evalCall of a closure (or builtin_evalin)             *)
(*   map, filter, zip, loop, catch    evalSpecial                          *)
(*                                                                         *)
(* Variable lookup, which only decides whether a node fails, is Contexts;  *)
(* the pointers PREBIND and PRECALL hold across a call are PendingNodes.   *)
(***************************************************************************)
EXTENDS Stacks, SequencesExt

CONSTANTS
  Context,    \* identities of contexts
  NoContext,  \* NULL
  MaxFrames,  \* bound on the depth of the C stack
  MaxValues   \* bound on the values a program pushes

ASSUME EvaluatorAssumption ==
  /\ NoContext \notin Context
  /\ Context # {}
  /\ MaxFrames \in Nat \ {0}
  /\ MaxValues \in Nat

VARIABLES
  frames,    \* the C stack, outermost first
  control,   \* what the running C function does
  stack,     \* vm->stack
  context,   \* vm->context
  locked     \* the contexts whose lock flag is set

vars == <<heap, pool, frames, control, stack, context, locked>>

\* "eval"     the next node of a body is evaluated
\* "dispatch" evalAndPop has delivered an operand
\* "call"     evalCall is entered
\* "turn"     the head of a loop
\* "ok", "fail"   a function returns true, false
Control == {"eval", "dispatch", "call", "turn", "ok", "fail"}

Kind == {"repl", "node", "operand", "group", "object", "arg", "precall",
         "module", "call", "map", "filter", "zip", "loop", "catch"}

\* stk: the saved vm->stack (group, arg, precall, module), the stack iterated
\* over (map, filter) or the result stack (zip);  ctx: the saved vm->context;
\* own: the context the frame made current (a history field, the code does not
\* keep it);  i: the loop counter.
Frame == [kind : Kind, stk : Stack \cup {NoStack},
          ctx : Context \cup {NoContext}, own : Context \cup {NoContext},
          i : Nat]

Plain(kind) == [kind |-> kind, stk |-> NoStack, ctx |-> NoContext,
                own |-> NoContext, i |-> 0]
Saving(kind, s) == [Plain(kind) EXCEPT !.stk = s]
Scoped(kind, old, new) == [Plain(kind) EXCEPT !.ctx = old, !.own = new]

Inner == frames[Len(frames)]
Below == SubSeq(frames, 1, Len(frames) - 1)
Size == Len(heap[stack].values)
Kept(n) == SubSeq(heap[stack].values, 1, Size - n)   \* all but the top n

\* Everything a frame still refers to.
HeldStacks == {stack} \cup ({frames[j].stk : j \in DOMAIN frames} \ {NoStack})
HeldContexts == ({context} \cup {frames[j].ctx : j \in DOMAIN frames}
                           \cup {frames[j].own : j \in DOMAIN frames}) \ {NoContext}

\* Context_create.  A context that no frame holds and no closure will enter is
\* as good as a new one: its lock flag is only looked at after it is entered.
NewContext == CHOOSE c \in Context : c \notin HeldContexts

\* Bounds.
RoomForContext == HeldContexts # Context
RoomForFrame == Len(frames) < MaxFrames
RoomForValue ==
  FoldSet(LAMBDA s, total : Len(heap[s].values) + total, 0, HeldStacks) < MaxValues

Init ==
  /\ stack = CHOOSE s \in Stack : TRUE
  /\ context = CHOOSE c \in Context : TRUE
  /\ heap = [s \in Stack |-> IF s = stack THEN NewStack(NoStack)
                             ELSE [NewStack(NoStack) EXCEPT !.status = "gone"]]
  /\ pool = NoStack
  /\ frames = <<[Plain("repl") EXCEPT !.own = context]>>
  /\ control = "eval"
  /\ locked = {}

\* Running(c): a step of the innermost C function, which is in state c.
\* Enter and Leave change the C stack; the rest of the state is the caller's.
Running(c) == control = c
Goto(c) == control' = c
Enter(f, c) == /\ RoomForFrame
               /\ frames' = Append(frames, f)
               /\ Goto(c)
Replace(f, c) == /\ frames' = Append(Below, f)
                 /\ Goto(c)
Leave(c) == /\ frames' = Below
            /\ Goto(c)
SetHeap(h) == heap' = h /\ UNCHANGED pool
-----------------------------------------------------------------------------
(* evalNode, "eval": the nodes of a body, one after the other              *)

\* NUMBER, SYMBOL, STRING, ODDBALL, CLOSURE, GETV, HASV, REFV, THIS
NodePush(v) ==
  /\ Running("eval")
  /\ RoomForValue
  /\ SetHeap(Stack_push(heap, stack, v))
  /\ UNCHANGED <<frames, control, stack, context, locked>>

\* SETV, BINDV, SIGBIND; also a receiver that chainResolve pops
NodePop ==
  /\ Running("eval")
  /\ Size > 0
  /\ SetHeap(Drop(heap, stack, 1))
  /\ UNCHANGED <<frames, control, stack, context, locked>>

\* A node that raises: unbound, underflow, locked context, failed import.
NodeRaise ==
  /\ Running("eval")
  /\ Goto("fail")
  /\ UNCHANGED <<heap, pool, frames, stack, context, locked>>

\* CALLV, and PRECALL_BARE, whose operand is evaluated in line before it.
NodeCall ==
  /\ Running("eval")
  /\ Enter(Plain("node"), "call")
  /\ UNCHANGED <<heap, pool, stack, context, locked>>

\* PREBIND, ARGUMENT, SPECIAL, UNTIL_DO; OPERATOR and THEN_ELSE have popped
\* one value first.
NodeOperand(n) ==
  /\ Running("eval")
  /\ n <= Size
  /\ Enter(Plain("operand"), "eval")
  /\ SetHeap(Drop(heap, stack, n))
  /\ UNCHANGED <<stack, context, locked>>

\* GROUP, and PRECALL up to its argument
NodeNewStack(kind) ==
  /\ Running("eval")
  /\ Enter(Saving(kind, stack), "eval")
  /\ \E s \in Acquirable(HeldStacks) :
       /\ Stack_acquire(s, stack, heap)
       /\ stack' = s
  /\ UNCHANGED <<context, locked>>

NodeObject ==
  /\ Running("eval")
  /\ RoomForContext
  /\ RoomForValue
  /\ Enter(Scoped("object", context, NewContext), "eval")
  /\ context' = NewContext
  /\ locked' = locked \ {NewContext}
  /\ UNCHANGED <<heap, pool, stack>>

\* DOTS, and SPC_DOT once its operand has been popped
NodeDots(n) ==
  /\ Running("eval") \/ Running("dispatch")
  /\ LET prev == heap[stack].previous
     IN /\ prev # NoStack
        /\ n <= Len(heap[prev].values)
        /\ SetHeap(Stack_move(heap, prev, stack, n))
  /\ Goto("eval")
  /\ UNCHANGED <<frames, stack, context, locked>>

\* IMPORT of a module that is not in the cache (of one that is: no effect
\* here, or NodeRaise).
NodeImport ==
  /\ Running("eval")
  /\ RoomForContext
  /\ Enter([Scoped("module", context, NewContext) EXCEPT !.stk = stack], "eval")
  /\ \E s \in Acquirable(HeldStacks) :
       /\ Stack_acquire(s, NoStack, heap)
       /\ stack' = s
  /\ context' = NewContext
  /\ locked' = locked \ {NewContext}

EndBody ==
  /\ Running("eval")
  /\ Goto("ok")
  /\ UNCHANGED <<heap, pool, frames, stack, context, locked>>
-----------------------------------------------------------------------------
(* evalNode and evalSpecial, "dispatch": the operand has been popped       *)

\* Values popped, then at most one pushed: PREBIND, ARGUMENT, IS, TO, OPERATOR
\* on plain values, a special with nothing to do.
Finish(n, out) ==
  /\ Running("dispatch")
  /\ n <= Size
  /\ SetHeap(Write(heap, stack, Kept(n) \o out))
  /\ Goto("eval")
  /\ UNCHANGED <<frames, stack, context, locked>>

DispatchRaise(n) ==
  /\ Running("dispatch")
  /\ n <= Size
  /\ SetHeap(Drop(heap, stack, n))
  /\ Goto("fail")
  /\ UNCHANGED <<frames, stack, context, locked>>

\* THEN_ELSE, JOIN, WITH, AND, OR, a metamethod for an operator ("node"), and
\* _cmp or _eq, whose result is popped ("operand").
DispatchCall(kind, n, out) ==
  /\ Running("dispatch")
  /\ n <= Size
  /\ Enter(Plain(kind), "call")
  /\ SetHeap(Write(heap, stack, Kept(n) \o out))
  /\ UNCHANGED <<stack, context, locked>>

\* The new stack is entered like a group's.
StartEachLinked(kind) ==
  /\ Running("dispatch")
  /\ Size > 0
  /\ Enter(Saving(kind, stack), "turn")
  /\ \E s \in Acquirable(HeldStacks) :
       /\ Stack_acquire(s, stack, heap)
       /\ stack' = s
  /\ UNCHANGED <<context, locked>>

\* MAP and FILTER take the whole stack away and build a new one.
StartEach(kind) ==
  /\ Running("dispatch")
  /\ Size > 0
  /\ Enter(Saving(kind, stack), "turn")
  /\ \E s \in Acquirable(HeldStacks) :
       /\ Stack_acquire(s, heap[stack].previous, heap)
       /\ stack' = s
  /\ UNCHANGED <<context, locked>>

StartZip ==
  /\ Running("dispatch")
  /\ \E s \in Acquirable(HeldStacks) :
       /\ Stack_acquire(s, heap[stack].previous, heap)
       /\ Enter(Saving("zip", s), "turn")
  /\ UNCHANGED <<stack, context, locked>>

\* UNTIL_DO, FOLD, REPEAT (which pops the count)
StartLoop(n) ==
  /\ Running("dispatch")
  /\ n <= Size
  /\ Enter(Plain("loop"), "turn")
  /\ SetHeap(Drop(heap, stack, n))
  /\ UNCHANGED <<stack, context, locked>>

StartCatch ==
  /\ Running("dispatch")
  /\ Size > 0
  /\ Enter(Plain("catch"), "call")
  /\ SetHeap(Drop(heap, stack, 1))
  /\ UNCHANGED <<stack, context, locked>>
-----------------------------------------------------------------------------
(* evalCall, "call"                                                        *)

CallClosure ==
  /\ Running("call")
  /\ RoomForContext
  /\ Enter(Scoped("call", context, NewContext), "eval")
  /\ context' = NewContext
  /\ locked' = locked \ {NewContext}
  /\ UNCHANGED <<heap, pool, stack>>

\* builtin_evalin: a closure's body in a context of the program's choice (one
\* that no frame holds differs from a closure's new context only in its lock).
CallEvalin(c) ==
  /\ Running("call")
  /\ Size >= 2
  /\ Enter(Scoped("call", context, c), "eval")
  /\ context' = c
  /\ SetHeap(Drop(heap, stack, 2))
  /\ UNCHANGED <<stack, locked>>

\* A value that is not callable is pushed.
CallValue(v) ==
  /\ Running("call")
  /\ RoomForValue
  /\ SetHeap(Stack_push(heap, stack, v))
  /\ Goto("ok")
  /\ UNCHANGED <<frames, stack, context, locked>>

\* A native function takes its arguments, then fails or pushes its result.
CallNative(n, out) ==
  /\ Running("call")
  /\ n <= Size
  /\ SetHeap(Write(heap, stack, Kept(n) \o out))
  /\ Goto("ok")
  /\ UNCHANGED <<frames, stack, context, locked>>

CallNativeFails(n) ==
  /\ Running("call")
  /\ n <= Size
  /\ SetHeap(Drop(heap, stack, n))
  /\ Goto("fail")
  /\ UNCHANGED <<frames, stack, context, locked>>

\* builtin_list takes the buffer of the stack for the list.
CallList(v) ==
  /\ Running("call")
  /\ Size > 0 \/ RoomForValue
  /\ SetHeap(Write([heap EXCEPT ![stack].big = FALSE], stack, <<v>>))
  /\ Goto("ok")
  /\ UNCHANGED <<frames, stack, context, locked>>

CallLock(c) ==
  /\ Running("call")
  /\ Size > 0
  /\ SetHeap(Drop(heap, stack, 1))
  /\ locked' = locked \cup {c}
  /\ Goto("ok")
  /\ UNCHANGED <<frames, stack, context>>
-----------------------------------------------------------------------------
(* "ok": the innermost C function gets true from the one it called         *)

Returned(kind) == /\ Running("ok")
                  /\ Inner.kind = kind

NodeReturns ==
  /\ Returned("node")
  /\ Leave("eval")
  /\ UNCHANGED <<heap, pool, stack, context, locked>>

OperandReturns ==
  /\ Returned("operand")
  /\ IF Size > 0
     THEN Leave("dispatch") /\ SetHeap(Drop(heap, stack, 1))
     ELSE Leave("fail") /\ UNCHANGED <<heap, pool>>   \* raiseUnderflow
  /\ UNCHANGED <<stack, context, locked>>

\* What is left on the group's stack is pushed onto the one it interrupted.
GroupReturns ==
  /\ Returned("group")
  /\ Stack_release(stack, MoveAll(heap, stack, Inner.stk))
  /\ stack' = Inner.stk
  /\ Leave("eval")
  /\ UNCHANGED <<context, locked>>

ArgReturns ==
  /\ Returned("arg")
  /\ Replace([Inner EXCEPT !.kind = "precall"], "call")
  /\ UNCHANGED <<heap, pool, stack, context, locked>>

\* Forgets to pass on that the call has failed.
PrecallReturnsTrue ==
  /\ Running("ok") \/ Running("fail")
  /\ Inner.kind = "precall"
  /\ Stack_release(stack, MoveAll(heap, stack, Inner.stk))
  /\ stack' = Inner.stk
  /\ Leave("eval")
  /\ UNCHANGED <<context, locked>>

PrecallReturns ==
  /\ Running("ok") \/ Running("fail")
  /\ Inner.kind = "precall"
  /\ Stack_release(stack, MoveAll(heap, stack, Inner.stk))
  /\ stack' = Inner.stk
  /\ Leave(IF control = "ok" THEN "eval" ELSE "fail")
  /\ UNCHANGED <<context, locked>>

\* Succeeded or not, an object that is not locked is pushed; one that is
\* locked stays vm->context.
ObjectReturns(v) ==
  /\ Running("ok") \/ Running("fail")
  /\ Inner.kind = "object"
  /\ IF context \in locked
     THEN Leave("fail") /\ UNCHANGED <<heap, pool, context>>
     ELSE /\ Leave(IF control = "ok" THEN "eval" ELSE "fail")
          /\ SetHeap(Stack_push(heap, stack, v))
          /\ context' = Inner.ctx
  /\ UNCHANGED <<stack, locked>>

\* Restores the context on the way out of a successful call only.
CallReturnsOk ==
  /\ Running("ok") \/ Running("fail")
  /\ Inner.kind = "call"
  /\ context' = IF control = "ok" THEN Inner.ctx ELSE context
  /\ Leave(control)
  /\ UNCHANGED <<heap, pool, stack, locked>>

CallReturns ==
  /\ Running("ok") \/ Running("fail")
  /\ Inner.kind = "call"
  /\ context' = Inner.ctx
  /\ Leave(control)
  /\ UNCHANGED <<heap, pool, stack, locked>>

\* The module's values are dropped.  Its `_delay`, if it has one, is called
\* on the importer's stack.
ModuleReturns ==
  /\ Returned("module")
  /\ Stack_release(stack, heap)
  /\ stack' = Inner.stk
  /\ context' = Inner.ctx
  /\ \/ Leave("eval")
     \/ Replace(Plain("node"), "call")
  /\ UNCHANGED locked

\* The next value goes on the new stack and the closure is called.
MapTurn ==
  /\ Running("turn") \/ Running("ok")
  /\ Inner.kind = "map"
  /\ LET base == heap[Inner.stk].values IN
     IF Inner.i < Len(base)
     THEN /\ SetHeap(Stack_push(heap, stack, base[Inner.i + 1]))
          /\ Replace([Inner EXCEPT !.i = @ + 1], "call")
     ELSE /\ Stack_release(Inner.stk, heap)
          /\ Leave("eval")
  /\ UNCHANGED <<stack, context, locked>>

FilterTurn ==
  /\ Running("turn")
  /\ Inner.kind = "filter"
  /\ LET base == heap[Inner.stk].values IN
     IF Inner.i < Len(base)
     THEN /\ SetHeap(Stack_push(heap, stack, base[Inner.i + 1]))
          /\ Replace([Inner EXCEPT !.i = @ + 1], "call")
     ELSE /\ Stack_release(Inner.stk, heap)
          /\ Leave("eval")
  /\ UNCHANGED <<stack, context, locked>>

\* The closure's answer is popped; the value is pushed again if it is truthy.
FilterReturns ==
  /\ Returned("filter")
  /\ LET v == heap[Inner.stk].values[Inner.i] IN
     IF Size > 0
     THEN /\ \E out \in {<<>>, <<v>>} : SetHeap(Write(heap, stack, Kept(1) \o out))
          /\ Goto("turn")
          /\ UNCHANGED frames
     ELSE Leave("fail") /\ UNCHANGED <<heap, pool>>   \* raiseUnderflow
  /\ UNCHANGED <<stack, context, locked>>

\* Until the stack is empty; the results, reversed, become the stack.
ZipTurn ==
  /\ Running("turn")
  /\ Inner.kind = "zip"
  /\ LET result == heap[Inner.stk].values IN
     IF Size > 0
     THEN Goto("call") /\ UNCHANGED <<heap, pool, frames, stack>>
     ELSE /\ Stack_release(stack, [heap EXCEPT ![Inner.stk].values = Reverse(result)])
          /\ stack' = Inner.stk
          /\ Leave("eval")
  /\ UNCHANGED <<context, locked>>

ZipReturns ==
  /\ Returned("zip")
  /\ IF Size > 0
     THEN /\ SetHeap(Stack_push(Drop(heap, stack, 1), Inner.stk, Top(heap, stack, 1)[1]))
          /\ Goto("turn")
          /\ UNCHANGED frames
     ELSE Leave("fail") /\ UNCHANGED <<heap, pool>>   \* raiseUnderflow
  /\ UNCHANGED <<stack, context, locked>>

\* Another turn, or enough of them.  UNTIL_DO pops a condition after a call.
LoopTurn ==
  /\ Running("turn") \/ Running("ok")
  /\ Inner.kind = "loop"
  /\ \E n \in IF control = "ok" /\ Size > 0 THEN {0, 1} ELSE {0} :
       SetHeap(Drop(heap, stack, n))
  /\ \/ Goto("call") /\ UNCHANGED frames
     \/ Leave("eval")
     \/ Leave("fail")
  /\ UNCHANGED <<stack, context, locked>>

CatchReturns ==
  /\ Returned("catch")
  /\ Leave("eval")
  /\ UNCHANGED <<heap, pool, stack, context, locked>>
-----------------------------------------------------------------------------
(* "fail": the innermost C function gets false from the one it called      *)

\* Returns false at once.  A loop's base or result stack is left behind, and
\* so are the importer's stack and context: the module's stay current.
Unwind ==
  /\ Running("fail")
  /\ Inner.kind \in {"node", "operand", "map", "filter", "zip", "loop", "module"}
  /\ Leave("fail")
  /\ UNCHANGED <<heap, pool, stack, context, locked>>

GroupFails ==
  /\ Running("fail")
  /\ Inner.kind = "group"
  /\ Stack_release(stack, heap)
  /\ stack' = Inner.stk
  /\ Leave("fail")
  /\ UNCHANGED <<context, locked>>

\* The argument's stack is left to the collector.
ArgFails ==
  /\ Running("fail")
  /\ Inner.kind = "arg"
  /\ SetHeap(MoveAll(heap, stack, Inner.stk))
  /\ stack' = Inner.stk
  /\ Leave("fail")
  /\ UNCHANGED <<context, locked>>

\* The exception object is pushed and the handler called.
Catch(v) ==
  /\ Running("fail")
  /\ Inner.kind = "catch"
  /\ SetHeap(Stack_push(heap, stack, v))
  /\ Replace(Plain("node"), "call")
  /\ UNCHANGED <<stack, context, locked>>

\* The line is over: its values are dropped, the next one is evaluated with
\* whatever stack and context are current.
NextLine ==
  /\ Running("ok") \/ Running("fail")
  /\ Inner.kind = "repl"
  /\ SetHeap([heap EXCEPT ![stack].values = <<>>])
  /\ Replace([Inner EXCEPT !.own = context], "eval")
  /\ UNCHANGED <<stack, context, locked>>
-----------------------------------------------------------------------------
Outputs == {<<>>} \cup {<<v>> : v \in IF RoomForValue THEN Value ELSE {}}

Eval ==
  \/ \E v \in Value : NodePush(v)
  \/ NodePop \/ NodeRaise \/ NodeCall
  \/ \E n \in 0 .. 1 : NodeOperand(n)
  \/ \E kind \in {"group", "arg"} : NodeNewStack(kind)
  \/ NodeObject \/ NodeImport
  \/ \E n \in 0 .. MaxValues : NodeDots(n)
  \/ EndBody

Dispatch ==
  \/ \E n \in 0 .. 1 : \/ DispatchRaise(n)
                       \/ StartLoop(n)
                       \/ \E out \in Outputs : Finish(n, out)
                       \/ \E kind \in {"node", "operand"}, out \in Outputs :
                            DispatchCall(kind, n, out)
  \/ \E kind \in {"map", "filter"} : StartEach(kind)
  \/ StartZip \/ StartCatch

Call ==
  \/ CallClosure
  \/ \E c \in HeldContexts : CallEvalin(c) \/ CallLock(c)
  \/ \E v \in Value : CallValue(v) \/ CallList(v)
  \/ \E n \in 0 .. 2 : CallNativeFails(n)
  \/ \E n \in 0 .. 2, out \in Outputs : CallNative(n, out)

Return ==
  \/ NodeReturns \/ OperandReturns \/ GroupReturns \/ ArgReturns
  \/ PrecallReturns \/ CallReturns \/ ModuleReturns \/ CatchReturns
  \/ MapTurn \/ FilterTurn \/ FilterReturns \/ ZipTurn \/ ZipReturns \/ LoopTurn
  \/ \E v \in Value : ObjectReturns(v)

Fail ==
  \/ Unwind \/ GroupFails \/ ArgFails
  \/ \E v \in Value : Catch(v)

Next == Eval \/ Dispatch \/ Call \/ Return \/ Fail \/ NextLine

Spec == Init /\ [][Next]_vars
-----------------------------------------------------------------------------
(* Properties                                                              *)

\* The state is well formed, the C stack stands on the REPL, and the pool only
\* holds stacks with small buffers.
TypeOK ==
  /\ heap \in [Stack -> StackType]
  /\ pool \in Stack \cup {NoStack}
  /\ frames \in Seq(Frame)
  /\ Len(frames) \in 1 .. MaxFrames
  /\ control \in Control
  /\ stack \in Stack
  /\ context \in Context
  /\ locked \subseteq Context
  /\ \A j \in DOMAIN frames : frames[j].kind = "repl" <=> j = 1
  /\ \A s \in Stack : heap[s].status = "pooled" => ~heap[s].big

\* A stack that some C function will use again is never in the pool or freed,
\* and no two of them are the same: an acquired stack belongs to one owner
\* until it is released, over every interleaving of nested groups, maps, zips,
\* modules and failures.
PoolSound ==
  /\ \A s \in HeldStacks : heap[s].status = "used"
  /\ \A j \in DOMAIN frames : frames[j].stk # stack
  /\ \A j, k \in DOMAIN frames :
       frames[j].stk = frames[k].stk /\ frames[j].stk # NoStack => j = k

\* The innermost stack the program is inside of: what `.` should take from.
StackFrames ==
  {j \in DOMAIN frames : frames[j].kind \in {"group", "arg", "precall", "module"}}

Enclosing ==
  IF StackFrames = {} THEN NoStack
  ELSE LET j == CHOOSE j \in StackFrames : \A k \in StackFrames : k <= j
       IN IF frames[j].kind = "module" THEN NoStack ELSE frames[j].stk

\* `.` takes values from the stack the innermost group has interrupted, or
\* raises; never from a stack further out, from a recycled one, or from the
\* importer of a module.
PreviousIsEnclosing == heap[stack].previous \in {NoStack, Enclosing}

\* web/main.kiwi:276: "Each time we enter a group, a new stack is pushed to the
\* stack-stack, and when we exit a group the top stack is popped from the
\* stack-stack": inside a group `.` reaches the stack the group was entered
\* from.  VM_evalModule, which returns without restoring vm->stack when the
\* module fails, breaks this once the failure has been caught.
DotsReachEnclosing == control = "eval" => heap[stack].previous = Enclosing

\* The scope of the body being evaluated.
Scopes == {j \in DOMAIN frames : frames[j].kind \in {"repl", "object", "module", "call"}}
Scope == frames[CHOOSE j \in Scopes : \A k \in Scopes : k <= j].own

\* Every node is evaluated in the context of the body it is part of, also when
\* a failure below it was caught after leaving vm->context elsewhere.
BodyContext == control # "fail" => context = Scope

\* A failure unwinds one C function at a time until a catch or the prompt: no
\* other construct swallows it or jumps over a function that has to clean up.
OnlyCatchSwallows ==
  [][control = "fail" => \/ control' = "fail" /\ frames' = Below
                         \/ Inner.kind \in {"catch", "repl"}]_vars

\* While map or filter runs, nothing its closure does changes the values it
\* still has to visit.
IteratedStackKept ==
  [][\A j \in DOMAIN frames \cap DOMAIN frames' :
       frames[j].kind \in {"map", "filter"} /\ frames'[j].stk = frames[j].stk
         => heap'[frames[j].stk] = heap[frames[j].stk]]_vars
=============================================================================

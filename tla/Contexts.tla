------------------------------ MODULE Contexts ------------------------------
(***************************************************************************)
(* The interpreter's variable contexts, src/src/context.c: hash tables     *)
(* with open addressing, chained through `parent`, that can be locked.     *)
(* Beside the operations of context.c the module has the three others that *)
(* write the fields of a Context: the object literal (vm.c, AST_OBJECT),   *)
(* `as` (vm.c, SPC_AS) and `lock` (builtin.c).                             *)
(*                                                                         *)
(* The interpreter is one thread, so an operation never overlaps another   *)
(* one.  It is still split into steps: `op` is the C function that is      *)
(* running, and one step is one level of its recursion up the parent       *)
(* chain, or one turn of the loop that rehashes a table that grows.        *)
(***************************************************************************)
EXTENDS Naturals, Sequences, FiniteSets

CONSTANTS
  Ctx,       \* identities of contexts (addresses of Context structs)
  NoCtx,     \* the NULL context
  Key,       \* the symbols used as keys
  Value,     \* the values that are bound
  NoValue,   \* what a free slot of `values` holds, and a result without value
  Hash,      \* Hash[k] is HASH(k) of context.c
  StartCap   \* START_CAP

Empty == 0   \* the key of a free slot; symbols are numbered from 1

ASSUME ContextsAssumption ==
  /\ NoCtx \notin Ctx
  /\ NoValue \notin Value
  /\ Empty \notin Key
  /\ Hash \in [Key -> Nat]
  /\ StartCap \in Nat \ {0}

VARIABLES
  live,      \* the contexts created so far
  keys,      \* keys[c]     : the array ctx->keys
  vals,      \* vals[c]     : the array ctx->values
  capacity,  \* capacity[c] : ctx->capacity
  count,     \* count[c]    : ctx->count
  parent,    \* parent[c]   : ctx->parent
  lock,      \* lock[c]     : ctx->lock
  open,      \* contexts of the object literals being evaluated, innermost last
  op,        \* the operation that is running
  ret        \* what the last operation returned

table == <<keys, vals, capacity, count>>
vars == <<live, keys, vals, capacity, count, parent, lock, open, op, ret>>

Slot(c) == 0 .. capacity[c] - 1

Idle == [fn |-> "idle"]

-----------------------------------------------------------------------------
(* Probing                                                                 *)

\* The slot probed after d collisions.
At(k, d, cap) == (Hash[k] + d) % cap

\* The loops `while (keys[index])`, which leave at the first slot whose key
\* is in `stop`, leave at slot i.  No such i exists iff the loop never ends.
ProbesTo(tab, cap, k, stop, i) ==
  \E d \in 0 .. cap - 1 :
    /\ i = At(k, d, cap)
    /\ tab[i] \in stop
    /\ \A e \in 0 .. d - 1 : tab[At(k, e, cap)] \notin stop

\* The probe for k in context c ends at a slot that holds k, or at a free one.
Hit(c, k, i)  == /\ ProbesTo(keys[c], capacity[c], k, {Empty, k}, i)
                 /\ keys[c][i] = k
Miss(c, k, i) == /\ ProbesTo(keys[c], capacity[c], k, {Empty, k}, i)
                 /\ keys[c][i] = Empty
-----------------------------------------------------------------------------
(* State of one operation                                                  *)

Result == {"none", "ok", "unbound", "locked", "cycle"}

Return(res, v) == /\ op' = Idle
                  /\ ret' = [res |-> res, val |-> v]

Begin(request) == /\ op = Idle
                  /\ op' = request
                  /\ ret' = [res |-> "none", val |-> NoValue]

\* An operation refused before it starts ("context locked").
Refuse == /\ op = Idle
          /\ Return("locked", NoValue)

Init ==
  /\ live = {}
  /\ keys = [c \in Ctx |-> [i \in 0 .. StartCap - 1 |-> Empty]]
  /\ vals = [c \in Ctx |-> [i \in 0 .. StartCap - 1 |-> NoValue]]
  /\ capacity = [c \in Ctx |-> StartCap]
  /\ count = [c \in Ctx |-> 0]
  /\ parent = [c \in Ctx |-> NoCtx]
  /\ lock = [c \in Ctx |-> FALSE]
  /\ open = <<>>
  /\ op = Idle
  /\ ret = [res |-> "none", val |-> NoValue]
-----------------------------------------------------------------------------
(* Creation and the other writers of the Context fields                    *)

Allocate(c, p) ==
  /\ op = Idle
  /\ c \in Ctx \ live
  /\ live' = live \cup {c}
  /\ keys' = [keys EXCEPT ![c] = [i \in 0 .. StartCap - 1 |-> Empty]]
  /\ vals' = [vals EXCEPT ![c] = [i \in 0 .. StartCap - 1 |-> NoValue]]
  /\ capacity' = [capacity EXCEPT ![c] = StartCap]
  /\ count' = [count EXCEPT ![c] = 0]
  /\ parent' = [parent EXCEPT ![c] = p]
  /\ lock' = [lock EXCEPT ![c] = FALSE]
  /\ UNCHANGED <<op, ret>>

\* Roots (modules, protos) have no parent; a closure's context has its binding.
Context_create(c, p) ==
  /\ p \in live \cup {NoCtx}
  /\ Allocate(c, p)
  /\ UNCHANGED open

\* An object literal starts: its body sees the scope it is written in.
BeginObject(c, p) ==
  /\ p \in live
  /\ Allocate(c, p)
  /\ open' = Append(open, c)

\* An object literal ends.  An object that its own body has locked is refused,
\* and keeps the parent it had.
EndObject ==
  /\ op = Idle
  /\ open # <<>>
  /\ LET c == open[Len(open)]
     IN IF lock[c]
        THEN /\ Return("locked", NoValue)
             /\ UNCHANGED parent
        ELSE /\ Return("ok", NoValue)
             /\ parent' = [parent EXCEPT ![c] = NoCtx]
  /\ open' = SubSeq(open, 1, Len(open) - 1)
  /\ UNCHANGED <<live, table, lock>>

\* `lock` (with the -l option, vm->noLock, it does nothing and is not modelled).
Lock(c) ==
  /\ op = Idle
  /\ c \in live
  /\ lock' = [lock EXCEPT ![c] = TRUE]
  /\ Return("ok", NoValue)
  /\ UNCHANGED <<live, table, parent, open>>
-----------------------------------------------------------------------------
(* Context_get and Context_set                                             *)

CallGet(c, k) ==
  /\ c \in live
  /\ Begin([fn |-> "get", from |-> c, key |-> k, ctx |-> c])
  /\ UNCHANGED <<live, table, parent, lock, open>>

CallSet(c, k, v) ==
  /\ c \in live
  /\ Begin([fn |-> "set", from |-> c, key |-> k, val |-> v, ctx |-> c])
  /\ UNCHANGED <<live, table, parent, lock, open>>

GetFound ==
  /\ op.fn = "get"
  /\ \E i \in Slot(op.ctx) :
       /\ Hit(op.ctx, op.key, i)
       /\ Return("ok", vals[op.ctx][i])
  /\ UNCHANGED <<live, table, parent, lock, open>>

\* Forgets that the context that holds the key may be locked.
SetFoundUnlocked ==
  /\ op.fn = "set"
  /\ \E i \in Slot(op.ctx) :
       /\ Hit(op.ctx, op.key, i)
       /\ Return("ok", NoValue)
       /\ vals' = [vals EXCEPT ![op.ctx][i] = op.val]
  /\ UNCHANGED <<live, keys, capacity, count, parent, lock, open>>

\* Only the lock of the context that holds the key counts.
SetFound ==
  /\ op.fn = "set"
  /\ \E i \in Slot(op.ctx) :
       /\ Hit(op.ctx, op.key, i)
       /\ IF lock[op.ctx]
          THEN /\ Return("locked", NoValue)
               /\ UNCHANGED vals
          ELSE /\ Return("ok", NoValue)
               /\ vals' = [vals EXCEPT ![op.ctx][i] = op.val]
  /\ UNCHANGED <<live, keys, capacity, count, parent, lock, open>>

\* Tail call on the parent.
WalkUp ==
  /\ op.fn \in {"get", "set"}
  /\ \E i \in Slot(op.ctx) : Miss(op.ctx, op.key, i)
  /\ parent[op.ctx] # NoCtx
  /\ op' = [op EXCEPT !.ctx = parent[op.ctx]]
  /\ UNCHANGED <<live, table, parent, lock, open, ret>>

Unbound ==
  /\ op.fn \in {"get", "set"}
  /\ \E i \in Slot(op.ctx) : Miss(op.ctx, op.key, i)
  /\ parent[op.ctx] = NoCtx
  /\ Return("unbound", NoValue)
  /\ UNCHANGED <<live, table, parent, lock, open>>
-----------------------------------------------------------------------------
(* Context_bind.  Every caller but one tests the lock just before the call; *)
(* the one that does not is modelled in module PendingNodes.                *)

CallBind(c, k, v) ==
  /\ c \in live
  /\ IF lock[c]
     THEN Refuse
     ELSE Begin([fn |-> "bind", ctx |-> c, key |-> k, val |-> v])
  /\ UNCHANGED <<live, table, parent, lock, open>>

\* The key is counted even when it is overwritten.
BindOverwriteCounted ==
  /\ op.fn = "bind"
  /\ \E i \in Slot(op.ctx) :
       /\ Hit(op.ctx, op.key, i)
       /\ vals' = [vals EXCEPT ![op.ctx][i] = op.val]
  /\ count' = [count EXCEPT ![op.ctx] = @ + 1]
  /\ Return("ok", NoValue)
  /\ UNCHANGED <<live, keys, capacity, parent, lock, open>>

BindOverwrite ==
  /\ op.fn = "bind"
  /\ \E i \in Slot(op.ctx) :
       /\ Hit(op.ctx, op.key, i)
       /\ vals' = [vals EXCEPT ![op.ctx][i] = op.val]
  /\ Return("ok", NoValue)
  /\ UNCHANGED <<live, keys, capacity, count, parent, lock, open>>

\* Grows only when the table is already full.
MustGrowLate(c) == count[c] = capacity[c]

\* ++ctx->count == ctx->capacity
MustGrow(c) == count[c] + 1 = capacity[c]

BindInsert ==
  /\ op.fn = "bind"
  /\ ~MustGrow(op.ctx)
  /\ \E i \in Slot(op.ctx) :
       /\ Miss(op.ctx, op.key, i)
       /\ keys' = [keys EXCEPT ![op.ctx][i] = op.key]
       /\ vals' = [vals EXCEPT ![op.ctx][i] = op.val]
  /\ count' = [count EXCEPT ![op.ctx] = @ + 1]
  /\ Return("ok", NoValue)
  /\ UNCHANGED <<live, capacity, parent, lock, open>>

\* A table twice as large replaces the full one; `op` keeps the old arrays.
BindGrow ==
  /\ op.fn = "bind"
  /\ MustGrow(op.ctx)
  /\ \E i \in Slot(op.ctx) : Miss(op.ctx, op.key, i)
  /\ LET c == op.ctx
         cap == 2 * capacity[c]
     IN /\ count' = [count EXCEPT ![c] = @ + 1]
        /\ capacity' = [capacity EXCEPT ![c] = cap]
        /\ keys' = [keys EXCEPT ![c] = [i \in 0 .. cap - 1 |-> Empty]]
        /\ vals' = [vals EXCEPT ![c] = [i \in 0 .. cap - 1 |-> NoValue]]
        /\ op' = [fn |-> "grow", ctx |-> c, key |-> op.key, val |-> op.val,
                  oldCap |-> capacity[c], oldKeys |-> keys[c],
                  oldVals |-> vals[c], i |-> 0]
  /\ UNCHANGED <<live, parent, lock, open, ret>>

RehashSkip ==
  /\ op.fn = "grow"
  /\ op.i < op.oldCap
  /\ op.oldKeys[op.i] = Empty
  /\ op' = [op EXCEPT !.i = @ + 1]
  /\ UNCHANGED <<live, table, parent, lock, open, ret>>

\* Moves the key to its first slot without probing for a free one.
RehashMoveUnprobed ==
  /\ op.fn = "grow"
  /\ op.i < op.oldCap
  /\ op.oldKeys[op.i] # Empty
  /\ LET j == At(op.oldKeys[op.i], 0, capacity[op.ctx])
     IN /\ keys' = [keys EXCEPT ![op.ctx][j] = op.oldKeys[op.i]]
        /\ vals' = [vals EXCEPT ![op.ctx][j] = op.oldVals[op.i]]
  /\ op' = [op EXCEPT !.i = @ + 1]
  /\ UNCHANGED <<live, capacity, count, parent, lock, open, ret>>

\* Moves the key but not its value.
RehashMoveKeyOnly ==
  /\ op.fn = "grow"
  /\ op.i < op.oldCap
  /\ op.oldKeys[op.i] # Empty
  /\ \E j \in Slot(op.ctx) :
       /\ ProbesTo(keys[op.ctx], capacity[op.ctx], op.oldKeys[op.i], {Empty}, j)
       /\ keys' = [keys EXCEPT ![op.ctx][j] = op.oldKeys[op.i]]
  /\ op' = [op EXCEPT !.i = @ + 1]
  /\ UNCHANGED <<live, vals, capacity, count, parent, lock, open, ret>>

RehashMove ==
  /\ op.fn = "grow"
  /\ op.i < op.oldCap
  /\ op.oldKeys[op.i] # Empty
  /\ \E j \in Slot(op.ctx) :
       /\ ProbesTo(keys[op.ctx], capacity[op.ctx], op.oldKeys[op.i], {Empty}, j)
       /\ keys' = [keys EXCEPT ![op.ctx][j] = op.oldKeys[op.i]]
       /\ vals' = [vals EXCEPT ![op.ctx][j] = op.oldVals[op.i]]
  /\ op' = [op EXCEPT !.i = @ + 1]
  /\ UNCHANGED <<live, capacity, count, parent, lock, open, ret>>

\* Keeps the index that was found in the old table.
GrowInsertStale ==
  /\ op.fn = "grow"
  /\ op.i = op.oldCap
  /\ \E j \in 0 .. op.oldCap - 1 :
       /\ ProbesTo(op.oldKeys, op.oldCap, op.key, {Empty}, j)
       /\ keys' = [keys EXCEPT ![op.ctx][j] = op.key]
       /\ vals' = [vals EXCEPT ![op.ctx][j] = op.val]
  /\ Return("ok", NoValue)
  /\ UNCHANGED <<live, capacity, count, parent, lock, open>>

\* The rehash is over: find a slot for the new key in the new table.
GrowInsert ==
  /\ op.fn = "grow"
  /\ op.i = op.oldCap
  /\ \E j \in Slot(op.ctx) :
       /\ ProbesTo(keys[op.ctx], capacity[op.ctx], op.key, {Empty}, j)
       /\ keys' = [keys EXCEPT ![op.ctx][j] = op.key]
       /\ vals' = [vals EXCEPT ![op.ctx][j] = op.val]
  /\ Return("ok", NoValue)
  /\ UNCHANGED <<live, capacity, count, parent, lock, open>>
-----------------------------------------------------------------------------
(* `c as s`: make s (or nothing) the parent of c, unless c is an ancestor  *)
(* of s, or s itself.                                                      *)

CallAs(c, s) ==
  /\ c \in live
  /\ s \in live \cup {NoCtx}
  /\ IF lock[c]
     THEN Refuse
     ELSE Begin([fn |-> "as", ctx |-> c, sub |-> s, cc |-> s])
  /\ UNCHANGED <<live, table, parent, lock, open>>

AsCycle ==
  /\ op.fn = "as"
  /\ op.cc = op.ctx
  /\ Return("cycle", NoValue)
  /\ UNCHANGED <<live, table, parent, lock, open>>

AsWalk ==
  /\ op.fn = "as"
  /\ op.cc \notin {op.ctx, NoCtx}
  /\ op' = [op EXCEPT !.cc = parent[op.cc]]
  /\ UNCHANGED <<live, table, parent, lock, open, ret>>

\* Looks only at the new parent itself, not at its ancestors.
AsSetUnwalked ==
  /\ op.fn = "as"
  /\ op.cc # op.ctx
  /\ parent' = [parent EXCEPT ![op.ctx] = op.sub]
  /\ Return("ok", NoValue)
  /\ UNCHANGED <<live, table, lock, open>>

AsSet ==
  /\ op.fn = "as"
  /\ op.cc = NoCtx
  /\ parent' = [parent EXCEPT ![op.ctx] = op.sub]
  /\ Return("ok", NoValue)
  /\ UNCHANGED <<live, table, lock, open>>
-----------------------------------------------------------------------------
(* Specification                                                           *)

\* The evaluator and the native functions start an operation.
Call ==
  \/ \E c \in Ctx, p \in Ctx \cup {NoCtx} : Context_create(c, p)
  \/ \E c, p \in Ctx : BeginObject(c, p)
  \/ EndObject
  \/ \E c \in Ctx : Lock(c)
  \/ \E c \in Ctx, k \in Key : CallGet(c, k)
  \/ \E c \in Ctx, k \in Key, v \in Value : CallSet(c, k, v)
  \/ \E c \in Ctx, k \in Key, v \in Value : CallBind(c, k, v)
  \/ \E c \in Ctx, s \in Ctx \cup {NoCtx} : CallAs(c, s)

\* The running operation takes its next step.
Step ==
  \/ GetFound
  \/ SetFound
  \/ WalkUp
  \/ Unbound
  \/ BindOverwrite
  \/ BindInsert
  \/ BindGrow
  \/ RehashSkip
  \/ RehashMove
  \/ GrowInsert
  \/ AsCycle
  \/ AsWalk
  \/ AsSet

Next == Call \/ Step

Spec == Init /\ [][Next]_vars

\* A C function that is called keeps running.
FairSpec == Spec /\ WF_vars(Step)
-----------------------------------------------------------------------------
(* Properties                                                              *)

TypeOp ==
  /\ op.fn = "idle" => op = Idle
  /\ op.fn = "get"  => op \in [fn : {"get"}, from : live, key : Key, ctx : live]
  /\ op.fn = "set"  =>
       op \in [fn : {"set"}, from : live, key : Key, val : Value, ctx : live]
  /\ op.fn = "bind" => op \in [fn : {"bind"}, ctx : live, key : Key, val : Value]
  /\ op.fn = "grow" =>
       /\ op.oldCap \in Nat \ {0}
       /\ op \in [fn : {"grow"}, ctx : live, key : Key, val : Value,
                  oldCap : {op.oldCap},
                  oldKeys : [0 .. op.oldCap - 1 -> Key \cup {Empty}],
                  oldVals : [0 .. op.oldCap - 1 -> Value \cup {NoValue}],
                  i : 0 .. op.oldCap]
       /\ capacity[op.ctx] = 2 * op.oldCap
       /\ \A i \in 0 .. op.oldCap - 1 :
            op.oldKeys[i] = Empty <=> op.oldVals[i] = NoValue
  /\ op.fn = "as"   =>
       op \in [fn : {"as"}, ctx : live, sub : live \cup {NoCtx},
               cc : live \cup {NoCtx}]
  /\ op.fn \in {"idle", "get", "set", "bind", "grow", "as"}

\* Types.  A slot of `values` is filled exactly when its key is, also while a
\* table is being rehashed, and a chain of contexts only leads to live ones.
TypeOK ==
  /\ live \subseteq Ctx
  /\ capacity \in [Ctx -> Nat \ {0}]
  /\ DOMAIN keys = Ctx
  /\ DOMAIN vals = Ctx
  /\ \A c \in Ctx :
       /\ keys[c] \in [Slot(c) -> Key \cup {Empty}]
       /\ vals[c] \in [Slot(c) -> Value \cup {NoValue}]
       /\ \A i \in Slot(c) : keys[c][i] = Empty <=> vals[c][i] = NoValue
  /\ count \in [Ctx -> Nat]
  /\ parent \in [Ctx -> live \cup {NoCtx}]
  /\ lock \in [Ctx -> BOOLEAN]
  /\ open \in Seq(live)
  /\ ret \in [res : Result, val : Value \cup {NoValue}]
  /\ TypeOp

\* No key is lost and none is stored twice: the probe for a stored key ends at
\* the one slot that holds it, also after a table has grown and while it grows.
ProbeFindsKey ==
  \A c \in Ctx : \A i \in Slot(c) :
    keys[c][i] # Empty => Hit(c, keys[c][i], i)

Occupied(c) == {i \in Slot(c) : keys[c][i] # Empty}

\* "count: strictly < capacity" (context.h): count is the number of keys, so
\* that every table has a free slot, without which no probe would end.  During
\* a rehash the count is already the final one.
CountBelowCapacity ==
  \A c \in Ctx :
    /\ count[c] < capacity[c]
    /\ ~(op.fn = "grow" /\ op.ctx = c) => count[c] = Cardinality(Occupied(c))

\* Every set of contexts has one whose parent is outside the set: the parent
\* chain never closes, so the walks of Context_get, Context_set, `as` and of
\* everything else that follows `parent` come to an end.
ParentsAcyclic ==
  \A S \in SUBSET live : S # {} => \E c \in S : parent[c] \notin S

\* A locked context keeps its bindings, its parent and its lock, whoever tries.
\* What a child sees through it can still change only by a change above it.
LockedFrozen ==
  [][\A c \in Ctx :
       lock[c] => /\ lock'[c]
                  /\ keys'[c] = keys[c]
                  /\ vals'[c] = vals[c]
                  /\ parent'[c] = parent[c]]_vars

\* Every operation comes back: no endless probe, no endless walk.
CallsReturn == (op # Idle) ~> (op = Idle)
=============================================================================

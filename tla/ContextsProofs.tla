--------------------------- MODULE ContextsProofs ---------------------------
(***************************************************************************)
(* Theorems about modules Contexts and PendingNodes, for every set of      *)
(* contexts, keys and values, every hash function and every initial        *)
(* capacity.                                                               *)
(*                                                                         *)
(* The middle part proves that the hash tables implement the maps of       *)
(* module Scopes.  Two facts carry that proof: a walk up the parents has the      *)
(* owner of the key still before it (WalkInv); and each step of a table is *)
(* no change of its map, or the one change the operation is for (the       *)
(* lemmas on Map and Halves).                                              *)
(***************************************************************************)
EXTENDS ContextsRefinement, PendingNodes, FiniteSetTheorems, SequenceTheorems,
        WellFoundedInduction, TLAPS

-----------------------------------------------------------------------------
(* Typing                                                                  *)

LEMMA TypeInit == Init => TypeOK
<1> USE ContextsAssumption
<1>1. QED
  BY DEF Init, TypeOK, TypeOp, Idle, Slot, Result

LEMMA TypeStep == TypeOK /\ [Next]_vars => TypeOK'
<1> SUFFICES ASSUME TypeOK, [Next]_vars
             PROVE  TypeOK'
  OBVIOUS
<1> USE ContextsAssumption
<1> USE DEF TypeOK, TypeOp, Slot, Idle, Result
<1>0. ASSUME op.fn = "grow", op.i < op.oldCap, op' = [op EXCEPT !.i = op.i + 1],
             UNCHANGED <<live, capacity>>
      PROVE  TypeOp'
  <2> DEFINE Rec == [fn : {"grow"}, ctx : live, key : Key, val : Value,
                     oldCap : {op.oldCap},
                     oldKeys : [0 .. op.oldCap - 1 -> Key \cup {Empty}],
                     oldVals : [0 .. op.oldCap - 1 -> Value \cup {NoValue}],
                     i : 0 .. op.oldCap]
  <2>1. op \in Rec /\ op.oldCap \in Nat \ {0}
    BY <1>0
  <2>2. op.i + 1 \in 0 .. op.oldCap
    BY <1>0, <2>1
  <2>3. /\ op' \in Rec
        /\ op'.fn = "grow"
        /\ op'.oldCap = op.oldCap
        /\ op'.ctx = op.ctx
        /\ op'.oldKeys = op.oldKeys
        /\ op'.oldVals = op.oldVals
    BY <1>0, <2>1, <2>2
  <2>4. /\ capacity[op.ctx] = 2 * op.oldCap
        /\ \A i \in 0 .. op.oldCap - 1 :
             op.oldKeys[i] = Empty <=> op.oldVals[i] = NoValue
    BY <1>0
  <2>5. QED
    BY <1>0, <2>1, <2>3, <2>4
<1>1. CASE UNCHANGED vars
  BY <1>1 DEF vars, table
<1>2. ASSUME NEW c \in Ctx, NEW p \in Ctx \cup {NoCtx}, Context_create(c, p)
      PROVE  TypeOK'
  BY <1>2 DEF Context_create, Allocate
<1>3. ASSUME NEW c \in Ctx, NEW p \in Ctx, BeginObject(c, p)
      PROVE  TypeOK'
  BY <1>3 DEF BeginObject, Allocate
<1>4. CASE EndObject
  <2>1. /\ open[Len(open)] \in live
        /\ SubSeq(open, 1, Len(open) - 1) \in Seq(live)
    BY <1>4 DEF EndObject
  <2>2. open' \in Seq(live')
    BY <1>4, <2>1 DEF EndObject
  <2>3. parent' \in [Ctx -> live' \cup {NoCtx}]
    BY <1>4, <2>1 DEF EndObject
  <2>4. op' = Idle /\ ret' \in [res : Result, val : Value \cup {NoValue}]
    BY <1>4 DEF EndObject, Return
  <2>5. UNCHANGED <<live, table, lock>>
    BY <1>4 DEF EndObject
  <2>6. QED
    BY <2>2, <2>3, <2>4, <2>5 DEF table
<1>5. ASSUME NEW c \in Ctx, Lock(c)
      PROVE  TypeOK'
  BY <1>5 DEF Lock, table, Return
<1>6. ASSUME NEW c \in Ctx, NEW k \in Key, CallGet(c, k)
      PROVE  TypeOK'
  BY <1>6 DEF CallGet, table, Begin
<1>7. ASSUME NEW c \in Ctx, NEW k \in Key, NEW v \in Value, CallSet(c, k, v)
      PROVE  TypeOK'
  BY <1>7 DEF CallSet, table, Begin
<1>8. ASSUME NEW c \in Ctx, NEW k \in Key, NEW v \in Value, CallBind(c, k, v)
      PROVE  TypeOK'
  BY <1>8 DEF CallBind, table, Begin, Refuse, Return
<1>9. ASSUME NEW c \in Ctx, NEW s \in Ctx \cup {NoCtx}, CallAs(c, s)
      PROVE  TypeOK'
  BY <1>9 DEF CallAs, table, Begin, Refuse, Return
<1>10. CASE GetFound
  BY <1>10 DEF GetFound, table, Return, Hit, ProbesTo
<1>11. CASE SetFound
  <2>1. /\ op.ctx \in live
        /\ op.key \in Key
        /\ op.val \in Value
    BY <1>11 DEF SetFound
  <2>2. PICK i \in Slot(op.ctx) :
          /\ keys[op.ctx][i] = op.key
          /\ IF lock[op.ctx]
             THEN Return("locked", NoValue) /\ UNCHANGED vals
             ELSE /\ Return("ok", NoValue)
                  /\ vals' = [vals EXCEPT ![op.ctx][i] = op.val]
    BY <1>11 DEF SetFound, Hit
  <2>3. /\ ret' \in [res : Result, val : Value \cup {NoValue}]
        /\ op' = Idle
        /\ \/ vals' = vals
           \/ vals' = [vals EXCEPT ![op.ctx][i] = op.val]
    BY <2>2 DEF Return
  <2>4. ASSUME NEW c \in Ctx
        PROVE  /\ vals'[c] \in [Slot(c) -> Value \cup {NoValue}]
               /\ \A j \in Slot(c) : keys[c][j] = Empty <=> vals'[c][j] = NoValue
    <3>1. CASE vals' = vals
      BY <3>1
    <3>2. CASE vals' = [vals EXCEPT ![op.ctx][i] = op.val]
      <4>1. op.key # Empty /\ op.val # NoValue /\ op.ctx \in Ctx
        BY <2>1
      <4>2. keys[op.ctx][i] # Empty
        BY <2>2, <4>1
      <4>3. vals'[c] = IF c = op.ctx THEN [vals[c] EXCEPT ![i] = op.val] ELSE vals[c]
        BY <3>2, <4>1
      <4>4. QED
        BY <2>1, <4>1, <4>2, <4>3
    <3>3. QED
      BY <2>3, <3>1, <3>2
  <2>5. DOMAIN vals' = Ctx
    BY <2>3
  <2>6. UNCHANGED <<live, keys, capacity, count, parent, lock, open>>
    BY <1>11 DEF SetFound
  <2>7. QED
    BY <2>3, <2>4, <2>5, <2>6
<1>12. CASE WalkUp
  BY <1>12 DEF WalkUp, table
<1>13. CASE Unbound
  BY <1>13 DEF Unbound, table, Return
<1>14. CASE BindOverwrite
  <2>1. /\ op.ctx \in live /\ op.ctx \in Ctx
        /\ op.key \in Key /\ op.key # Empty
        /\ op.val \in Value /\ op.val # NoValue
    BY <1>14 DEF BindOverwrite
  <2>2. PICK i \in Slot(op.ctx) : /\ keys[op.ctx][i] = op.key
                                  /\ vals' = [vals EXCEPT ![op.ctx][i] = op.val]
    BY <1>14 DEF BindOverwrite, Hit
  <2>3. /\ ret' \in [res : Result, val : Value \cup {NoValue}]
        /\ op' = Idle
        /\ UNCHANGED <<live, keys, capacity, count, parent, lock, open>>
    BY <1>14 DEF BindOverwrite, Return
  <2>4. ASSUME NEW c \in Ctx
        PROVE  /\ vals'[c] \in [Slot(c) -> Value \cup {NoValue}]
               /\ \A j \in Slot(c) : keys[c][j] = Empty <=> vals'[c][j] = NoValue
    <3>1. vals'[c] = IF c = op.ctx THEN [vals[c] EXCEPT ![i] = op.val] ELSE vals[c]
      BY <2>1, <2>2
    <3>2. QED
      BY <2>1, <2>2, <3>1, SMTT(20)
  <2>5. DOMAIN vals' = Ctx
    BY <2>2
  <2>6. QED
    BY <2>3, <2>4, <2>5
<1>15. CASE BindInsert
  BY <1>15 DEF BindInsert, Return
<1>16. CASE BindGrow
  BY <1>16, SMTT(30) DEF BindGrow
<1>17. CASE RehashSkip
  <2>1. op.i < op.oldCap /\ op' = [op EXCEPT !.i = op.i + 1]
    BY <1>17 DEF RehashSkip
  <2>2. TypeOp'
    BY <1>0, <1>17, <2>1 DEF RehashSkip, table
  <2>3. QED
    <3>1. UNCHANGED <<live, keys, vals, capacity, count, parent, lock, open, ret>>
      BY <1>17 DEF RehashSkip, table
    <3>2. QED
      BY <2>2, <3>1
<1>18. CASE RehashMove
  <2>1. /\ op.i \in 0 .. op.oldCap - 1
        /\ op' = [op EXCEPT !.i = op.i + 1]
        /\ op.i + 1 \in 0 .. op.oldCap
        /\ op.ctx \in live
    BY <1>18 DEF RehashMove
  <2>2. UNCHANGED <<live, capacity, count, parent, lock, open, ret>>
    BY <1>18 DEF RehashMove
  <2>3. TypeOp'
    BY <1>0, <1>18, <2>1, <2>2 DEF RehashMove
  <2>4. PICK j \in Slot(op.ctx) :
          /\ keys' = [keys EXCEPT ![op.ctx][j] = op.oldKeys[op.i]]
          /\ vals' = [vals EXCEPT ![op.ctx][j] = op.oldVals[op.i]]
    BY <1>18 DEF RehashMove
  <2>5. /\ op.oldKeys[op.i] \in Key
        /\ op.oldVals[op.i] \in Value
    BY <1>18, <2>1, SMTT(30) DEF RehashMove
  <2>6. ASSUME NEW c \in Ctx
        PROVE  /\ keys'[c] \in [Slot(c) -> Key \cup {Empty}]
               /\ vals'[c] \in [Slot(c) -> Value \cup {NoValue}]
               /\ \A i \in Slot(c) : keys'[c][i] = Empty <=> vals'[c][i] = NoValue
    BY <2>1, <2>4, <2>5
  <2>7. DOMAIN keys' = Ctx /\ DOMAIN vals' = Ctx
    BY <2>4
  <2>8. QED
    BY <2>2, <2>3, <2>6, <2>7
<1>19. CASE GrowInsert
  BY <1>19, SMTT(20) DEF GrowInsert, Return
<1>20. CASE AsCycle
  BY <1>20 DEF AsCycle, table, Return
<1>21. CASE AsWalk
  BY <1>21 DEF AsWalk, table
<1>22. CASE AsSet
  BY <1>22 DEF AsSet, table, Return
<1>23. QED
  BY <1>1, <1>2, <1>3, <1>4, <1>5, <1>6, <1>7, <1>8, <1>9, <1>10, <1>11,
     <1>12, <1>13, <1>14, <1>15, <1>16, <1>17, <1>18, <1>19, <1>20, <1>21,
     <1>22 DEF Next, Call, Step

\* Types hold in every reachable state: no step writes outside a table, and a
\* slot never has a key without a value or a value without a key.
THEOREM TypeCorrect == Spec => []TypeOK
BY TypeInit, TypeStep, PTL DEF Spec
-----------------------------------------------------------------------------
(* The parent chain                                                        *)

\* The walk of `as` up from the new parent: the contexts W it has visited do
\* not include op.ctx, and the only way out of W leads to op.cc.
AsWalkInv ==
  op.fn = "as" =>
    \E W \in SUBSET live :
      /\ op.ctx \notin W
      /\ op.sub = op.cc \/ op.sub \in W
      /\ \A w \in W : parent[w] \in W \cup {op.cc}

ChainInv == ParentsAcyclic /\ AsWalkInv

LEMMA ChainStep == TypeOK /\ TypeOK' /\ ChainInv /\ [Next]_vars => ChainInv'
<1> SUFFICES ASSUME TypeOK, TypeOK', ChainInv, [Next]_vars
             PROVE  ChainInv'
  OBVIOUS
<1> USE ContextsAssumption
<1>1. ASSUME NEW c \in Ctx, NEW p \in live \cup {NoCtx}, Allocate(c, p)
      PROVE  ChainInv'
  <2>1. /\ live' = live \cup {c}
        /\ parent' = [parent EXCEPT ![c] = p]
        /\ op'.fn = "idle"
        /\ c \notin live
    BY <1>1 DEF Allocate, Idle
  <2>2. ASSUME NEW S \in SUBSET live', S # {}
        PROVE  \E x \in S : parent'[x] \notin S
    <3>1. CASE S \cap live = {}
      <4>1. S = {c}
        BY <2>1, <2>2, <3>1
      <4>2. parent'[c] # c
        BY <2>1 DEF TypeOK
      <4>3. QED
        BY <4>1, <4>2
    <3>2. CASE S \cap live # {}
      <4>1. PICK x \in S \cap live : parent[x] \notin S \cap live
        BY <3>2 DEF ChainInv, ParentsAcyclic
      <4>2. parent'[x] = parent[x] /\ parent[x] \in live \cup {NoCtx}
        BY <2>1, <4>1 DEF TypeOK
      <4>3. NoCtx \notin S
        BY <2>1 DEF TypeOK
      <4>4. QED
        BY <4>1, <4>2, <4>3
    <3>3. QED
      BY <3>1, <3>2
  <2>3. QED
    BY <2>1, <2>2 DEF ChainInv, ParentsAcyclic, AsWalkInv
<1>2. ASSUME UNCHANGED <<live, parent>>, op'.fn # "as" \/ op' = op
      PROVE  ChainInv'
  BY <1>2 DEF ChainInv, ParentsAcyclic, AsWalkInv
<1>3. CASE UNCHANGED vars
  BY <1>2, <1>3 DEF vars
<1>4. CASE Call
  <2>1. ASSUME NEW c \in Ctx, NEW p \in Ctx \cup {NoCtx}, Context_create(c, p)
        PROVE  ChainInv'
    BY <1>1, <2>1 DEF Context_create
  <2>2. ASSUME NEW c \in Ctx, NEW p \in Ctx, BeginObject(c, p)
        PROVE  ChainInv'
    BY <1>1, <2>2 DEF BeginObject
  <2>3. CASE EndObject
    <3>0. open[Len(open)] \in Ctx
      BY <2>3 DEF EndObject, TypeOK
    <3>1. PICK c \in Ctx : parent' = [parent EXCEPT ![c] = NoCtx] \/ parent' = parent
      BY <2>3, <3>0 DEF EndObject
    <3>2. live' = live /\ op'.fn = "idle"
      BY <2>3 DEF EndObject, Return, Idle
    <3>3. ASSUME NEW S \in SUBSET live, S # {}
          PROVE  \E x \in S : parent'[x] \notin S
      <4>1. PICK x \in S : parent[x] \notin S
        BY <3>3 DEF ChainInv, ParentsAcyclic
      <4>2. NoCtx \notin S
        BY DEF TypeOK
      <4>3. parent'[x] = parent[x] \/ parent'[x] = NoCtx
        BY <3>1, <4>1 DEF TypeOK
      <4>4. QED
        BY <4>1, <4>2, <4>3
    <3>4. QED
      BY <3>2, <3>3 DEF ChainInv, ParentsAcyclic, AsWalkInv
  <2>4. ASSUME NEW c \in Ctx, Lock(c)
        PROVE  ChainInv'
    BY <1>2, <2>4 DEF Lock, Return, Idle
  <2>5. ASSUME NEW c \in Ctx, NEW k \in Key, CallGet(c, k)
        PROVE  ChainInv'
    BY <1>2, <2>5 DEF CallGet, Begin
  <2>6. ASSUME NEW c \in Ctx, NEW k \in Key, NEW v \in Value, CallSet(c, k, v)
        PROVE  ChainInv'
    BY <1>2, <2>6 DEF CallSet, Begin
  <2>7. ASSUME NEW c \in Ctx, NEW k \in Key, NEW v \in Value, CallBind(c, k, v)
        PROVE  ChainInv'
    BY <1>2, <2>7 DEF CallBind, Begin, Refuse, Return, Idle
  <2>8. ASSUME NEW c \in Ctx, NEW s \in Ctx \cup {NoCtx}, CallAs(c, s)
        PROVE  ChainInv'
    <3>1. CASE lock[c]
      BY <1>2, <2>8, <3>1 DEF CallAs, Refuse, Return, Idle
    <3>2. CASE ~lock[c]
      <4>1. /\ op' = [fn |-> "as", ctx |-> c, sub |-> s, cc |-> s]
            /\ live' = live /\ parent' = parent
        BY <2>8, <3>2 DEF CallAs, Begin
      <4>2. AsWalkInv'
        <5>1. /\ op'.ctx \notin {}
              /\ op'.sub = op'.cc
              /\ {} \in SUBSET live'
          BY <4>1
        <5>2. QED
          BY <5>1 DEF AsWalkInv
      <4>3. QED
        BY <4>1, <4>2 DEF ChainInv, ParentsAcyclic
    <3>3. QED
      BY <3>1, <3>2
  <2>9. QED
    BY <1>4, <2>1, <2>2, <2>3, <2>4, <2>5, <2>6, <2>7, <2>8 DEF Call
<1>5. CASE AsWalk
  <2>1. /\ op.fn = "as" /\ op.cc # op.ctx /\ op.cc \in live /\ op.sub \in live \cup {NoCtx}
        /\ op'.fn = "as" /\ op'.ctx = op.ctx /\ op'.sub = op.sub
        /\ op'.cc = parent[op.cc]
        /\ live' = live /\ parent' = parent
    BY <1>5 DEF AsWalk, TypeOK, TypeOp
  <2>2. PICK W \in SUBSET live : /\ op.ctx \notin W
                                 /\ op.sub = op.cc \/ op.sub \in W
                                 /\ \A w \in W : parent[w] \in W \cup {op.cc}
    BY <2>1 DEF ChainInv, AsWalkInv
  <2>3. /\ W \cup {op.cc} \in SUBSET live'
        /\ op'.ctx \notin W \cup {op.cc}
        /\ op'.sub \in W \cup {op.cc}
        /\ \A w \in W \cup {op.cc} : parent'[w] \in (W \cup {op.cc}) \cup {op'.cc}
    BY <2>1, <2>2
  <2>4. QED
    BY <2>1, <2>3 DEF ChainInv, ParentsAcyclic, AsWalkInv
<1>6. CASE AsSet
  <2>1. /\ op.fn = "as" /\ op.cc = NoCtx /\ op.ctx \in live
        /\ op.sub \in live \cup {NoCtx}
        /\ parent' = [parent EXCEPT ![op.ctx] = op.sub]
        /\ live' = live /\ op'.fn = "idle"
    BY <1>6 DEF AsSet, TypeOK, TypeOp, Return, Idle
  <2>2. PICK W \in SUBSET live : /\ op.ctx \notin W
                                 /\ op.sub = NoCtx \/ op.sub \in W
                                 /\ \A w \in W : parent[w] \in W \cup {NoCtx}
    BY <2>1 DEF ChainInv, AsWalkInv
  <2>3. ASSUME NEW S \in SUBSET live, S # {}
        PROVE  \E x \in S : parent'[x] \notin S
    <3>0. NoCtx \notin S
      BY DEF TypeOK
    <3>1. CASE S \cap W # {}
      <4>1. PICK x \in S \cap W : parent[x] \notin S \cap W
        BY <3>1 DEF ChainInv, ParentsAcyclic
      <4>2. parent'[x] = parent[x] /\ parent[x] \in W \cup {NoCtx}
        BY <2>1, <2>2, <4>1 DEF TypeOK
      <4>3. QED
        BY <3>0, <4>1, <4>2
    <3>2. CASE S \cap W = {} /\ op.ctx \in S
      <4>1. parent'[op.ctx] = op.sub
        BY <2>1 DEF TypeOK
      <4>2. QED
        BY <2>2, <3>0, <3>2, <4>1
    <3>3. CASE op.ctx \notin S
      <4>1. PICK x \in S : parent[x] \notin S
        BY <2>3 DEF ChainInv, ParentsAcyclic
      <4>2. QED
        BY <2>1, <3>3, <4>1 DEF TypeOK
    <3>4. QED
      BY <3>1, <3>2, <3>3
  <2>4. QED
    BY <2>1, <2>3 DEF ChainInv, ParentsAcyclic, AsWalkInv
<1>7. CASE Step /\ ~AsWalk /\ ~AsSet
  <2>1. UNCHANGED <<live, parent>> /\ op'.fn # "as"
    <3>1. CASE \/ GetFound \/ Unbound \/ BindOverwrite \/ BindInsert
               \/ GrowInsert \/ AsCycle
      BY <3>1 DEF GetFound, Unbound, BindOverwrite, BindInsert,
        GrowInsert, AsCycle, Return, Idle
    <3>2. CASE SetFound
      BY <3>2 DEF SetFound, Return, Idle
    <3>3. CASE BindGrow
      BY <3>3 DEF BindGrow
    <3>4. CASE WalkUp
      BY <3>4 DEF WalkUp, TypeOK, TypeOp
    <3>5. CASE RehashSkip
      BY <3>5 DEF RehashSkip, TypeOK, TypeOp
    <3>6. CASE RehashMove
      BY <3>6 DEF RehashMove, TypeOK, TypeOp
    <3>7. QED
      BY <1>7, <3>1, <3>2, <3>3, <3>4, <3>5, <3>6 DEF Step
  <2>2. QED
    BY <1>2, <2>1
<1>8. QED
  BY <1>3, <1>4, <1>5, <1>6, <1>7 DEF Next

\* `as` never closes the parent chain, and neither do object literals or the
\* creation of contexts: every walk up the chain ends.
THEOREM ChainsEnd == Spec => []ParentsAcyclic
<1>1. Init => ChainInv
  BY DEF Init, ChainInv, ParentsAcyclic, AsWalkInv, Idle
<1>2. ChainInv => ParentsAcyclic
  BY DEF ChainInv
<1>3. QED
  BY <1>1, <1>2, TypeCorrect, ChainStep, PTL DEF Spec

-----------------------------------------------------------------------------
(* Locks                                                                   *)

\* The lock is tested when an operation that writes starts; it cannot be set
\* before the operation is over.
LockInv ==
  /\ \A c \in Ctx \ live : ~lock[c]
  /\ op.fn \in {"bind", "grow", "as"} => ~lock[op.ctx]

\* What a step may do to a locked context.
Frozen(c) ==
  lock[c] => /\ lock'[c]
             /\ keys'[c] = keys[c]
             /\ vals'[c] = vals[c]
             /\ parent'[c] = parent[c]

LEMMA LockStep ==
  TypeOK /\ LockInv /\ [Next]_vars => LockInv' /\ \A c \in Ctx : Frozen(c)
<1> SUFFICES ASSUME TypeOK, LockInv, [Next]_vars
             PROVE  LockInv' /\ \A c \in Ctx : Frozen(c)
  OBVIOUS
<1> USE ContextsAssumption DEF Frozen
<1> DEFINE Goal == LockInv' /\ \A c \in Ctx : Frozen(c)
<1>1. ASSUME NEW c \in Ctx, NEW p \in live \cup {NoCtx}, Allocate(c, p)
      PROVE  Goal
  BY <1>1 DEF Allocate, LockInv, TypeOK, Idle
\* A step that writes no context and keeps op, or ends it, or starts a read.
<1>2. ASSUME UNCHANGED <<live, keys, vals, parent, lock>>,
             op'.fn \in {"idle", "get", "set"} \/ (op'.fn = op.fn /\ op'.ctx = op.ctx)
      PROVE  Goal
  BY <1>2 DEF LockInv
\* A step of an operation that writes to op.ctx, which is not locked.
<1>3. ASSUME op.ctx \in live, ~lock[op.ctx], UNCHANGED <<live, lock>>,
             \A c \in Ctx \ {op.ctx} : /\ keys'[c] = keys[c]
                                       /\ vals'[c] = vals[c]
                                       /\ parent'[c] = parent[c],
             op'.fn = "idle" \/ (op'.fn = "grow" /\ op'.ctx = op.ctx)
      PROVE  Goal
  BY <1>3 DEF LockInv
<1>4. CASE UNCHANGED vars
  BY <1>4 DEF vars, LockInv
<1>5. CASE Call
  <2>1. ASSUME NEW c \in Ctx, NEW p \in Ctx \cup {NoCtx}, Context_create(c, p)
        PROVE  Goal
    BY <1>1, <2>1 DEF Context_create
  <2>2. ASSUME NEW c \in Ctx, NEW p \in Ctx, BeginObject(c, p)
        PROVE  Goal
    BY <1>1, <2>2 DEF BeginObject
  <2>3. CASE EndObject
    <3>1. PICK c \in live : c = open[Len(open)]
      BY <2>3 DEF EndObject, TypeOK
    <3>2. /\ UNCHANGED <<live, keys, vals, lock>>
          /\ op'.fn = "idle"
          /\ IF lock[c] THEN UNCHANGED parent
                        ELSE parent' = [parent EXCEPT ![c] = NoCtx]
      BY <2>3, <3>1 DEF EndObject, Return, Idle, table
    <3>3. QED
      BY <3>1, <3>2 DEF LockInv, TypeOK
  <2>4. ASSUME NEW c \in Ctx, Lock(c)
        PROVE  Goal
    BY <2>4 DEF Lock, Return, Idle, table, LockInv, TypeOK
  <2>5. ASSUME NEW c \in Ctx, NEW k \in Key, CallGet(c, k)
        PROVE  Goal
    BY <1>2, <2>5 DEF CallGet, Begin, table
  <2>6. ASSUME NEW c \in Ctx, NEW k \in Key, NEW v \in Value, CallSet(c, k, v)
        PROVE  Goal
    BY <1>2, <2>6 DEF CallSet, Begin, table
  <2>7. ASSUME NEW c \in Ctx, NEW k \in Key, NEW v \in Value, CallBind(c, k, v)
        PROVE  Goal
    BY <2>7 DEF CallBind, Begin, Refuse, Return, Idle, table, LockInv
  <2>8. ASSUME NEW c \in Ctx, NEW s \in Ctx \cup {NoCtx}, CallAs(c, s)
        PROVE  Goal
    BY <2>8 DEF CallAs, Begin, Refuse, Return, Idle, table, LockInv
  <2>9. QED
    BY <1>5, <2>1, <2>2, <2>3, <2>4, <2>5, <2>6, <2>7, <2>8 DEF Call
<1>6. CASE Step
  <2>1. CASE GetFound \/ Unbound \/ AsCycle
    BY <1>2, <2>1 DEF GetFound, Unbound, AsCycle, Return, Idle, table
  <2>2. CASE WalkUp
    BY <1>2, <2>2 DEF WalkUp, table, TypeOK, TypeOp
  <2>3. CASE AsWalk
    BY <1>2, <2>3 DEF AsWalk, table, TypeOK, TypeOp
  <2>4. CASE RehashSkip
    BY <1>2, <2>4 DEF RehashSkip, table, TypeOK, TypeOp
  <2>5. CASE SetFound
    <3>1. CASE lock[op.ctx]
      BY <1>2, <2>5, <3>1 DEF SetFound, Return, Idle
    <3>2. CASE ~lock[op.ctx]
      <4>1. /\ op.ctx \in live
            /\ UNCHANGED <<live, keys, lock, parent>>
            /\ op'.fn = "idle"
        BY <2>5, <3>2 DEF SetFound, Return, Idle, TypeOK, TypeOp
      <4>2. PICK i \in Slot(op.ctx) : vals' = [vals EXCEPT ![op.ctx][i] = op.val]
        BY <2>5, <3>2 DEF SetFound
      <4>3. QED
        BY <1>3, <3>2, <4>1, <4>2 DEF TypeOK
    <3>3. QED
      BY <3>1, <3>2
  <2>6. CASE BindOverwrite \/ BindInsert
    <3>1. /\ op.ctx \in live /\ ~lock[op.ctx]
          /\ UNCHANGED <<live, lock, parent>>
          /\ op'.fn = "idle"
      BY <2>6 DEF BindOverwrite, BindInsert, Return, Idle, TypeOK, TypeOp, LockInv
    <3>2. PICK i \in Slot(op.ctx) :
            /\ keys' = keys \/ keys' = [keys EXCEPT ![op.ctx][i] = op.key]
            /\ vals' = [vals EXCEPT ![op.ctx][i] = op.val]
      BY <2>6 DEF BindOverwrite, BindInsert
    <3>3. QED
      BY <1>3, <3>1, <3>2 DEF TypeOK
  <2>7. CASE BindGrow
    <3>1. /\ op.ctx \in live /\ ~lock[op.ctx]
          /\ UNCHANGED <<live, lock, parent>>
          /\ op'.fn = "grow" /\ op'.ctx = op.ctx
      BY <2>7 DEF BindGrow, TypeOK, TypeOp, LockInv
    <3>2. \A c \in Ctx \ {op.ctx} : keys'[c] = keys[c] /\ vals'[c] = vals[c]
      BY <2>7 DEF BindGrow, TypeOK
    <3>3. QED
      BY <1>3, <3>1, <3>2
  <2>8. CASE RehashMove
    <3>1. /\ op.ctx \in live /\ ~lock[op.ctx]
          /\ UNCHANGED <<live, lock, parent>>
          /\ op'.fn = "grow" /\ op'.ctx = op.ctx
      BY <2>8 DEF RehashMove, TypeOK, TypeOp, LockInv
    <3>2. \A c \in Ctx \ {op.ctx} : keys'[c] = keys[c] /\ vals'[c] = vals[c]
      BY <2>8 DEF RehashMove, TypeOK
    <3>3. QED
      BY <1>3, <3>1, <3>2
  <2>9. CASE GrowInsert
    <3>1. /\ op.ctx \in live /\ ~lock[op.ctx]
          /\ UNCHANGED <<live, lock, parent>>
          /\ op'.fn = "idle"
      BY <2>9 DEF GrowInsert, Return, Idle, TypeOK, TypeOp, LockInv
    <3>2. \A c \in Ctx \ {op.ctx} : keys'[c] = keys[c] /\ vals'[c] = vals[c]
      BY <2>9 DEF GrowInsert, TypeOK
    <3>3. QED
      BY <1>3, <3>1, <3>2
  <2>10. CASE AsSet
    <3>1. /\ op.ctx \in live /\ ~lock[op.ctx]
          /\ UNCHANGED <<live, lock, keys, vals>>
          /\ op'.fn = "idle"
          /\ parent' = [parent EXCEPT ![op.ctx] = op.sub]
      BY <2>10 DEF AsSet, table, Return, Idle, TypeOK, TypeOp, LockInv
    <3>2. QED
      BY <1>3, <3>1 DEF TypeOK
  <2>11. QED
    BY <1>6, <2>1, <2>2, <2>3, <2>4, <2>5, <2>6, <2>7, <2>8, <2>9, <2>10 DEF Step
<1>7. QED
  BY <1>4, <1>5, <1>6 DEF Next

\* No operation changes the bindings, the parent or the lock of a locked
\* context, however it is reached.
THEOREM LockedStaysFrozen == Spec => LockedFrozen
<1>1. Init => LockInv
  BY DEF Init, LockInv, Idle
<1>2. TypeOK /\ LockInv /\ [Next]_vars
        => [\A c \in Ctx : Frozen(c)]_vars
  BY LockStep
<1>3. TypeOK /\ LockInv /\ [Next]_vars => LockInv'
  BY LockStep
<1>4. QED
  BY <1>1, <1>2, <1>3, TypeCorrect, PTL DEF Spec, LockedFrozen, Frozen
-----------------------------------------------------------------------------
(* Tables keep every key findable and never fill up, for every hash        *)
(* function, every capacity and any number of rehashes.                    *)

-----------------------------------------------------------------------------
(* Facts about one table                                                   *)

IsTable(tab, cap) == tab \in [0 .. cap - 1 -> Key \cup {Empty}]

\* Every key in the table is where the probe for it ends.
Findable(tab, cap) ==
  \A i \in 0 .. cap - 1 :
    tab[i] # Empty => ProbesTo(tab, cap, tab[i], {Empty, tab[i]}, i)

Occ(tab, cap) == {i \in 0 .. cap - 1 : tab[i] # Empty}

\* A probe stays in the table.
LEMMA AtInTable ==
  ASSUME NEW k \in Key, NEW d \in Nat, NEW cap \in Nat \ {0}
  PROVE  At(k, d, cap) \in 0 .. cap - 1
<1>1. Hash[k] + d \in Nat
  BY ContextsAssumption
<1>2. QED
  BY <1>1 DEF At

\* A probe ends at one slot.
LEMMA ProbeUnique ==
  ASSUME NEW tab, NEW cap \in Nat \ {0}, NEW k \in Key, NEW stop, NEW i, NEW j,
         ProbesTo(tab, cap, k, stop, i), ProbesTo(tab, cap, k, stop, j)
  PROVE  i = j
<1>1. PICK d \in 0 .. cap - 1 : /\ i = At(k, d, cap)
                                /\ tab[i] \in stop
                                /\ \A e \in 0 .. d - 1 : tab[At(k, e, cap)] \notin stop
  BY DEF ProbesTo
<1>2. PICK f \in 0 .. cap - 1 : /\ j = At(k, f, cap)
                                /\ tab[j] \in stop
                                /\ \A e \in 0 .. f - 1 : tab[At(k, e, cap)] \notin stop
  BY DEF ProbesTo
<1>3. ~(d < f) /\ ~(f < d)
  BY <1>1, <1>2
<1>4. d = f
  BY <1>3
<1>5. QED
  BY <1>1, <1>2, <1>4

\* If the probe for k ends at a free slot, k is not in the table.
LEMMA MissAbsent ==
  ASSUME NEW cap \in Nat \ {0}, NEW tab, IsTable(tab, cap), Findable(tab, cap),
         NEW k \in Key, NEW i \in 0 .. cap - 1,
         ProbesTo(tab, cap, k, {Empty, k}, i), tab[i] = Empty
  PROVE  \A j \in 0 .. cap - 1 : tab[j] # k
<1> SUFFICES ASSUME NEW j \in 0 .. cap - 1, tab[j] = k
             PROVE  FALSE
  OBVIOUS
<1>1. k # Empty
  BY ContextsAssumption
<1>2. ProbesTo(tab, cap, k, {Empty, k}, j)
  BY <1>1 DEF Findable
<1>3. i = j
  BY <1>2, ProbeUnique
<1>4. QED
  BY <1>1, <1>3

\* No key is stored twice.
LEMMA NoDuplicate ==
  ASSUME NEW cap \in Nat \ {0}, NEW tab, IsTable(tab, cap), Findable(tab, cap),
         NEW i \in 0 .. cap - 1, NEW j \in 0 .. cap - 1,
         tab[i] = tab[j], tab[i] # Empty
  PROVE  i = j
<1>1. tab[i] \in Key
  BY DEF IsTable
<1>2. /\ ProbesTo(tab, cap, tab[i], {Empty, tab[i]}, i)
      /\ ProbesTo(tab, cap, tab[i], {Empty, tab[i]}, j)
  BY DEF Findable
<1>3. QED
  BY <1>1, <1>2, ProbeUnique

\* A new key put where its probe ends is found, and hides no other key.
LEMMA FillFindable ==
  ASSUME NEW cap \in Nat \ {0}, NEW tab, IsTable(tab, cap), Findable(tab, cap),
         NEW k \in Key, \A i \in 0 .. cap - 1 : tab[i] # k,
         NEW stop, Empty \in stop,
         NEW j \in 0 .. cap - 1, ProbesTo(tab, cap, k, stop, j), tab[j] = Empty,
         NEW new, new = [tab EXCEPT ![j] = k]
  PROVE  IsTable(new, cap) /\ Findable(new, cap)
<1>1. k # Empty
  BY ContextsAssumption
<1>2. IsTable(new, cap)
  BY DEF IsTable
<1>3. /\ new[j] = k
      /\ \A i \in 0 .. cap - 1 : i # j => new[i] = tab[i]
  BY DEF IsTable
<1>4. ASSUME NEW i \in 0 .. cap - 1, new[i] # Empty
      PROVE  ProbesTo(new, cap, new[i], {Empty, new[i]}, i)
  <2>1. CASE i = j
    <3>1. PICK d \in 0 .. cap - 1 :
            /\ j = At(k, d, cap)
            /\ \A e \in 0 .. d - 1 : tab[At(k, e, cap)] \notin stop
      BY DEF ProbesTo
    <3>2. ASSUME NEW e \in 0 .. d - 1
          PROVE  new[At(k, e, cap)] \notin {Empty, k}
      <4>1. At(k, e, cap) \in 0 .. cap - 1
        BY AtInTable
      <4>2. tab[At(k, e, cap)] # Empty
        BY <3>1
      <4>3. At(k, e, cap) # j
        BY <4>2
      <4>4. QED
        BY <1>3, <4>1, <4>2, <4>3
    <3>3. QED
      BY <1>3, <2>1, <3>1, <3>2 DEF ProbesTo
  <2>2. CASE i # j
    <3> DEFINE x == tab[i]
    <3>1. new[i] = x /\ x # Empty /\ x \in Key /\ x # k
      BY <1>3, <1>4, <2>2 DEF IsTable
    <3>2. PICK d \in 0 .. cap - 1 :
            /\ i = At(x, d, cap)
            /\ \A e \in 0 .. d - 1 : tab[At(x, e, cap)] \notin {Empty, x}
      BY <3>1 DEF Findable, ProbesTo
    <3>3. ASSUME NEW e \in 0 .. d - 1
          PROVE  new[At(x, e, cap)] \notin {Empty, x}
      <4>1. At(x, e, cap) \in 0 .. cap - 1
        BY <3>1, AtInTable
      <4>2. CASE At(x, e, cap) = j
        BY <1>1, <1>3, <3>1, <4>2
      <4>3. CASE At(x, e, cap) # j
        BY <1>3, <3>2, <4>1, <4>3
      <4>4. QED
        BY <4>2, <4>3
    <3>4. new[i] \in {Empty, x}
      BY <3>1
    <3>5. ProbesTo(new, cap, x, {Empty, x}, i)
      BY <3>2, <3>3, <3>4 DEF ProbesTo
    <3>6. QED
      BY <3>1, <3>5
  <2>3. QED
    BY <2>1, <2>2
<1>5. QED
  BY <1>2, <1>4 DEF Findable

\* The occupied slots are finitely many, and filling a free one adds one.
LEMMA FillCount ==
  ASSUME NEW cap \in Nat \ {0}, NEW tab, IsTable(tab, cap),
         NEW k \in Key, NEW j \in 0 .. cap - 1, tab[j] = Empty,
         NEW new, new = [tab EXCEPT ![j] = k]
  PROVE  /\ IsFiniteSet(Occ(tab, cap))
         /\ Cardinality(Occ(tab, cap)) \in Nat
         /\ Cardinality(Occ(new, cap)) = Cardinality(Occ(tab, cap)) + 1
<1>1. IsFiniteSet(0 .. cap - 1)
  BY FS_Interval
<1>2. IsFiniteSet(Occ(tab, cap))
  BY <1>1, FS_Subset DEF Occ
<1>3. k # Empty
  BY ContextsAssumption
<1>4. /\ Occ(new, cap) = Occ(tab, cap) \cup {j}
      /\ j \notin Occ(tab, cap)
  BY <1>3 DEF Occ, IsTable
<1>5. QED
  BY <1>2, <1>4, FS_AddElement, FS_CardinalityType

-----------------------------------------------------------------------------
(* The invariant                                                           *)

\* The old slots that the rehash has still to move.
Rest == {j \in op.i .. op.oldCap - 1 : op.oldKeys[j] # Empty}

\* While a table grows: the key to be added and the keys still to be moved are
\* in neither the new table nor twice in the old one, and the three groups
\* together make up the count, which is the old capacity.
GrowInv ==
  op.fn = "grow" =>
    /\ \A i \in 0 .. op.oldCap - 1 : op.oldKeys[i] # op.key
    /\ \A i, j \in 0 .. op.oldCap - 1 :
         op.oldKeys[i] = op.oldKeys[j] /\ op.oldKeys[i] # Empty => i = j
    /\ \A s \in Slot(op.ctx), j \in op.i .. op.oldCap - 1 :
         keys[op.ctx][s] # Empty => keys[op.ctx][s] # op.oldKeys[j]
    /\ \A s \in Slot(op.ctx) : keys[op.ctx][s] # op.key
    /\ count[op.ctx] = op.oldCap
    /\ Cardinality(Occupied(op.ctx)) + Cardinality(Rest) + 1 = op.oldCap

TablesFindable == \A c \in Ctx : Findable(keys[c], capacity[c])

TableInv == TablesFindable /\ CountBelowCapacity /\ GrowInv

LEMMA TypedTables ==
  ASSUME TypeOK, NEW c \in Ctx
  PROVE  /\ capacity[c] \in Nat \ {0}
         /\ count[c] \in Nat
         /\ IsTable(keys[c], capacity[c])
         /\ Occupied(c) = Occ(keys[c], capacity[c])
         /\ Cardinality(Occupied(c)) \in Nat
<1>1. capacity[c] \in Nat \ {0} /\ count[c] \in Nat
  BY DEF TypeOK
<1>2. IsFiniteSet(0 .. capacity[c] - 1)
  <2>1. 0 \in Int /\ capacity[c] - 1 \in Int
    BY <1>1
  <2>2. QED
    BY <2>1, FS_Interval
<1>3. Cardinality(Occupied(c)) \in Nat
  BY <1>2, FS_Subset, FS_CardinalityType DEF Occupied, Slot
<1>4. QED
  BY <1>1, <1>3 DEF TypeOK, IsTable, Slot, Occupied, Occ

\* A step that leaves keys, capacities and counts alone and is not part of a
\* rehash.
LEMMA NoTableChange ==
  ASSUME TypeOK, TableInv, UNCHANGED <<keys, capacity, count>>,
         op.fn # "grow", op'.fn # "grow"
  PROVE  TableInv'
BY DEF TableInv, TablesFindable, CountBelowCapacity, GrowInv, Occupied, Slot

\* A fresh table is empty.
LEMMA AllocateTable ==
  ASSUME TypeOK, TableInv, NEW c \in Ctx, NEW p, Allocate(c, p)
  PROVE  TableInv'
<1> USE ContextsAssumption
<1>1. /\ keys' = [keys EXCEPT ![c] = [i \in 0 .. StartCap - 1 |-> Empty]]
      /\ capacity' = [capacity EXCEPT ![c] = StartCap]
      /\ count' = [count EXCEPT ![c] = 0]
      /\ op = Idle /\ op' = Idle
  BY DEF Allocate
<1>2. /\ keys'[c] = [i \in 0 .. StartCap - 1 |-> Empty]
      /\ capacity'[c] = StartCap
      /\ count'[c] = 0
      /\ \A x \in Ctx \ {c} : /\ keys'[x] = keys[x]
                              /\ capacity'[x] = capacity[x]
                              /\ count'[x] = count[x]
  BY <1>1 DEF TypeOK
<1>3. Occupied(c)' = {}
  BY <1>2 DEF Occupied, Slot
<1>4. Findable(keys'[c], capacity'[c])
  BY <1>2 DEF Findable
<1>5. Cardinality({}) = 0
  BY FS_EmptySet
<1>6. TablesFindable'
  BY <1>2, <1>4 DEF TableInv, TablesFindable
<1>7. CountBelowCapacity'
  <2>1. count'[c] < capacity'[c] /\ count'[c] = Cardinality(Occupied(c)')
    BY <1>2, <1>3, <1>5
  <2>2. \A x \in Ctx \ {c} : count'[x] < capacity'[x] /\ count'[x] = Cardinality(Occupied(x)')
    BY <1>1, <1>2 DEF TableInv, CountBelowCapacity, Occupied, Slot, Idle
  <2>3. QED
    BY <2>1, <2>2 DEF CountBelowCapacity
<1>8. QED
  BY <1>1, <1>6, <1>7 DEF TableInv, GrowInv, Idle

\* A key is added to a table that stays below its capacity.
LEMMA BindInsertTable ==
  ASSUME TypeOK, TableInv, BindInsert
  PROVE  TableInv'
<1>0. PICK c \in Ctx : c = op.ctx
  BY DEF BindInsert, TypeOK, TypeOp
<1>1. /\ op.key \in Key /\ op.fn = "bind"
      /\ count[c] + 1 # capacity[c]
      /\ capacity' = capacity
      /\ count' = [count EXCEPT ![c] = @ + 1]
      /\ op' = Idle
  BY <1>0 DEF BindInsert, MustGrow, Return, TypeOK, TypeOp
<1>2. PICK i \in Slot(c) : Miss(c, op.key, i) /\ keys' = [keys EXCEPT ![c][i] = op.key]
  BY <1>0 DEF BindInsert
<1>3. /\ capacity[c] \in Nat \ {0}
      /\ IsTable(keys[c], capacity[c])
      /\ Findable(keys[c], capacity[c])
      /\ i \in 0 .. capacity[c] - 1
      /\ keys[c][i] = Empty
      /\ ProbesTo(keys[c], capacity[c], op.key, {Empty, op.key}, i)
  BY <1>1, <1>2, TypedTables DEF TableInv, TablesFindable, Miss, Slot
<1>4. /\ keys'[c] = [keys[c] EXCEPT ![i] = op.key]
      /\ count'[c] = count[c] + 1
      /\ \A x \in Ctx \ {c} : keys'[x] = keys[x] /\ count'[x] = count[x]
  BY <1>1, <1>2 DEF TypeOK
<1>5. \A j \in 0 .. capacity[c] - 1 : keys[c][j] # op.key
  BY <1>1, <1>3, MissAbsent
<1>6. Findable(keys'[c], capacity'[c])
  BY <1>1, <1>3, <1>4, <1>5, FillFindable
<1>7. Cardinality(Occ(keys'[c], capacity[c])) = Cardinality(Occ(keys[c], capacity[c])) + 1
  BY <1>1, <1>3, <1>4, FillCount
<1>8. Occupied(c)' = Occ(keys'[c], capacity[c]) /\ Occupied(c) = Occ(keys[c], capacity[c])
  BY <1>1 DEF Occupied, Occ, Slot
<1>9. count[c] = Cardinality(Occupied(c)) /\ count[c] < capacity[c] /\ count[c] \in Nat
  BY <1>1, TypedTables DEF TableInv, CountBelowCapacity
<1>10. count'[c] = Cardinality(Occupied(c)') /\ count'[c] < capacity'[c]
  BY <1>1, <1>3, <1>4, <1>7, <1>8, <1>9
<1>11. TablesFindable'
  BY <1>1, <1>4, <1>6 DEF TableInv, TablesFindable
<1>12. \A x \in Ctx \ {c} : count'[x] < capacity'[x] /\ count'[x] = Cardinality(Occupied(x)')
  BY <1>1, <1>4 DEF TableInv, CountBelowCapacity, Occupied, Slot
<1>13. CountBelowCapacity'
  BY <1>10, <1>12 DEF CountBelowCapacity
<1>14. QED
  BY <1>1, <1>11, <1>13 DEF TableInv, GrowInv, Idle

\* The full table becomes the old one: everything in it is still to be moved.
LEMMA BindGrowTable ==
  ASSUME TypeOK, TableInv, BindGrow
  PROVE  TableInv'
<1>0. PICK c \in Ctx : c = op.ctx
  BY DEF BindGrow, TypeOK, TypeOp
<1> DEFINE cap == 2 * capacity[c]
<1>1. /\ op.key \in Key /\ op.fn = "bind"
      /\ count[c] + 1 = capacity[c]
      /\ count' = [count EXCEPT ![c] = @ + 1]
      /\ capacity' = [capacity EXCEPT ![c] = cap]
      /\ keys' = [keys EXCEPT ![c] = [i \in 0 .. cap - 1 |-> Empty]]
      /\ op'.fn = "grow" /\ op'.ctx = c /\ op'.key = op.key
      /\ op'.oldCap = capacity[c] /\ op'.oldKeys = keys[c] /\ op'.i = 0
  BY <1>0 DEF BindGrow, MustGrow, TypeOK, TypeOp
<1>2. PICK i \in Slot(c) : Miss(c, op.key, i)
  BY <1>0 DEF BindGrow
<1>3. /\ capacity[c] \in Nat \ {0}
      /\ count[c] \in Nat
      /\ IsTable(keys[c], capacity[c])
      /\ Findable(keys[c], capacity[c])
      /\ i \in 0 .. capacity[c] - 1
      /\ keys[c][i] = Empty
      /\ ProbesTo(keys[c], capacity[c], op.key, {Empty, op.key}, i)
  BY <1>1, <1>2, TypedTables DEF TableInv, TablesFindable, Miss, Slot
<1>4. /\ keys'[c] = [j \in 0 .. cap - 1 |-> Empty]
      /\ capacity'[c] = cap
      /\ count'[c] = count[c] + 1
      /\ \A x \in Ctx \ {c} : /\ keys'[x] = keys[x]
                              /\ count'[x] = count[x]
                              /\ capacity'[x] = capacity[x]
  BY <1>1 DEF TypeOK
<1>5. \A j \in 0 .. capacity[c] - 1 : keys[c][j] # op.key
  BY <1>1, <1>3, MissAbsent
<1>6. \A j, l \in 0 .. capacity[c] - 1 :
        keys[c][j] = keys[c][l] /\ keys[c][j] # Empty => j = l
  BY <1>3, NoDuplicate
<1>7. Occupied(c)' = {} /\ Cardinality({}) = 0
  BY <1>4, FS_EmptySet DEF Occupied, Slot
<1>8. Rest' = Occupied(c)
  BY <1>1 DEF Rest, Occupied, Slot
<1>9. Cardinality(Occupied(c)) = count[c]
  BY <1>0, <1>1 DEF TableInv, CountBelowCapacity
<1>10. \A s \in Slot(c)' : keys'[c][s] = Empty
  BY <1>4 DEF Slot
<1>11. Empty # op.key
  BY <1>1, ContextsAssumption
<1>12. Cardinality(Occupied(c)') + Cardinality(Rest') + 1 = capacity[c]
  BY <1>1, <1>3, <1>7, <1>8, <1>9
<1>13. GrowInv'
  <2>1. \A j \in 0 .. op'.oldCap - 1 : op'.oldKeys[j] # op'.key
    BY <1>1, <1>5
  <2>2. \A j, l \in 0 .. op'.oldCap - 1 :
          op'.oldKeys[j] = op'.oldKeys[l] /\ op'.oldKeys[j] # Empty => j = l
    BY <1>1, <1>6
  <2>3. \A s \in Slot(op.ctx)' : keys'[op'.ctx][s] = Empty
    BY <1>1, <1>10
  <2>4. op'.key # Empty
    BY <1>1, <1>11
  <2>5. count'[op'.ctx] = op'.oldCap
    BY <1>1, <1>3, <1>4
  <2>6. Cardinality(Occupied(op.ctx)') + Cardinality(Rest') + 1 = op'.oldCap
    BY <1>1, <1>12
  <2>7. QED
    BY <2>1, <2>2, <2>3, <2>4, <2>5, <2>6 DEF GrowInv
<1>14. Findable(keys'[c], capacity'[c])
  BY <1>4 DEF Findable
<1>15. TablesFindable'
  BY <1>4, <1>14 DEF TableInv, TablesFindable
<1>16. count'[c] < capacity'[c]
  BY <1>1, <1>3, <1>4
<1>17. \A x \in Ctx \ {c} : count'[x] < capacity'[x] /\ count'[x] = Cardinality(Occupied(x)')
  BY <1>1, <1>4 DEF TableInv, CountBelowCapacity, Occupied, Slot
<1>18. CountBelowCapacity'
  BY <1>1, <1>16, <1>17 DEF CountBelowCapacity
<1>19. QED
  BY <1>13, <1>15, <1>18 DEF TableInv

\* A free slot of the old table is passed over.
LEMMA RehashSkipTable ==
  ASSUME TypeOK, TableInv, RehashSkip
  PROVE  TableInv'
<1>1. /\ op.fn = "grow" /\ op.ctx \in Ctx
      /\ op.oldCap \in Nat \ {0} /\ op.i \in 0 .. op.oldCap - 1
      /\ op.oldKeys[op.i] = Empty
      /\ op'.fn = "grow" /\ op'.ctx = op.ctx /\ op'.key = op.key
      /\ op'.oldCap = op.oldCap /\ op'.oldKeys = op.oldKeys /\ op'.i = op.i + 1
      /\ UNCHANGED <<keys, capacity, count>>
  BY DEF RehashSkip, table, TypeOK, TypeOp
<1>2. Rest' = Rest
  BY <1>1 DEF Rest
<1>3. \A c \in Ctx : Occupied(c)' = Occupied(c)
  BY <1>1 DEF Occupied, Slot
<1>4. op'.i .. op'.oldCap - 1 \subseteq op.i .. op.oldCap - 1
  BY <1>1
<1>5. GrowInv'
  BY <1>1, <1>2, <1>3, <1>4 DEF TableInv, GrowInv, Slot
<1>6. CountBelowCapacity'
  BY <1>1, <1>3 DEF TableInv, CountBelowCapacity
<1>7. TablesFindable'
  BY <1>1 DEF TableInv, TablesFindable
<1>8. QED
  BY <1>5, <1>6, <1>7 DEF TableInv

\* A key moves from the old table to the new one.
LEMMA RehashMoveTable ==
  ASSUME TypeOK, TableInv, RehashMove
  PROVE  TableInv'
<1>0. PICK c \in Ctx : c = op.ctx
  BY DEF RehashMove, TypeOK, TypeOp
<1>1. /\ op.fn = "grow"
      /\ op.oldCap \in Nat \ {0} /\ op.i \in 0 .. op.oldCap - 1
      /\ op.oldKeys[op.i] # Empty /\ op.oldKeys[op.i] \in Key
      /\ op'.fn = "grow" /\ op'.ctx = c /\ op'.key = op.key
      /\ op'.oldCap = op.oldCap /\ op'.oldKeys = op.oldKeys /\ op'.i = op.i + 1
      /\ UNCHANGED <<capacity, count>>
  BY <1>0 DEF RehashMove, TypeOK, TypeOp
<1>2. PICK k \in Key : k = op.oldKeys[op.i]
  BY <1>1
<1>3. PICK cap \in Nat \ {0} : cap = capacity[c]
  BY TypedTables
<1>4. PICK j \in 0 .. cap - 1 : /\ ProbesTo(keys[c], cap, k, {Empty}, j)
                                /\ keys' = [keys EXCEPT ![c][j] = k]
  BY <1>0, <1>2, <1>3 DEF RehashMove, Slot
<1>5. /\ keys[c][j] = Empty
      /\ IsTable(keys[c], cap)
      /\ Findable(keys[c], cap)
  BY <1>3, <1>4, TypedTables DEF ProbesTo, TableInv, TablesFindable
<1>6. /\ keys'[c] = [keys[c] EXCEPT ![j] = k]
      /\ \A x \in Ctx \ {c} : keys'[x] = keys[x]
  BY <1>4 DEF TypeOK
<1>7. \A s \in 0 .. cap - 1 : keys[c][s] # k
  <2>1. op.i \in op.i .. op.oldCap - 1 /\ k # Empty
    BY <1>1, <1>2
  <2>2. \A s \in 0 .. cap - 1 : keys[c][s] # Empty => keys[c][s] # k
    BY <1>0, <1>1, <1>2, <1>3, <2>1 DEF TableInv, GrowInv, Slot
  <2>3. QED
    BY <2>1, <2>2
<1>8. Findable(keys'[c], cap)
  BY <1>4, <1>5, <1>6, <1>7, FillFindable
<1>9. TablesFindable'
  BY <1>1, <1>3, <1>6, <1>8 DEF TableInv, TablesFindable
<1>10. CountBelowCapacity'
  <2>1. \A x \in Ctx : count'[x] < capacity'[x]
    BY <1>1 DEF TableInv, CountBelowCapacity
  <2>2. ASSUME NEW x \in Ctx, x # c
        PROVE  count'[x] = Cardinality(Occupied(x)')
    <3>1. count[x] = Cardinality(Occupied(x))
      BY <1>0, <2>2 DEF TableInv, CountBelowCapacity
    <3>2. Occupied(x)' = Occupied(x)
      BY <1>1, <1>6, <2>2 DEF Occupied, Slot
    <3>3. QED
      BY <1>1, <3>1, <3>2
  <2>3. QED
    BY <1>1, <2>1, <2>2 DEF CountBelowCapacity
<1>11. Cardinality(Occupied(c)') = Cardinality(Occupied(c)) + 1
  <2>1. Occupied(c)' = Occ(keys'[c], cap) /\ Occupied(c) = Occ(keys[c], cap)
    BY <1>1, <1>3 DEF Occupied, Occ, Slot
  <2>2. QED
    BY <1>4, <1>5, <1>6, <2>1, FillCount
<1>12. Cardinality(Rest') = Cardinality(Rest) - 1 /\ Cardinality(Rest) \in Nat
  <2>1. IsFiniteSet(op.i .. op.oldCap - 1)
    <3>1. op.i \in Int /\ op.oldCap - 1 \in Int
      BY <1>1
    <3>2. QED
      BY <3>1, FS_Interval
  <2>2. IsFiniteSet(Rest)
    BY <2>1, FS_Subset DEF Rest
  <2>3. Rest' = Rest \ {op.i} /\ op.i \in Rest
    BY <1>1 DEF Rest
  <2>4. QED
    BY <2>2, <2>3, FS_RemoveElement, FS_CardinalityType
<1>13. \A s \in 0 .. cap - 1 : keys'[c][s] = IF s = j THEN k ELSE keys[c][s]
  BY <1>5, <1>6 DEF IsTable
<1>14. GrowInv'
  <2>1. k # op'.key
    BY <1>1, <1>2 DEF TableInv, GrowInv
  <2>2. \A s \in 0 .. cap - 1 : keys'[c][s] # op'.key
    BY <1>0, <1>1, <1>3, <1>13, <2>1 DEF TableInv, GrowInv, Slot
  <2>3. ASSUME NEW s \in 0 .. cap - 1, NEW l \in op'.i .. op'.oldCap - 1,
               keys'[c][s] # Empty
        PROVE  keys'[c][s] # op'.oldKeys[l]
    <3>1. l \in op.i .. op.oldCap - 1 /\ l # op.i
      BY <1>1, <2>3
    <3>2. CASE s = j
      <4>1. op.oldKeys[l] # k
        BY <1>1, <1>2, <3>1 DEF TableInv, GrowInv
      <4>2. QED
        BY <1>1, <1>13, <3>2, <4>1
    <3>3. CASE s # j
      BY <1>0, <1>1, <1>3, <1>13, <2>3, <3>1, <3>3 DEF TableInv, GrowInv, Slot
    <3>4. QED
      BY <3>2, <3>3
  <2>4. Cardinality(Occupied(c)') + Cardinality(Rest') + 1 = op'.oldCap
    BY <1>0, <1>1, <1>11, <1>12, TypedTables DEF TableInv, GrowInv
  <2>5. /\ count'[c] = op'.oldCap
        /\ \A x \in 0 .. op'.oldCap - 1 : op'.oldKeys[x] # op'.key
        /\ \A x, y \in 0 .. op'.oldCap - 1 :
             op'.oldKeys[x] = op'.oldKeys[y] /\ op'.oldKeys[x] # Empty => x = y
    BY <1>0, <1>1 DEF TableInv, GrowInv
  <2>6. Slot(op.ctx)' = 0 .. cap - 1 /\ op'.ctx = c
    BY <1>1, <1>3 DEF Slot
  <2>7. QED
    BY <2>2, <2>3, <2>4, <2>5, <2>6 DEF GrowInv
<1>15. QED
  BY <1>9, <1>10, <1>14 DEF TableInv

\* Everything has moved; the new key takes its place.
LEMMA GrowInsertTable ==
  ASSUME TypeOK, TableInv, GrowInsert
  PROVE  TableInv'
<1>0. PICK c \in Ctx : c = op.ctx
  BY DEF GrowInsert, TypeOK, TypeOp
<1>1. /\ op.fn = "grow"
      /\ op.oldCap \in Nat \ {0} /\ op.i = op.oldCap /\ op.key \in Key
      /\ op' = Idle
      /\ UNCHANGED <<capacity, count>>
  BY DEF GrowInsert, Return, TypeOK, TypeOp
<1>2. PICK k \in Key : k = op.key
  BY <1>1
<1>3. PICK cap \in Nat \ {0} : cap = capacity[c]
  BY TypedTables
<1>4. PICK j \in 0 .. cap - 1 : /\ ProbesTo(keys[c], cap, k, {Empty}, j)
                                /\ keys' = [keys EXCEPT ![c][j] = k]
  BY <1>0, <1>2, <1>3 DEF GrowInsert, Slot
<1>5. /\ keys[c][j] = Empty
      /\ IsTable(keys[c], cap)
      /\ Findable(keys[c], cap)
  BY <1>3, <1>4, TypedTables DEF ProbesTo, TableInv, TablesFindable
<1>6. /\ keys'[c] = [keys[c] EXCEPT ![j] = k]
      /\ \A x \in Ctx \ {c} : keys'[x] = keys[x]
  BY <1>4 DEF TypeOK
<1>7. \A s \in 0 .. cap - 1 : keys[c][s] # k
  BY <1>0, <1>1, <1>2, <1>3 DEF TableInv, GrowInv, Slot
<1>8. Findable(keys'[c], cap)
  BY <1>4, <1>5, <1>6, <1>7, FillFindable
<1>9. TablesFindable'
  BY <1>1, <1>3, <1>6, <1>8 DEF TableInv, TablesFindable
<1>10. Cardinality(Occupied(c)') = Cardinality(Occupied(c)) + 1
  <2>1. Occupied(c)' = Occ(keys'[c], cap) /\ Occupied(c) = Occ(keys[c], cap)
    BY <1>1, <1>3 DEF Occupied, Occ, Slot
  <2>2. QED
    BY <1>4, <1>5, <1>6, <2>1, FillCount
<1>11. Rest = {} /\ Cardinality({}) = 0
  BY <1>1, FS_EmptySet DEF Rest
<1>12. count'[c] < capacity'[c] /\ count'[c] = Cardinality(Occupied(c)')
  BY <1>0, <1>1, <1>10, <1>11, TypedTables DEF TableInv, GrowInv, CountBelowCapacity
<1>13. \A x \in Ctx \ {c} : count'[x] < capacity'[x] /\ count'[x] = Cardinality(Occupied(x)')
  BY <1>0, <1>1, <1>6 DEF TableInv, CountBelowCapacity, Occupied, Slot
<1>14. CountBelowCapacity'
  BY <1>12, <1>13 DEF CountBelowCapacity
<1>15. QED
  BY <1>1, <1>9, <1>14 DEF TableInv, GrowInv, Idle
-----------------------------------------------------------------------------
(* The theorems                                                            *)

LEMMA TableStep == TypeOK /\ TableInv /\ [Next]_vars => TableInv'
<1> SUFFICES ASSUME TypeOK, TableInv, [Next]_vars
             PROVE  TableInv'
  OBVIOUS
<1>1. CASE UNCHANGED vars
  BY <1>1 DEF vars, table, TableInv, TablesFindable, CountBelowCapacity, GrowInv,
    Occupied, Slot, Rest
<1>2. CASE Call
  <2>1. ASSUME NEW c \in Ctx, NEW p \in Ctx \cup {NoCtx}, Context_create(c, p)
        PROVE  TableInv'
    BY <2>1, AllocateTable DEF Context_create
  <2>2. ASSUME NEW c \in Ctx, NEW p \in Ctx, BeginObject(c, p)
        PROVE  TableInv'
    BY <2>2, AllocateTable DEF BeginObject
  <2>3. CASE EndObject
    BY <2>3, NoTableChange DEF EndObject, Return, Idle, table
  <2>4. ASSUME NEW c \in Ctx, Lock(c)
        PROVE  TableInv'
    BY <2>4, NoTableChange DEF Lock, Return, Idle, table
  <2>5. ASSUME NEW c \in Ctx, NEW k \in Key, CallGet(c, k)
        PROVE  TableInv'
    BY <2>5, NoTableChange DEF CallGet, Begin, Idle, table
  <2>6. ASSUME NEW c \in Ctx, NEW k \in Key, NEW v \in Value, CallSet(c, k, v)
        PROVE  TableInv'
    BY <2>6, NoTableChange DEF CallSet, Begin, Idle, table
  <2>7. ASSUME NEW c \in Ctx, NEW k \in Key, NEW v \in Value, CallBind(c, k, v)
        PROVE  TableInv'
    BY <2>7, NoTableChange DEF CallBind, Begin, Refuse, Return, Idle, table
  <2>8. ASSUME NEW c \in Ctx, NEW s \in Ctx \cup {NoCtx}, CallAs(c, s)
        PROVE  TableInv'
    BY <2>8, NoTableChange DEF CallAs, Begin, Refuse, Return, Idle, table
  <2>9. QED
    BY <1>2, <2>1, <2>2, <2>3, <2>4, <2>5, <2>6, <2>7, <2>8 DEF Call
<1>3. CASE Step
  <2>1. CASE GetFound
    BY <2>1, NoTableChange DEF GetFound, Return, Idle, table
  <2>2. CASE SetFound
    BY <2>2, NoTableChange DEF SetFound, Return, Idle
  <2>3. CASE WalkUp
    BY <2>3, NoTableChange DEF WalkUp, table, TypeOK, TypeOp
  <2>4. CASE Unbound
    BY <2>4, NoTableChange DEF Unbound, Return, Idle, table
  <2>5. CASE BindOverwrite
    BY <2>5, NoTableChange DEF BindOverwrite, Return, Idle
  <2>6. CASE AsCycle
    BY <2>6, NoTableChange DEF AsCycle, Return, Idle, table
  <2>7. CASE AsWalk
    BY <2>7, NoTableChange DEF AsWalk, table, TypeOK, TypeOp
  <2>8. CASE AsSet
    BY <2>8, NoTableChange DEF AsSet, Return, Idle, table
  <2>9. QED
    BY <1>3, <2>1, <2>2, <2>3, <2>4, <2>5, <2>6, <2>7, <2>8, BindInsertTable,
      BindGrowTable, RehashSkipTable, RehashMoveTable, GrowInsertTable DEF Step
<1>4. QED
  BY <1>1, <1>2, <1>3 DEF Next

LEMMA TableInit == Init => TableInv
<1> SUFFICES ASSUME Init
             PROVE  TableInv
  OBVIOUS
<1> USE ContextsAssumption
<1>1. /\ \A c \in Ctx : keys[c] = [i \in 0 .. StartCap - 1 |-> Empty]
      /\ \A c \in Ctx : capacity[c] = StartCap /\ count[c] = 0
      /\ op.fn = "idle"
  BY DEF Init, Idle
<1>2. \A c \in Ctx : Occupied(c) = {}
  BY <1>1 DEF Occupied, Slot
<1>3. Cardinality({}) = 0
  BY FS_EmptySet
<1>4. TablesFindable
  BY <1>1 DEF TablesFindable, Findable
<1>5. CountBelowCapacity
  <2>1. ASSUME NEW c \in Ctx
        PROVE  count[c] < capacity[c] /\ count[c] = Cardinality(Occupied(c))
    <3>1. count[c] = 0 /\ capacity[c] = StartCap
      BY <1>1
    <3>2. Cardinality(Occupied(c)) = 0
      BY <1>2, <1>3
    <3>3. QED
      BY <3>1, <3>2
  <2>2. QED
    BY <2>1 DEF CountBelowCapacity
<1>6. QED
  BY <1>1, <1>4, <1>5 DEF TableInv, GrowInv

\* Every stored key is where the probe for it ends: collisions, overwriting and
\* rehashing lose none and duplicate none.
THEOREM NoKeyLost == Spec => []ProbeFindsKey
<1>1. TypeOK /\ TableInv => ProbeFindsKey
  BY DEF TypeOK, TableInv, TablesFindable, Findable, ProbeFindsKey, Hit, Slot
<1>2. QED
  BY <1>1, TypeCorrect, TableInit, TableStep, PTL DEF Spec

\* count is the number of keys and stays strictly below the capacity: there is
\* always a free slot.
THEOREM FreeSlotRemains == Spec => []CountBelowCapacity
<1>1. TableInv => CountBelowCapacity
  BY DEF TableInv
<1>2. QED
  BY <1>1, TypeCorrect, TableInit, TableStep, PTL DEF Spec
-----------------------------------------------------------------------------
(* Probes end                                                              *)

\* Remainders: what is congruent to i and between 0 and cap - 1 is i.
LEMMA RemainderUnique ==
  ASSUME NEW cap \in Nat \ {0}, NEW i \in 0 .. cap - 1, NEW q \in Int, NEW x \in Nat,
         x = q * cap + i
  PROVE  x % cap = i
<1>1. /\ x = (x \div cap) * cap + (x % cap)
      /\ x % cap \in 0 .. cap - 1
      /\ x \div cap \in Int
  OBVIOUS
<1>2. PICK p \in Int, r \in 0 .. cap - 1 : p = x \div cap /\ r = x % cap
  BY <1>1
<1>3. (q - p) * cap = r - i
  BY <1>1, <1>2
<1>4. ASSUME NEW m \in Int, m >= 1
      PROVE  m * cap >= cap
  BY <1>4
<1>5. ~(q - p >= 1)
  BY <1>3, <1>4
<1>6. ~(p - q >= 1)
  <2>1. (p - q) * cap = i - r
    BY <1>3
  <2>2. QED
    BY <2>1, <1>4
<1>7. q = p
  BY <1>5, <1>6
<1>8. QED
  BY <1>2, <1>3, <1>7

\* A probe that meets no obstacle visits every slot.
LEMMA ProbeVisitsAll ==
  ASSUME NEW cap \in Nat \ {0}, NEW k \in Key, NEW i \in 0 .. cap - 1
  PROVE  \E d \in 0 .. cap - 1 : At(k, d, cap) = i
<1>1. PICK h \in Nat : h = Hash[k]
  BY ContextsAssumption
<1>2. PICK q \in Int, r \in 0 .. cap - 1 : h = q * cap + r
  <2>1. h = (h \div cap) * cap + (h % cap) /\ h % cap \in 0 .. cap - 1 /\ h \div cap \in Int
    OBVIOUS
  <2>2. QED
    BY <2>1
<1>3. CASE i >= r
  <2>1. i - r \in 0 .. cap - 1 /\ h + (i - r) = q * cap + i /\ h + (i - r) \in Nat
    BY <1>2, <1>3
  <2>2. (h + (i - r)) % cap = i
    BY <2>1, RemainderUnique
  <2>3. QED
    BY <1>1, <2>1, <2>2 DEF At
<1>4. CASE i < r
  <2>1. i - r + cap \in 0 .. cap - 1 /\ h + (i - r + cap) \in Nat
    BY <1>2, <1>4
  <2>2. PICK p \in Int : p = q + 1
    OBVIOUS
  <2>3. p * cap = q * cap + cap
    BY <2>2
  <2>4. PICK x \in Nat : x = h + (i - r + cap)
    BY <2>1
  <2>5. x = p * cap + i
    BY <1>2, <2>3, <2>4
  <2>6. x % cap = i
    BY <2>5, RemainderUnique
  <2>7. QED
    BY <1>1, <2>1, <2>4, <2>6 DEF At
<1>5. QED
  BY <1>3, <1>4

\* Every nonempty set of naturals has a least element.
LEMMA Least ==
  ASSUME NEW T \in SUBSET Nat, T # {}
  PROVE  \E m \in T : \A n \in T : m <= n
<1>1. PICK m \in T : \A n \in T : ~(<<n, m>> \in OpToRel(<, Nat))
  BY NatLessThanWellFounded, WFMin
<1>2. \A n \in Nat : n < m => <<n, m>> \in OpToRel(<, Nat)
  BY DEF OpToRel
<1>3. ASSUME NEW n \in T
      PROVE  m <= n
  <2>1. ~(n < m)
    BY <1>1, <1>2
  <2>2. QED
    BY <2>1
<1>4. QED
  BY <1>3

\* If some slot stops the probe, the probe ends.
LEMMA ProbeEnds ==
  ASSUME NEW cap \in Nat \ {0}, NEW tab, NEW k \in Key, NEW stop,
         NEW i \in 0 .. cap - 1, tab[i] \in stop
  PROVE  \E j \in 0 .. cap - 1 : ProbesTo(tab, cap, k, stop, j)
<1> DEFINE T == {d \in 0 .. cap - 1 : tab[At(k, d, cap)] \in stop}
<1>1. T # {}
  BY ProbeVisitsAll
<1>2. T \in SUBSET Nat
  OBVIOUS
<1>3. PICK d \in T : \A e \in T : d <= e
  <2> HIDE DEF T
  <2>1. QED
    BY <1>1, <1>2, Least
<1>4. At(k, d, cap) \in 0 .. cap - 1
  BY AtInTable
<1>5. \A e \in 0 .. d - 1 : tab[At(k, e, cap)] \notin stop
  BY <1>3
<1>6. QED
  BY <1>4, <1>5 DEF ProbesTo

\* "infinite loop if count == capacity!" (context.c) never comes true: in every
\* reachable state, in every table and for every key, the probe loops end.
AllProbesEnd ==
  \A c \in Ctx, k \in Key :
    /\ \E i \in Slot(c) : ProbesTo(keys[c], capacity[c], k, {Empty}, i)
    /\ \E i \in Slot(c) : ProbesTo(keys[c], capacity[c], k, {Empty, k}, i)

THEOREM ProbesEnd == Spec => []AllProbesEnd
<1>1. ASSUME TypeOK, TableInv, NEW c \in Ctx
      PROVE  \E i \in Slot(c) : keys[c][i] = Empty
  <2>1. /\ capacity[c] \in Nat \ {0}
        /\ Cardinality(Occupied(c)) \in Nat
        /\ count[c] \in Nat
    BY <1>1, TypedTables
  <2>2. Cardinality(Occupied(c)) < capacity[c]
    <3>1. CASE op.fn = "grow" /\ op.ctx = c
      <4>1. /\ op.oldCap \in Nat \ {0} /\ op.i \in 0 .. op.oldCap
            /\ capacity[c] = 2 * op.oldCap
        BY <1>1, <3>1 DEF TypeOK, TypeOp
      <4>2. Cardinality(Rest) \in Nat
        <5>1. IsFiniteSet(op.i .. op.oldCap - 1)
          <6>1. op.i \in Int /\ op.oldCap - 1 \in Int
            BY <4>1
          <6>2. QED
            BY <6>1, FS_Interval
        <5>2. QED
          BY <5>1, FS_Subset, FS_CardinalityType DEF Rest
      <4>3. Cardinality(Occupied(c)) + Cardinality(Rest) + 1 = op.oldCap
        BY <1>1, <3>1 DEF TableInv, GrowInv
      <4>4. QED
        BY <2>1, <4>1, <4>2, <4>3
    <3>2. CASE ~(op.fn = "grow" /\ op.ctx = c)
      BY <1>1, <3>2 DEF TableInv, CountBelowCapacity
    <3>3. QED
      BY <3>1, <3>2
  <2>3. SUFFICES ASSUME \A i \in Slot(c) : keys[c][i] # Empty
                 PROVE  FALSE
    OBVIOUS
  <2>4. Occupied(c) = 0 .. capacity[c] - 1
    BY <2>3 DEF Occupied, Slot
  <2>5. Cardinality(0 .. capacity[c] - 1) = capacity[c]
    <3>1. capacity[c] - 1 \in Int /\ ~(0 > capacity[c] - 1)
      BY <2>1
    <3>2. Cardinality(0 .. capacity[c] - 1) = (capacity[c] - 1) - 0 + 1
      BY <3>1, FS_Interval
    <3>3. QED
      BY <2>1, <3>2
  <2>6. QED
    BY <2>1, <2>2, <2>4, <2>5
<1>2. TypeOK /\ TableInv => AllProbesEnd
  <2> SUFFICES ASSUME TypeOK, TableInv, NEW c \in Ctx, NEW k \in Key
               PROVE  /\ \E i \in Slot(c) : ProbesTo(keys[c], capacity[c], k, {Empty}, i)
                      /\ \E i \in Slot(c) : ProbesTo(keys[c], capacity[c], k, {Empty, k}, i)
    BY DEF AllProbesEnd
  <2>1. PICK f \in Slot(c) : keys[c][f] = Empty
    BY <1>1
  <2>2. capacity[c] \in Nat \ {0}
    BY TypedTables
  <2>3. QED
    BY <2>1, <2>2, ProbeEnds DEF Slot
<1>3. QED
  BY <1>2, TypeCorrect, TableInit, TableStep, PTL DEF Spec


-----------------------------------------------------------------------------
(* Walks: P is the parent function.                                        *)

Parents == [Ctx -> Ctx \cup {NoCtx}]

Way(P, c, T) ==
  {x \in Ctx : \A S \in SUBSET Ctx :
     /\ c \in S
     /\ \A y \in S \ T : P[y] \in S \cup {NoCtx}
     => x \in S}

Only(N) == IF N = {} THEN NoCtx ELSE CHOOSE x \in N : TRUE

First(P, c, T) == Only(Way(P, c, T) \cap T)

Under(P, s, c) == s # NoCtx /\ c \in Way(P, s, {})

LEMMA WayClosed ==
  ASSUME NEW P \in Parents, NEW c \in Ctx, NEW T
  PROVE  /\ c \in Way(P, c, T)
         /\ \A y \in Way(P, c, T) \ T : P[y] \in Way(P, c, T) \cup {NoCtx}
<1>1. c \in Way(P, c, T)
  BY DEF Way
<1>2. ASSUME NEW y \in Way(P, c, T) \ T, P[y] # NoCtx
      PROVE  P[y] \in Way(P, c, T)
  <2>1. P[y] \in Ctx
    BY <1>2 DEF Parents, Way
  <2>2. ASSUME NEW S \in SUBSET Ctx, c \in S, \A z \in S \ T : P[z] \in S \cup {NoCtx}
        PROVE  P[y] \in S
    <3>1. y \in S
      BY <2>2 DEF Way
    <3>2. QED
      BY <1>2, <2>2, <3>1
  <2>3. QED
    BY <2>1, <2>2 DEF Way
<1>3. QED
  BY <1>1, <1>2

\* The walk is over at a context in T, and at one without a parent.
LEMMA WayEnds ==
  ASSUME NEW P \in Parents, NEW c \in Ctx, NEW T, c \in T \/ P[c] = NoCtx
  PROVE  Way(P, c, T) = {c}
<1>1. \A y \in {c} \ T : P[y] \in {c} \cup {NoCtx}
  OBVIOUS
<1>2. {c} \in SUBSET Ctx /\ c \in {c}
  OBVIOUS
<1>3. Way(P, c, T) \subseteq {c}
  BY <1>1, <1>2 DEF Way
<1>4. QED
  BY <1>3, WayClosed

\* Otherwise it goes on as the walk from the parent.
LEMMA WayGoesOn ==
  ASSUME NEW P \in Parents, NEW c \in Ctx, NEW T, c \notin T, P[c] \in Ctx, NoCtx \notin Ctx
  PROVE  Way(P, c, T) = {c} \cup Way(P, P[c], T)
<1>1. PICK p \in Ctx : p = P[c]
  OBVIOUS
<1>2. PICK S : S = {c} \cup Way(P, p, T)
  OBVIOUS
<1>3. S \in SUBSET Ctx /\ c \in S /\ p \in S
  BY <1>2, WayClosed DEF Way
<1>4. \A y \in S \ T : P[y] \in S \cup {NoCtx}
  BY <1>1, <1>2, <1>3, WayClosed
<1>5. Way(P, c, T) \subseteq S
  BY <1>3, <1>4 DEF Way
<1>6. ASSUME NEW x \in Way(P, p, T)
      PROVE  x \in Way(P, c, T)
  <2>1. x \in Ctx
    BY DEF Way
  <2>2. ASSUME NEW R \in SUBSET Ctx, c \in R, \A y \in R \ T : P[y] \in R \cup {NoCtx}
        PROVE  x \in R
    <3>1. p \in R
      BY <1>1, <2>2
    <3>2. QED
      BY <2>2, <3>1 DEF Way
  <2>3. QED
    BY <2>1, <2>2 DEF Way
<1>7. c \in Way(P, c, T)
  BY WayClosed
<1>8. QED
  BY <1>1, <1>2, <1>5, <1>6, <1>7

LEMMA FirstHere ==
  ASSUME NEW P \in Parents, NEW c \in Ctx, NEW T, c \in T
  PROVE  First(P, c, T) = c
<1>1. Way(P, c, T) \cap T = {c}
  BY WayEnds
<1>2. QED
  BY <1>1 DEF First, Only

LEMMA FirstNone ==
  ASSUME NEW P \in Parents, NEW c \in Ctx, NEW T, c \notin T, P[c] = NoCtx
  PROVE  First(P, c, T) = NoCtx
<1>1. Way(P, c, T) \cap T = {}
  BY WayEnds
<1>2. QED
  BY <1>1 DEF First, Only

LEMMA FirstGoesOn ==
  ASSUME NEW P \in Parents, NEW c \in Ctx, NEW T, c \notin T, P[c] \in Ctx, NoCtx \notin Ctx
  PROVE  First(P, c, T) = First(P, P[c], T)
<1>1. Way(P, c, T) \cap T = Way(P, P[c], T) \cap T
  BY WayGoesOn
<1>2. QED
  BY <1>1 DEF First

LEMMA UnderGoesOn ==
  ASSUME NEW P \in Parents, NEW s \in Ctx, NEW c \in Ctx, s # c, NoCtx \notin Ctx
  PROVE  Under(P, s, c) <=> Under(P, P[s], c)
<1>1. P[s] \in Ctx \cup {NoCtx}
  BY DEF Parents
<1>2. CASE P[s] = NoCtx
  <2>1. Way(P, s, {}) = {s}
    BY <1>2, WayEnds
  <2>2. QED
    BY <1>2, <2>1 DEF Under
<1>3. CASE P[s] \in Ctx
  <2>1. Way(P, s, {}) = {s} \cup Way(P, P[s], {})
    BY <1>3, WayGoesOn
  <2>2. QED
    BY <1>3, <2>1 DEF Under
<1>4. QED
  BY <1>1, <1>2, <1>3
-----------------------------------------------------------------------------
(* Maps: K are the keys and V the values of a table of n slots; O and OV   *)
(* are those of a table of m slots that is being moved into it, of which   *)
(* slot i is the next.                                                     *)

Once(K, n) ==
  /\ n \in Nat
  /\ IsTable(K, n)
  /\ \A i, j \in 0 .. n - 1 : K[i] = K[j] /\ K[i] # Empty => i = j

Map(K, V) == [k \in Stored(K, 0) |-> ValueOf(K, V, k)]

Halves(K, V, O, OV, i) ==
  [k \in Stored(K, 0) \cup Stored(O, i) |->
     IF k \in Stored(K, 0) THEN ValueOf(K, V, k) ELSE ValueOf(O, OV, k)]

LEMMA StoredKeys ==
  ASSUME NEW n \in Nat, NEW K, IsTable(K, n), NEW i \in Nat, NEW k
  PROVE  k \in Stored(K, i) <=> k # Empty /\ \E j \in i .. n - 1 : K[j] = k
BY DEF Stored, IsTable

LEMMA AllKeys ==
  ASSUME NEW n \in Nat, NEW K, IsTable(K, n)
  PROVE  \A k : k \in Stored(K, 0) <=> k # Empty /\ \E j \in 0 .. n - 1 : K[j] = k
BY StoredKeys

LEMMA ValueAt ==
  ASSUME NEW n, NEW K, Once(K, n), NEW V, NEW i \in 0 .. n - 1, NEW k, K[i] = k, k # Empty
  PROVE  ValueOf(K, V, k) = V[i]
<1>1. DOMAIN K = 0 .. n - 1
  BY DEF Once, IsTable
<1>2. \A j \in DOMAIN K : K[j] = k => j = i
  BY <1>1 DEF Once
<1>3. (CHOOSE j \in DOMAIN K : K[j] = k) = i
  BY <1>1, <1>2
<1>4. QED
  BY <1>3 DEF ValueOf

LEMMA MapFilled ==
  ASSUME NEW n, NEW K, Once(K, n), NEW V,
         NEW j \in 0 .. n - 1, K[j] = Empty,
         NEW k \in Key, \A i \in 0 .. n - 1 : K[i] # k, NEW v,
         NEW K2, IsTable(K2, n), \A i \in 0 .. n - 1 : K2[i] = IF i = j THEN k ELSE K[i],
         NEW V2, \A i \in 0 .. n - 1 : V2[i] = IF i = j THEN v ELSE V[i]
  PROVE  /\ Once(K2, n)
         /\ Map(K2, V2) = Scope!With(Map(K, V), k, v)
<1> USE ContextsAssumption
<1>1. n \in Nat /\ IsTable(K, n) /\ IsTable(K2, n) /\ k # Empty
  BY DEF Once
<1>2. \A i \in 0 .. n - 1 : /\ K2[i] = IF i = j THEN k ELSE K[i]
                            /\ V2[i] = IF i = j THEN v ELSE V[i]
  OBVIOUS
<1>3. Once(K2, n)
  BY <1>1, <1>2 DEF Once
<1>4. Stored(K2, 0) = Stored(K, 0) \cup {k}
  <2>1. \A x : x \in Stored(K, 0) <=> x # Empty /\ \E i \in 0 .. n - 1 : K[i] = x
    BY <1>1, AllKeys
  <2>2. \A x : x \in Stored(K2, 0) <=> x # Empty /\ \E i \in 0 .. n - 1 : K2[i] = x
    BY <1>1, AllKeys
  <2>3. \A x : x \in Stored(K2, 0) <=> x \in Stored(K, 0) \/ x = k
    BY <1>1, <1>2, <2>1, <2>2
  <2>4. QED
    BY <2>3
<1>5. ASSUME NEW x \in Stored(K2, 0)
      PROVE  ValueOf(K2, V2, x) = IF x = k THEN v ELSE ValueOf(K, V, x)
  <2>1. PICK i \in 0 .. n - 1 : K2[i] = x /\ x # Empty
    BY <1>1, AllKeys
  <2>2. ValueOf(K2, V2, x) = V2[i]
    BY <1>3, <2>1, ValueAt
  <2>3. CASE i = j
    BY <1>2, <2>1, <2>2, <2>3
  <2>4. CASE i # j
    <3>1. K[i] = x /\ x # k
      BY <1>2, <2>1, <2>4
    <3>2. ValueOf(K, V, x) = V[i]
      BY <2>1, <3>1, ValueAt
    <3>3. QED
      BY <1>2, <2>2, <2>4, <3>1, <3>2
  <2>5. QED
    BY <2>3, <2>4
<1>6. Map(K2, V2) = Scope!With(Map(K, V), k, v)
  BY <1>4, <1>5 DEF Map, Scope!With
<1>7. QED
  BY <1>3, <1>6

LEMMA MapOverwritten ==
  ASSUME NEW n, NEW K, Once(K, n), NEW V,
         NEW j \in 0 .. n - 1, NEW k \in Key, K[j] = k, NEW v,
         NEW V2, \A i \in 0 .. n - 1 : V2[i] = IF i = j THEN v ELSE V[i]
  PROVE  Map(K, V2) = Scope!With(Map(K, V), k, v)
<1> USE ContextsAssumption
<1>1. n \in Nat /\ IsTable(K, n) /\ k # Empty
  BY DEF Once
<1>2. k \in Stored(K, 0)
  BY <1>1, AllKeys
<1>3. ASSUME NEW x \in Stored(K, 0)
      PROVE  ValueOf(K, V2, x) = IF x = k THEN v ELSE ValueOf(K, V, x)
  <2>1. PICK i \in 0 .. n - 1 : K[i] = x /\ x # Empty
    BY <1>1, AllKeys
  <2>2. ValueOf(K, V2, x) = V2[i] /\ ValueOf(K, V, x) = V[i]
    BY <2>1, ValueAt
  <2>3. x = k <=> i = j
    BY <1>1, <2>1 DEF Once
  <2>4. QED
    BY <2>2, <2>3
<1>4. Stored(K, 0) \cup {k} = Stored(K, 0)
  BY <1>2
<1>5. QED
  BY <1>3, <1>4 DEF Map, Scope!With

\* A table that has just grown: everything is still in the old one.
LEMMA HalvesFirst ==
  ASSUME NEW n \in Nat, NEW K, K = [i \in 0 .. n - 1 |-> Empty], NEW V, NEW O, NEW OV
  PROVE  Halves(K, V, O, OV, 0) = Map(O, OV)
<1>1. Stored(K, 0) = {}
  BY DEF Stored
<1>2. QED
  BY <1>1 DEF Halves, Map

LEMMA HalvesSkip ==
  ASSUME NEW m \in Nat, NEW O, IsTable(O, m), NEW i \in 0 .. m - 1, O[i] = Empty,
         NEW K, NEW V, NEW OV
  PROVE  Halves(K, V, O, OV, i + 1) = Halves(K, V, O, OV, i)
<1>1. \A k : k \in Stored(O, i + 1) <=> k \in Stored(O, i)
  BY StoredKeys
<1>2. Stored(O, i + 1) = Stored(O, i)
  BY <1>1
<1>3. QED
  BY <1>2 DEF Halves

LEMMA HalvesMove ==
  ASSUME NEW n, NEW K, Once(K, n), NEW V,
         NEW m, NEW O, Once(O, m), NEW OV,
         NEW i \in 0 .. m - 1, NEW k \in Key, O[i] = k, NEW v, OV[i] = v,
         \A s \in 0 .. n - 1 : K[s] # k,
         NEW K2, NEW V2, Map(K2, V2) = Scope!With(Map(K, V), k, v)
  PROVE  Halves(K2, V2, O, OV, i + 1) = Halves(K, V, O, OV, i)
<1>1. k # Empty
  BY ContextsAssumption
<1>2. n \in Nat /\ m \in Nat /\ IsTable(K, n) /\ IsTable(O, m)
  BY DEF Once
<1>3. ValueOf(O, OV, k) = v
  BY <1>1, ValueAt
<1>4. Stored(K2, 0) = Stored(K, 0) \cup {k} /\ k \notin Stored(K, 0)
  <2>1. DOMAIN Map(K2, V2) = DOMAIN Map(K, V) \cup {k}
    BY DEF Scope!With
  <2>2. DOMAIN Map(K2, V2) = Stored(K2, 0) /\ DOMAIN Map(K, V) = Stored(K, 0)
    BY DEF Map
  <2>3. k \notin Stored(K, 0)
    BY <1>1, <1>2, AllKeys
  <2>4. QED
    BY <2>1, <2>2, <2>3
<1>5. \A x \in Stored(K2, 0) :
        ValueOf(K2, V2, x) = IF x = k THEN v ELSE ValueOf(K, V, x)
  <2> SUFFICES ASSUME NEW x \in Stored(K2, 0)
               PROVE  ValueOf(K2, V2, x) = IF x = k THEN v ELSE ValueOf(K, V, x)
    OBVIOUS
  <2>1. ValueOf(K2, V2, x) = Map(K2, V2)[x]
    BY DEF Map
  <2>2. Map(K2, V2)[x] = IF x = k THEN v ELSE Map(K, V)[x]
    BY <1>4 DEF Scope!With, Map
  <2>3. QED
    BY <1>4, <2>1, <2>2 DEF Map
<1>6. \A x : x \in Stored(O, i) <=> x = k \/ x \in Stored(O, i + 1)
  <2> SUFFICES ASSUME NEW x
               PROVE  x \in Stored(O, i) <=> x = k \/ x \in Stored(O, i + 1)
    OBVIOUS
  <2>1. \A l : l \in i .. m - 1 <=> l = i \/ l \in i + 1 .. m - 1
    BY <1>2
  <2>2. QED
    BY <1>1, <1>2, <2>1, StoredKeys
<1>7. Stored(K2, 0) \cup Stored(O, i + 1) = Stored(K, 0) \cup Stored(O, i)
  BY <1>4, <1>6
<1>8. ASSUME NEW x \in Stored(K, 0) \cup Stored(O, i)
      PROVE  Halves(K2, V2, O, OV, i + 1)[x] = Halves(K, V, O, OV, i)[x]
  BY <1>3, <1>4, <1>5, <1>7, <1>8 DEF Halves
<1>9. QED
  BY <1>7, <1>8 DEF Halves

LEMMA HalvesLast ==
  ASSUME NEW m \in Nat, NEW O, IsTable(O, m), NEW K, NEW V, NEW OV
  PROVE  Halves(K, V, O, OV, m) = Map(K, V)
<1>1. \A k : k \notin Stored(O, m)
  BY StoredKeys
<1>2. Stored(K, 0) \cup Stored(O, m) = Stored(K, 0)
  BY <1>1
<1>3. QED
  BY <1>2 DEF Halves, Map
-----------------------------------------------------------------------------
(* The invariant                                                           *)

\* The contexts whose own table holds k.
Holders(k) == {x \in Ctx : k \in Stored(keys[x], 0)}

\* A context that has not been created binds nothing.
DeadEmpty == \A c \in Ctx \ live : \A i \in Slot(c) : keys[c][i] = Empty

\* What the walk has passed makes no difference to its outcome.
WalkInv ==
  /\ op.fn \in {"get", "set"} =>
       First(parent, op.from, Holders(op.key)) = First(parent, op.ctx, Holders(op.key))
  /\ op.fn = "as" =>
       (Under(parent, op.sub, op.ctx) <=> Under(parent, op.cc, op.ctx))

RefInv == DeadEmpty /\ WalkInv

\* Tables hold each key once, the old one of a rehash too.
LEMMA TablesOnce ==
  ASSUME TypeOK, TableInv
  PROVE  /\ \A c \in Ctx : Once(keys[c], capacity[c])
         /\ op.fn = "grow" => Once(op.oldKeys, op.oldCap)
<1>1. ASSUME NEW c \in Ctx
      PROVE  Once(keys[c], capacity[c])
  <2>1. PICK n, K : n \in Nat \ {0} /\ n = capacity[c] /\ K = keys[c]
    BY TypedTables
  <2>2. IsTable(K, n) /\ Findable(K, n)
    BY <2>1, TypedTables DEF TableInv, TablesFindable
  <2>3. \A i, j \in 0 .. n - 1 : K[i] = K[j] /\ K[i] # Empty => i = j
    BY <2>1, <2>2, NoDuplicate
  <2>4. QED
    BY <2>1, <2>2, <2>3 DEF Once
<1>2. op.fn = "grow" => Once(op.oldKeys, op.oldCap)
  BY DEF TypeOK, TypeOp, TableInv, GrowInv, Once, IsTable
<1>3. QED
  BY <1>1, <1>2

\* A walk that finds a key, or none, in a table.
LEMMA HitHolds ==
  ASSUME TypeOK, TableInv, NEW c \in Ctx, NEW k \in Key, NEW i \in Slot(c), Hit(c, k, i)
  PROVE  c \in Holders(k)
<1>1. capacity[c] \in Nat /\ IsTable(keys[c], capacity[c])
  BY TypedTables
<1>2. keys[c][i] = k /\ k # Empty /\ i \in 0 .. capacity[c] - 1
  BY ContextsAssumption DEF Hit, Slot
<1>3. QED
  BY <1>1, <1>2, AllKeys DEF Holders

LEMMA MissHoldsNot ==
  ASSUME TypeOK, TableInv, NEW c \in Ctx, NEW k \in Key, NEW i \in Slot(c), Miss(c, k, i)
  PROVE  /\ c \notin Holders(k)
         /\ \A j \in Slot(c) : keys[c][j] # k
<1>1. PICK n, K : n \in Nat \ {0} /\ n = capacity[c] /\ K = keys[c]
  BY TypedTables
<1>2. IsTable(K, n) /\ Findable(K, n) /\ i \in 0 .. n - 1
  BY <1>1, TypedTables DEF TableInv, TablesFindable, Slot
<1>3. ProbesTo(K, n, k, {Empty, k}, i) /\ K[i] = Empty
  BY <1>1 DEF Miss
<1>4. \A j \in 0 .. n - 1 : K[j] # k
  BY <1>1, <1>2, <1>3, MissAbsent
<1>5. k \notin Stored(K, 0)
  BY <1>1, <1>2, <1>4, AllKeys
<1>6. QED
  BY <1>1, <1>4, <1>5 DEF Holders, Slot

LEMMA RefInit == Init => RefInv
BY DEF Init, Idle, RefInv, DeadEmpty, WalkInv, Slot

LEMMA RefStep ==
  ASSUME TypeOK, TableInv, RefInv, [Next]_vars
  PROVE  RefInv'
<1> USE ContextsAssumption
<1>0. parent \in Parents /\ live \subseteq Ctx
  BY DEF TypeOK, Parents
\* Most steps end an operation or are not part of a walk.
<1>1. ASSUME DeadEmpty', op'.fn \in {"idle", "bind", "grow"}
      PROVE  RefInv'
  BY <1>1 DEF RefInv, WalkInv
<1>2. ASSUME UNCHANGED <<live, keys, capacity>>
      PROVE  DeadEmpty'
  BY <1>2 DEF RefInv, DeadEmpty, Slot
<1>3. ASSUME op.ctx \in live, UNCHANGED live,
             \A c \in Ctx \ {op.ctx} : keys'[c] = keys[c] /\ capacity'[c] = capacity[c]
      PROVE  DeadEmpty'
  BY <1>3 DEF RefInv, DeadEmpty, Slot
<1>4. ASSUME NEW c \in Ctx, NEW p, Allocate(c, p)
      PROVE  RefInv'
  <2>1. DeadEmpty'
    BY <1>4 DEF Allocate, RefInv, DeadEmpty, Slot, TypeOK
  <2>2. QED
    BY <1>1, <1>4, <2>1 DEF Allocate, Idle
<1>5. CASE UNCHANGED vars
  BY <1>5 DEF vars, table, RefInv, DeadEmpty, WalkInv, Holders, Slot
<1>6. CASE Call
  <2>1. CASE EndObject \/ \E c \in Ctx : Lock(c)
    BY <1>1, <1>2, <2>1 DEF EndObject, Lock, Return, Idle, table
  <2>2. ASSUME NEW c \in Ctx, NEW k \in Key, CallGet(c, k)
        PROVE  RefInv'
    BY <1>2, <2>2 DEF CallGet, Begin, table, RefInv, WalkInv
  <2>3. ASSUME NEW c \in Ctx, NEW k \in Key, NEW v \in Value, CallSet(c, k, v)
        PROVE  RefInv'
    BY <1>2, <2>3 DEF CallSet, Begin, table, RefInv, WalkInv
  <2>4. ASSUME NEW c \in Ctx, NEW k \in Key, NEW v \in Value, CallBind(c, k, v)
        PROVE  RefInv'
    BY <1>1, <1>2, <2>4 DEF CallBind, Begin, Refuse, Return, Idle, table
  <2>5. ASSUME NEW c \in Ctx, NEW s \in Ctx \cup {NoCtx}, CallAs(c, s)
        PROVE  RefInv'
    <3>1. CASE lock[c]
      BY <1>1, <1>2, <2>5, <3>1 DEF CallAs, Refuse, Return, Idle, table
    <3>2. CASE ~lock[c]
      BY <1>2, <2>5, <3>2 DEF CallAs, Begin, table, RefInv, WalkInv
    <3>3. QED
      BY <3>1, <3>2
  <2>6. QED
    BY <1>4, <1>6, <2>1, <2>2, <2>3, <2>4, <2>5 DEF Call, Context_create, BeginObject
<1>7. CASE Step
  <2>1. CASE GetFound \/ SetFound \/ Unbound \/ BindOverwrite \/ AsCycle \/ AsSet
    <3>1. UNCHANGED <<live, keys, capacity>>
      BY <2>1 DEF GetFound, SetFound, Unbound, BindOverwrite, AsCycle, AsSet, table
    <3>2. op' = Idle
      BY <2>1 DEF GetFound, SetFound, Unbound, BindOverwrite, AsCycle, AsSet, Return
    <3>3. QED
      BY <1>1, <1>2, <3>1, <3>2 DEF Idle
  <2>2. CASE BindInsert \/ BindGrow \/ RehashSkip \/ RehashMove \/ GrowInsert
    <3>1. op.ctx \in live /\ UNCHANGED live
      BY <2>2 DEF BindInsert, BindGrow, RehashSkip, RehashMove, GrowInsert, TypeOK, TypeOp
    <3>2. op'.fn \in {"idle", "grow"}
      BY <2>2 DEF BindInsert, BindGrow, RehashSkip, RehashMove, GrowInsert, Return, Idle,
        TypeOK, TypeOp
    <3>3. \A c \in Ctx \ {op.ctx} : keys'[c] = keys[c] /\ capacity'[c] = capacity[c]
      BY <2>2 DEF BindInsert, BindGrow, RehashSkip, RehashMove, GrowInsert, table, TypeOK
    <3>4. QED
      BY <1>1, <1>3, <3>1, <3>2, <3>3
  <2>3. CASE WalkUp
    <3>1. /\ op.ctx \in Ctx /\ op.from \in Ctx /\ op.key \in Key
          /\ parent[op.ctx] \in Ctx
          /\ op.ctx \notin Holders(op.key)
      BY <1>0, <2>3, MissHoldsNot DEF WalkUp, TypeOK, TypeOp, Parents
    <3>2. /\ UNCHANGED <<live, keys, capacity, parent>>
          /\ op'.fn = op.fn /\ op'.key = op.key /\ op'.from = op.from
          /\ op'.ctx = parent[op.ctx]
          /\ op.fn \in {"get", "set"}
      BY <2>3 DEF WalkUp, table, TypeOK, TypeOp
    <3>3. First(parent, op.ctx, Holders(op.key)) = First(parent, parent[op.ctx], Holders(op.key))
      BY <1>0, <3>1, FirstGoesOn
    <3>4. First(parent, op.from, Holders(op.key)) = First(parent, parent[op.ctx], Holders(op.key))
      BY <3>2, <3>3 DEF RefInv, WalkInv
    <3>5. Holders(op.key)' = Holders(op.key)
      BY <3>2 DEF Holders
    <3>6. WalkInv'
      BY <3>2, <3>4, <3>5 DEF WalkInv
    <3>7. QED
      BY <1>2, <3>2, <3>6 DEF RefInv
  <2>4. CASE AsWalk
    <3>1. /\ op.fn = "as" /\ op.ctx \in Ctx /\ op.cc \in Ctx /\ op.cc # op.ctx
          /\ UNCHANGED <<live, keys, capacity, parent>>
          /\ op'.fn = "as" /\ op'.ctx = op.ctx /\ op'.sub = op.sub
          /\ op'.cc = parent[op.cc]
      BY <1>0, <2>4 DEF AsWalk, table, TypeOK, TypeOp
    <3>2. Under(parent, op.cc, op.ctx) <=> Under(parent, parent[op.cc], op.ctx)
      BY <1>0, <3>1, UnderGoesOn
    <3>3. WalkInv'
      BY <3>1, <3>2 DEF RefInv, WalkInv
    <3>4. QED
      BY <1>2, <3>1, <3>3 DEF RefInv
  <2>5. QED
    BY <1>7, <2>1, <2>2, <2>3, <2>4 DEF Step
<1>8. QED
  BY <1>5, <1>6, <1>7 DEF Next
-----------------------------------------------------------------------------
(* The mapped state                                                        *)

LEMMA BindingIs ==
  /\ DOMAIN binding = Ctx /\ DOMAIN binding' = Ctx
  /\ binding = [c \in Ctx |-> binding[c]] /\ binding' = [c \in Ctx |-> binding'[c]]
  /\ \A c \in Ctx :
       binding[c] = IF op.fn = "grow" /\ op.ctx = c
                    THEN Halves(keys[c], vals[c], op.oldKeys, op.oldVals, op.i)
                    ELSE Map(keys[c], vals[c])
  /\ \A c \in Ctx :
       binding'[c] = IF op'.fn = "grow" /\ op'.ctx = c
                     THEN Halves(keys'[c], vals'[c], op'.oldKeys, op'.oldVals, op'.i)
                     ELSE Map(keys'[c], vals'[c])
<1>1. ASSUME NEW c \in Ctx
      PROVE  binding[c] = IF op.fn = "grow" /\ op.ctx = c
                          THEN Halves(keys[c], vals[c], op.oldKeys, op.oldVals, op.i)
                          ELSE Map(keys[c], vals[c])
  BY DEF binding, Halves, Map
<1>2. ASSUME NEW c \in Ctx
      PROVE  binding'[c] = IF op'.fn = "grow" /\ op'.ctx = c
                           THEN Halves(keys'[c], vals'[c], op'.oldKeys, op'.oldVals, op'.i)
                           ELSE Map(keys'[c], vals'[c])
  BY DEF binding, Halves, Map
<1>3. /\ DOMAIN binding = Ctx /\ DOMAIN binding' = Ctx
      /\ binding = [c \in Ctx |-> binding[c]] /\ binding' = [c \in Ctx |-> binding'[c]]
  BY DEF binding
<1>4. QED
  BY <1>1, <1>2, <1>3

\* Outside a rehash a step that leaves the tables alone leaves the maps alone.
LEMMA BindingSame ==
  ASSUME UNCHANGED <<keys, vals>>, op.fn # "grow", op'.fn # "grow"
  PROVE  binding' = binding
<1>1. \A c \in Ctx : binding'[c] = binding[c]
  BY BindingIs
<1>2. QED
  BY <1>1, BindingIs

\* One map changes.
LEMMA BindingWith ==
  ASSUME NEW c \in Ctx, NEW M, binding'[c] = M,
         \A x \in Ctx \ {c} : binding'[x] = binding[x]
  PROVE  binding' = [binding EXCEPT ![c] = M]
BY BindingIs

LEMMA OwnerIs ==
  ASSUME op.fn # "grow", NEW c, NEW k
  PROVE  Scope!Owner(c, k) = First(parent, c, Holders(k))
<1>1. ASSUME NEW x \in Ctx
      PROVE  DOMAIN binding[x] = Stored(keys[x], 0)
  BY BindingIs DEF Map
<1>2. Scope!Binders(k) = Holders(k)
  BY <1>1 DEF Scope!Binders, Holders
<1>3. \A T : Scope!Up(c, T) = Way(parent, c, T)
  BY DEF Scope!Up, Way
<1>4. Scope!Owner(c, k) = Only(Scope!Up(c, Scope!Binders(k)) \cap Scope!Binders(k))
  BY DEF Scope!Owner, Only
<1>5. QED
  BY <1>2, <1>3, <1>4 DEF First

LEMMA InheritsIs ==
  ASSUME NEW s, NEW c
  PROVE  Scope!Inherits(s, c) <=> Under(parent, s, c)
BY DEF Scope!Inherits, Scope!Up, Under, Way

\* What is bound in a table.
LEMMA BoundHere ==
  ASSUME TypeOK, TableInv, op.fn # "grow", NEW c \in Ctx, NEW k \in Key,
         NEW i \in Slot(c), Hit(c, k, i)
  PROVE  binding[c][k] = vals[c][i]
<1> USE ContextsAssumption
<1>1. PICK n, K, V : n = capacity[c] /\ K = keys[c] /\ V = vals[c]
  OBVIOUS
<1>2. Once(K, n) /\ i \in 0 .. n - 1 /\ K[i] = k /\ k # Empty
  BY <1>1, TablesOnce DEF Hit, Slot
<1>3. k \in Stored(K, 0)
  BY <1>2, AllKeys DEF Once
<1>4. ValueOf(K, V, k) = V[i]
  BY <1>2, ValueAt
<1>5. QED
  BY <1>1, <1>3, <1>4, BindingIs DEF Map

\* The map of c after a write of v into the slot of k.
LEMMA WriteBinds ==
  ASSUME TypeOK, TableInv, op.fn # "grow", op' = Idle, NEW c \in Ctx, NEW k \in Key,
         NEW v, NEW i \in Slot(c), Hit(c, k, i),
         vals' = [vals EXCEPT ![c][i] = v], UNCHANGED keys
  PROVE  binding' = [binding EXCEPT ![c] = Scope!With(binding[c], k, v)]
<1>1. PICK n, K, V : n = capacity[c] /\ K = keys[c] /\ V = vals[c]
  OBVIOUS
<1>2. PICK V2 : V2 = vals'[c]
  OBVIOUS
<1>3. \A s \in 0 .. n - 1 : V2[s] = IF s = i THEN v ELSE V[s]
  BY <1>1, <1>2 DEF TypeOK, Slot
<1>4. Once(K, n) /\ i \in 0 .. n - 1 /\ K[i] = k
  BY <1>1, TablesOnce DEF Hit, Slot
<1>5. Map(K, V2) = Scope!With(Map(K, V), k, v)
  BY <1>3, <1>4, MapOverwritten
<1>6. binding'[c] = Scope!With(binding[c], k, v)
  <2>1. binding'[c] = Map(K, V2)
    BY <1>1, <1>2, BindingIs DEF Idle
  <2>2. binding[c] = Map(K, V)
    BY <1>1, BindingIs
  <2>3. QED
    BY <1>5, <2>1, <2>2
<1>7. \A x \in Ctx \ {c} : binding'[x] = binding[x]
  BY BindingIs DEF Idle, TypeOK
<1>8. QED
  BY <1>6, <1>7, BindingWith

\* The map of c after k has been put into a free slot.
LEMMA FillBinds ==
  ASSUME TypeOK, TypeOK', TableInv, NEW c \in Ctx, NEW k \in Key, NEW v, NEW j \in Slot(c),
         keys[c][j] = Empty, \A i \in Slot(c) : keys[c][i] # k,
         keys' = [keys EXCEPT ![c][j] = k], vals' = [vals EXCEPT ![c][j] = v],
         UNCHANGED capacity
  PROVE  /\ Map(keys'[c], vals'[c]) = Scope!With(Map(keys[c], vals[c]), k, v)
         /\ \A x \in Ctx \ {c} : keys'[x] = keys[x] /\ vals'[x] = vals[x]
<1>1. PICK n, K, V : n = capacity[c] /\ K = keys[c] /\ V = vals[c]
  OBVIOUS
<1>2. PICK K2, V2 : K2 = keys'[c] /\ V2 = vals'[c]
  OBVIOUS
<1>3. /\ \A s \in 0 .. n - 1 : K2[s] = IF s = j THEN k ELSE K[s]
      /\ \A s \in 0 .. n - 1 : V2[s] = IF s = j THEN v ELSE V[s]
  BY <1>1, <1>2 DEF TypeOK, Slot
<1>4. /\ Once(K, n) /\ j \in 0 .. n - 1 /\ K[j] = Empty
      /\ \A i \in 0 .. n - 1 : K[i] # k
  BY <1>1, TablesOnce DEF Slot
<1>5. IsTable(K2, n)
  BY <1>1, <1>2 DEF IsTable, TypeOK, Slot
<1>6. Map(K2, V2) = Scope!With(Map(K, V), k, v)
  BY <1>3, <1>4, <1>5, MapFilled
<1>7. \A x \in Ctx \ {c} : keys'[x] = keys[x] /\ vals'[x] = vals[x]
  BY DEF TypeOK
<1>8. QED
  BY <1>1, <1>2, <1>6, <1>7
-----------------------------------------------------------------------------
(* Steps                                                                   *)

\* What the operations between two calls do is done at once in Scopes.
LEMMA AllocateSimulated ==
  ASSUME TypeOK, LockInv, RefInv, NEW c \in Ctx, NEW p \in live \cup {NoCtx}, Allocate(c, p),
         open' \in {open} \cup (IF p = NoCtx THEN {} ELSE {Append(open, c)})
  PROVE  Scope!Next
<1>1. /\ op = Idle /\ op' = Idle /\ c \notin live
      /\ live' = live \cup {c} /\ parent' = [parent EXCEPT ![c] = p]
      /\ ret' = ret
  BY DEF Allocate
<1>2. lock' = lock
  BY <1>1 DEF Allocate, LockInv, TypeOK
<1>3. Stored(keys[c], 0) = {} /\ Stored(keys'[c], 0) = {}
  <2>1. keys'[c] = [i \in 0 .. StartCap - 1 |-> Empty]
    BY DEF Allocate, TypeOK
  <2>2. keys[c] \in [Slot(c) -> Key \cup {Empty}] /\ \A i \in Slot(c) : keys[c][i] = Empty
    BY <1>1 DEF RefInv, DeadEmpty, TypeOK
  <2>3. QED
    BY <2>1, <2>2 DEF Stored
<1>4. \A x \in Ctx \ {c} : keys'[x] = keys[x] /\ vals'[x] = vals[x]
  BY DEF Allocate, TypeOK
<1>5. binding'[c] = binding[c]
  <2>1. binding[c] = Map(keys[c], vals[c]) /\ binding'[c] = Map(keys'[c], vals'[c])
    BY <1>1, BindingIs DEF Idle
  <2>2. QED
    BY <1>3, <2>1 DEF Map
<1>6. \A x \in Ctx \ {c} : binding'[x] = binding[x]
  BY <1>1, <1>4, BindingIs DEF Idle
<1>7. binding' = binding
  BY <1>5, <1>6, BindingIs
<1>8. call = Idle /\ call' = Idle
  BY <1>1 DEF call, Idle
<1>9. Scope!Create
  BY <1>1, <1>2, <1>7, <1>8 DEF Scope!Create, Scope!NoCall, Idle
<1>10. QED
  BY <1>9 DEF Scope!Next

LEMMA CallSimulated ==
  ASSUME TypeOK, LockInv, RefInv, Call
  PROVE  Scope!Next
<1>1. ASSUME NEW c \in Ctx, NEW p \in Ctx \cup {NoCtx}, Context_create(c, p)
      PROVE  Scope!Next
  <2>1. p \in live \cup {NoCtx} /\ Allocate(c, p) /\ open' \in {open}
    BY <1>1 DEF Context_create
  <2>2. QED
    BY <2>1, AllocateSimulated
<1>2. ASSUME NEW c \in Ctx, NEW p \in Ctx, BeginObject(c, p)
      PROVE  Scope!Next
  <2>1. p \in live /\ p # NoCtx /\ Allocate(c, p) /\ open' = Append(open, c)
    BY <1>2, ContextsAssumption DEF BeginObject
  <2>2. QED
    BY <2>1, AllocateSimulated
\* The others leave the tables alone.
<1>3. ASSUME UNCHANGED <<live, table>>, op = Idle, op' = Idle
      PROVE  /\ UNCHANGED <<live, binding>>
             /\ call = Scope!NoCall /\ call' = Scope!NoCall
  <2>1. binding' = binding
    BY <1>3, BindingSame DEF Idle, table
  <2>2. QED
    BY <1>3, <2>1 DEF call, Idle, Scope!NoCall
<1>4. CASE EndObject
  <2>1. UNCHANGED <<live, binding>> /\ call = Scope!NoCall /\ call' = Scope!NoCall
    BY <1>3, <1>4 DEF EndObject, Return
  <2>2. Scope!CloseObject
    BY <1>4, <2>1 DEF EndObject, Return, Scope!CloseObject, Scope!Answer
  <2>3. QED
    BY <2>2 DEF Scope!Next
<1>5. ASSUME NEW c \in Ctx, Lock(c)
      PROVE  Scope!Next
  <2>1. UNCHANGED <<live, binding>> /\ call = Scope!NoCall /\ call' = Scope!NoCall
    BY <1>3, <1>5 DEF Lock, Return
  <2>2. Scope!LockOne
    BY <1>5, <2>1 DEF Lock, Return, Scope!LockOne, Scope!Answer
  <2>3. QED
    BY <2>2 DEF Scope!Next
<1>6. ASSUME Refuse, UNCHANGED <<live, table, parent, lock, open>>,
             \E c \in live : lock[c]
      PROVE  Scope!Next
  <2>1. UNCHANGED <<live, binding>> /\ call = Scope!NoCall /\ call' = Scope!NoCall
    BY <1>3, <1>6 DEF Refuse, Return
  <2>2. Scope!Refused
    BY <1>6, <2>1 DEF Refuse, Return, Scope!Refused, Scope!Answer, Scope!state
  <2>3. QED
    BY <2>2 DEF Scope!Next
\* A request.
<1>7. ASSUME NEW r, Begin(r), r.fn \notin {"grow"}, UNCHANGED <<live, table, parent, lock, open>>
      PROVE  /\ call = Scope!NoCall
             /\ op' = r
             /\ ret' = [res |-> "none", val |-> NoValue]
             /\ UNCHANGED Scope!state
  <2>1. op = Idle /\ op' = r /\ ret' = [res |-> "none", val |-> NoValue]
    BY <1>7 DEF Begin
  <2>2. binding' = binding
    BY <1>7, <2>1, BindingSame DEF Idle, table
  <2>3. QED
    BY <1>7, <2>1, <2>2 DEF call, Idle, Scope!NoCall, Scope!state
<1>8. ASSUME NEW c \in Ctx, NEW k \in Key, CallGet(c, k)
      PROVE  Scope!Next
  <2>1. PICK r : r = [fn |-> "get", from |-> c, key |-> k, ctx |-> c]
    OBVIOUS
  <2>2. /\ call = Scope!NoCall /\ op' = r /\ UNCHANGED Scope!state
        /\ ret' = [res |-> "none", val |-> NoValue] /\ c \in live
    BY <1>7, <1>8, <2>1 DEF CallGet
  <2>3. call' = [fn |-> "get", ctx |-> c, key |-> k]
    BY <2>1, <2>2 DEF call
  <2>4. Scope!Request
    BY <2>2, <2>3 DEF Scope!Request
  <2>5. QED
    BY <2>4 DEF Scope!Next
<1>9. ASSUME NEW c \in Ctx, NEW k \in Key, NEW v \in Value, CallSet(c, k, v)
      PROVE  Scope!Next
  <2>1. PICK r : r = [fn |-> "set", from |-> c, key |-> k, val |-> v, ctx |-> c]
    OBVIOUS
  <2>2. /\ call = Scope!NoCall /\ op' = r /\ UNCHANGED Scope!state
        /\ ret' = [res |-> "none", val |-> NoValue] /\ c \in live
    BY <1>7, <1>9, <2>1 DEF CallSet
  <2>3. call' = [fn |-> "set", ctx |-> c, key |-> k, val |-> v]
    BY <2>1, <2>2 DEF call
  <2>4. Scope!Request
    BY <2>2, <2>3 DEF Scope!Request
  <2>5. QED
    BY <2>4 DEF Scope!Next
<1>10. ASSUME NEW c \in Ctx, NEW k \in Key, NEW v \in Value, CallBind(c, k, v)
       PROVE  Scope!Next
  <2>1. CASE lock[c]
    BY <1>6, <1>10, <2>1 DEF CallBind
  <2>2. CASE ~lock[c]
    <3>1. PICK r : r = [fn |-> "bind", ctx |-> c, key |-> k, val |-> v]
      OBVIOUS
    <3>2. /\ call = Scope!NoCall /\ op' = r /\ UNCHANGED Scope!state
          /\ ret' = [res |-> "none", val |-> NoValue] /\ c \in live
      BY <1>7, <1>10, <2>2, <3>1 DEF CallBind
    <3>3. call' = [fn |-> "bind", ctx |-> c, key |-> k, val |-> v]
      BY <3>1, <3>2 DEF call
    <3>4. Scope!Request
      BY <2>2, <3>2, <3>3 DEF Scope!Request
    <3>5. QED
      BY <3>4 DEF Scope!Next
  <2>3. QED
    BY <2>1, <2>2
<1>11. ASSUME NEW c \in Ctx, NEW s \in Ctx \cup {NoCtx}, CallAs(c, s)
       PROVE  Scope!Next
  <2>1. CASE lock[c]
    BY <1>6, <1>11, <2>1 DEF CallAs
  <2>2. CASE ~lock[c]
    <3>1. PICK r : r = [fn |-> "as", ctx |-> c, sub |-> s, cc |-> s]
      OBVIOUS
    <3>2. /\ call = Scope!NoCall /\ op' = r /\ UNCHANGED Scope!state
          /\ ret' = [res |-> "none", val |-> NoValue]
          /\ c \in live /\ s \in live \cup {NoCtx}
      BY <1>7, <1>11, <2>2, <3>1 DEF CallAs
    <3>3. call' = [fn |-> "as", ctx |-> c, sub |-> s]
      BY <3>1, <3>2 DEF call
    <3>4. Scope!Request
      BY <2>2, <3>2, <3>3 DEF Scope!Request
    <3>5. QED
      BY <3>4 DEF Scope!Next
  <2>3. QED
    BY <2>1, <2>2
<1>12. QED
  BY <1>1, <1>2, <1>4, <1>5, <1>8, <1>9, <1>10, <1>11 DEF Call

\* Context_get and Context_set: steps up the chain are invisible, and the
\* answer is that of the owner.
LEMMA AccessSimulated ==
  ASSUME TypeOK, TableInv, RefInv, GetFound \/ SetFound \/ WalkUp \/ Unbound
  PROVE  [Scope!Next]_Scope!vars
<1> USE ContextsAssumption
<1>1. /\ op.fn \in {"get", "set"}
      /\ op.ctx \in Ctx /\ op.key \in Key
      /\ UNCHANGED <<live, keys, parent, lock, open>>
      /\ parent \in Parents
  BY DEF GetFound, SetFound, WalkUp, Unbound, table, TypeOK, TypeOp, Parents
<1>2. PICK o : o = First(parent, op.ctx, Holders(op.key))
  OBVIOUS
<1>3. Scope!Owner(op.from, op.key) = o
  BY <1>1, <1>2, OwnerIs DEF RefInv, WalkInv
<1>4. op.fn = "get" => call = [fn |-> "get", ctx |-> op.from, key |-> op.key]
  BY DEF call
<1>5. op.fn = "set" =>
        call = [fn |-> "set", ctx |-> op.from, key |-> op.key, val |-> op.val]
  BY DEF call
<1>6. ASSUME op' = Idle
      PROVE  call' = Scope!NoCall
  BY <1>6 DEF call, Idle, Scope!NoCall
<1>7. CASE GetFound
  <2>1. PICK i \in Slot(op.ctx) : Hit(op.ctx, op.key, i) /\ Return("ok", vals[op.ctx][i])
    BY <1>7 DEF GetFound
  <2>2. o = op.ctx /\ o # NoCtx
    BY <1>1, <1>2, <2>1, HitHolds, FirstHere
  <2>3. binding[o][op.key] = vals[op.ctx][i]
    BY <1>1, <2>1, <2>2, BoundHere
  <2>4. binding' = binding
    BY <1>1, <1>7, <2>1, BindingSame DEF GetFound, table, Return, Idle
  <2>5. op.fn = "get" /\ op' = Idle /\ ret' = [res |-> "ok", val |-> vals[op.ctx][i]]
    BY <1>7, <2>1 DEF GetFound, Return
  <2>6. Scope!Get
    BY <1>1, <1>3, <1>4, <1>6, <2>2, <2>3, <2>4, <2>5 DEF Scope!Get, Scope!Answer, Scope!state
  <2>7. QED
    BY <2>6 DEF Scope!Next
<1>8. CASE SetFound
  <2>1. PICK i \in Slot(op.ctx) :
          /\ Hit(op.ctx, op.key, i)
          /\ IF lock[op.ctx]
             THEN Return("locked", NoValue) /\ UNCHANGED vals
             ELSE /\ Return("ok", NoValue)
                  /\ vals' = [vals EXCEPT ![op.ctx][i] = op.val]
    BY <1>8 DEF SetFound
  <2>2. o = op.ctx /\ o # NoCtx
    BY <1>1, <1>2, <2>1, HitHolds, FirstHere
  <2>3. op.fn = "set" /\ op' = Idle
    BY <1>8, <2>1 DEF SetFound, Return
  <2>4. CASE lock[op.ctx]
    <3>1. UNCHANGED vals /\ ret' = [res |-> "locked", val |-> NoValue]
      BY <2>1, <2>4 DEF Return
    <3>2. binding' = binding
      BY <1>1, <2>3, <3>1, BindingSame DEF Idle
    <3>3. Scope!Set
      BY <1>1, <1>3, <1>5, <1>6, <2>2, <2>3, <2>4, <3>1, <3>2 DEF Scope!Set, Scope!Answer
    <3>4. QED
      BY <3>3 DEF Scope!Next
  <2>5. CASE ~lock[op.ctx]
    <3>1. /\ vals' = [vals EXCEPT ![op.ctx][i] = op.val]
          /\ ret' = [res |-> "ok", val |-> NoValue]
      BY <2>1, <2>5 DEF Return
    <3>2. binding' = [binding EXCEPT ![op.ctx] = Scope!With(binding[op.ctx], op.key, op.val)]
      BY <1>1, <2>1, <2>3, <3>1, WriteBinds
    <3>3. /\ call.fn = "set" /\ call.ctx = op.from /\ call.key = op.key
          /\ call.val = op.val
      BY <1>5, <2>3
    <3>4. /\ Scope!Owner(call.ctx, call.key) = o
          /\ binding' = [binding EXCEPT ![o] = Scope!With(binding[o], call.key, call.val)]
      BY <1>3, <2>2, <3>2, <3>3
    <3>5. Scope!Answer("ok", NoValue) /\ ~lock[o]
      BY <1>6, <2>2, <2>3, <2>5, <3>1 DEF Scope!Answer
    <3>6. Scope!Set
      BY <1>1, <2>2, <3>3, <3>4, <3>5 DEF Scope!Set
    <3>7. QED
      BY <3>6 DEF Scope!Next
  <2>6. QED
    BY <2>4, <2>5
<1>9. CASE WalkUp
  <2>1. /\ op'.fn = op.fn /\ op'.key = op.key /\ op'.from = op.from
        /\ op.fn = "set" => op'.val = op.val
        /\ UNCHANGED <<vals, ret>>
    BY <1>9 DEF WalkUp, table, TypeOK, TypeOp
  <2>2. binding' = binding
    BY <1>1, <2>1, BindingSame
  <2>3. call' = call
    BY <1>1, <2>1 DEF call
  <2>4. QED
    BY <1>1, <2>1, <2>2, <2>3 DEF Scope!vars
<1>10. CASE Unbound
  <2>1. PICK i \in Slot(op.ctx) : Miss(op.ctx, op.key, i)
    BY <1>10 DEF Unbound
  <2>2. parent[op.ctx] = NoCtx /\ op' = Idle /\ ret' = [res |-> "unbound", val |-> NoValue]
    BY <1>10 DEF Unbound, Return
  <2>3. o = NoCtx
    BY <1>1, <1>2, <2>1, <2>2, MissHoldsNot, FirstNone
  <2>4. binding' = binding
    BY <1>1, <1>10, <2>2, BindingSame DEF Unbound, table, Idle
  <2>5. CASE op.fn = "get"
    <3>1. Scope!Get
      BY <1>1, <1>3, <1>4, <1>6, <2>2, <2>3, <2>4, <2>5 DEF Scope!Get, Scope!Answer, Scope!state
    <3>2. QED
      BY <3>1 DEF Scope!Next
  <2>6. CASE op.fn = "set"
    <3>1. Scope!Set
      BY <1>1, <1>3, <1>5, <1>6, <2>2, <2>3, <2>4, <2>6 DEF Scope!Set, Scope!Answer
    <3>2. QED
      BY <3>1 DEF Scope!Next
  <2>7. QED
    BY <1>1, <2>5, <2>6
<1>11. QED
  BY <1>7, <1>8, <1>9, <1>10

\* Context_bind: the map changes at once when the bind returns, and not while
\* the table is rehashed.
LEMMA BindSimulated ==
  ASSUME TypeOK, TypeOK', TableInv, BindOverwrite \/ BindInsert \/ BindGrow
  PROVE  [Scope!Next]_Scope!vars
<1> USE ContextsAssumption
<1>1. /\ op.fn = "bind"
      /\ op.ctx \in Ctx /\ op.key \in Key
      /\ UNCHANGED <<live, parent, lock, open>>
      /\ call = [fn |-> "bind", ctx |-> op.ctx, key |-> op.key, val |-> op.val]
  BY DEF BindOverwrite, BindInsert, BindGrow, TypeOK, TypeOp, call
<1>2. ASSUME op' = Idle, ret' = [res |-> "ok", val |-> NoValue],
             binding' = [binding EXCEPT ![op.ctx] = Scope!With(binding[op.ctx], op.key, op.val)]
      PROVE  Scope!Next
  <2>1. Scope!Answer("ok", NoValue)
    BY <1>2 DEF Scope!Answer, Scope!NoCall, call, Idle
  <2>2. Scope!Bind
    BY <1>1, <1>2, <2>1 DEF Scope!Bind
  <2>3. QED
    BY <2>2 DEF Scope!Next
<1>3. CASE BindOverwrite
  <2>1. PICK i \in Slot(op.ctx) : /\ Hit(op.ctx, op.key, i)
                                  /\ vals' = [vals EXCEPT ![op.ctx][i] = op.val]
    BY <1>3 DEF BindOverwrite
  <2>2. op' = Idle /\ ret' = [res |-> "ok", val |-> NoValue] /\ UNCHANGED keys
    BY <1>3 DEF BindOverwrite, Return
  <2>3. binding' = [binding EXCEPT ![op.ctx] = Scope!With(binding[op.ctx], op.key, op.val)]
    BY <1>1, <2>1, <2>2, WriteBinds
  <2>4. QED
    BY <1>2, <2>2, <2>3
<1>4. CASE BindInsert
  <2>1. PICK j \in Slot(op.ctx) : /\ Miss(op.ctx, op.key, j)
                                  /\ keys' = [keys EXCEPT ![op.ctx][j] = op.key]
                                  /\ vals' = [vals EXCEPT ![op.ctx][j] = op.val]
    BY <1>4 DEF BindInsert
  <2>2. op' = Idle /\ ret' = [res |-> "ok", val |-> NoValue] /\ UNCHANGED capacity
    BY <1>4 DEF BindInsert, Return
  <2>3. /\ keys[op.ctx][j] = Empty
        /\ \A i \in Slot(op.ctx) : keys[op.ctx][i] # op.key
    BY <1>1, <2>1, MissHoldsNot DEF Miss
  <2>4. /\ Map(keys'[op.ctx], vals'[op.ctx])
             = Scope!With(Map(keys[op.ctx], vals[op.ctx]), op.key, op.val)
        /\ \A x \in Ctx \ {op.ctx} : keys'[x] = keys[x] /\ vals'[x] = vals[x]
    BY <1>1, <2>1, <2>2, <2>3, FillBinds
  <2>5. /\ binding'[op.ctx] = Scope!With(binding[op.ctx], op.key, op.val)
        /\ \A x \in Ctx \ {op.ctx} : binding'[x] = binding[x]
    BY <1>1, <2>2, <2>4, BindingIs DEF Idle
  <2>6. binding' = [binding EXCEPT ![op.ctx] = Scope!With(binding[op.ctx], op.key, op.val)]
    BY <1>1, <2>5, BindingWith
  <2>7. QED
    BY <1>2, <2>2, <2>6
<1>5. CASE BindGrow
  <2>1. PICK n : n = 2 * capacity[op.ctx]
    OBVIOUS
  <2>2. /\ keys' = [keys EXCEPT ![op.ctx] = [i \in 0 .. n - 1 |-> Empty]]
        /\ vals' = [vals EXCEPT ![op.ctx] = [i \in 0 .. n - 1 |-> NoValue]]
        /\ op'.fn = "grow" /\ op'.ctx = op.ctx /\ op'.key = op.key /\ op'.val = op.val
        /\ op'.oldKeys = keys[op.ctx] /\ op'.oldVals = vals[op.ctx] /\ op'.i = 0
        /\ ret' = ret /\ n \in Nat
    BY <1>1, <1>5, <2>1 DEF BindGrow, TypeOK
  <2>3. /\ keys'[op.ctx] = [i \in 0 .. n - 1 |-> Empty]
        /\ \A x \in Ctx \ {op.ctx} : keys'[x] = keys[x] /\ vals'[x] = vals[x]
    BY <1>1, <2>2 DEF TypeOK
  <2>4. Halves(keys'[op.ctx], vals'[op.ctx], keys[op.ctx], vals[op.ctx], 0)
          = Map(keys[op.ctx], vals[op.ctx])
    BY <2>2, <2>3, HalvesFirst
  <2>5. binding'[op.ctx] = binding[op.ctx]
    <3>1. binding'[op.ctx]
            = Halves(keys'[op.ctx], vals'[op.ctx], op'.oldKeys, op'.oldVals, op'.i)
      BY <1>1, <2>2, BindingIs
    <3>2. binding[op.ctx] = Map(keys[op.ctx], vals[op.ctx])
      BY <1>1, BindingIs
    <3>3. QED
      BY <2>2, <2>4, <3>1, <3>2
  <2>6. \A x \in Ctx \ {op.ctx} : binding'[x] = binding[x]
    BY <1>1, <2>2, <2>3, BindingIs
  <2>7. binding' = binding
    BY <1>1, <2>5, <2>6, BindingIs
  <2>8. call' = call
    BY <1>1, <2>2 DEF call
  <2>9. QED
    BY <1>1, <2>2, <2>7, <2>8 DEF Scope!vars
<1>6. QED
  BY <1>3, <1>4, <1>5

LEMMA RehashSimulated ==
  ASSUME TypeOK, TypeOK', TableInv, RehashSkip \/ RehashMove \/ GrowInsert
  PROVE  [Scope!Next]_Scope!vars
<1> USE ContextsAssumption
<1>1. /\ op.fn = "grow"
      /\ op.ctx \in Ctx /\ op.key \in Key
      /\ UNCHANGED <<live, parent, lock, open, capacity>>
      /\ call = [fn |-> "bind", ctx |-> op.ctx, key |-> op.key, val |-> op.val]
  BY DEF RehashSkip, RehashMove, GrowInsert, table, TypeOK, TypeOp, call
<1>2. PICK n, m, i, K, V, O, OV :
        /\ n = capacity[op.ctx] /\ K = keys[op.ctx] /\ V = vals[op.ctx]
        /\ m = op.oldCap /\ O = op.oldKeys /\ OV = op.oldVals /\ i = op.i
  OBVIOUS
<1>3. Once(K, n) /\ Once(O, m) /\ m \in Nat /\ i \in 0 .. m /\ Slot(op.ctx) = 0 .. n - 1
  BY <1>1, <1>2, TablesOnce DEF TypeOK, TypeOp, Slot
<1>4. binding[op.ctx] = Halves(K, V, O, OV, i)
  BY <1>1, <1>2, BindingIs
\* A turn of the loop.
<1>5. ASSUME op' = [op EXCEPT !.i = op.i + 1], UNCHANGED ret,
             \A x \in Ctx \ {op.ctx} : keys'[x] = keys[x] /\ vals'[x] = vals[x],
             Halves(keys'[op.ctx], vals'[op.ctx], O, OV, i + 1) = Halves(K, V, O, OV, i)
      PROVE  UNCHANGED Scope!vars
  <2>1. /\ op'.fn = "grow" /\ op'.ctx = op.ctx /\ op'.key = op.key /\ op'.val = op.val
        /\ op'.oldKeys = O /\ op'.oldVals = OV /\ op'.i = i + 1
    BY <1>1, <1>2, <1>5 DEF TypeOK, TypeOp
  <2>2. binding'[op.ctx] = binding[op.ctx]
    BY <1>1, <1>4, <1>5, <2>1, BindingIs
  <2>3. \A x \in Ctx \ {op.ctx} : binding'[x] = binding[x]
    BY <1>1, <1>5, <2>1, BindingIs
  <2>4. binding' = binding
    BY <1>1, <2>2, <2>3, BindingIs
  <2>5. call' = call
    BY <1>1, <2>1 DEF call
  <2>6. QED
    BY <1>1, <1>5, <2>4, <2>5 DEF Scope!vars
<1>6. CASE RehashSkip
  <2>1. /\ i \in 0 .. m - 1 /\ O[i] = Empty /\ UNCHANGED <<keys, vals, ret>>
        /\ op' = [op EXCEPT !.i = op.i + 1]
    BY <1>2, <1>3, <1>6 DEF RehashSkip, table
  <2>2. Halves(K, V, O, OV, i + 1) = Halves(K, V, O, OV, i)
    BY <1>3, <2>1, HalvesSkip DEF Once
  <2>3. QED
    BY <1>2, <1>5, <2>1, <2>2
<1>7. CASE RehashMove
  <2>1. /\ i \in 0 .. m - 1 /\ O[i] # Empty /\ UNCHANGED ret
        /\ op' = [op EXCEPT !.i = op.i + 1]
    BY <1>2, <1>3, <1>7 DEF RehashMove
  <2>0. PICK k, v : k = O[i] /\ v = OV[i]
    OBVIOUS
  <2>2. PICK j \in 0 .. n - 1 :
          /\ K[j] = Empty
          /\ keys' = [keys EXCEPT ![op.ctx][j] = k]
          /\ vals' = [vals EXCEPT ![op.ctx][j] = v]
    BY <1>2, <1>3, <1>7, <2>0 DEF RehashMove, ProbesTo
  <2>3. PICK K2, V2 : K2 = keys'[op.ctx] /\ V2 = vals'[op.ctx]
    OBVIOUS
  <2>4. /\ \A s \in 0 .. n - 1 : K2[s] = IF s = j THEN k ELSE K[s]
        /\ \A s \in 0 .. n - 1 : V2[s] = IF s = j THEN v ELSE V[s]
    BY <1>1, <1>2, <1>3, <2>2, <2>3 DEF TypeOK
  <2>5. IsTable(K2, n)
    BY <1>1, <1>2, <2>3 DEF IsTable, TypeOK, Slot
  <2>6. k \in Key /\ \A s \in 0 .. n - 1 : K[s] # k
    <3>1. \A s \in Slot(op.ctx), l \in op.i .. op.oldCap - 1 :
            keys[op.ctx][s] # Empty => keys[op.ctx][s] # op.oldKeys[l]
      BY <1>1 DEF TableInv, GrowInv
    <3>2. i \in op.i .. op.oldCap - 1
      BY <1>2, <2>1
    <3>3. k \in Key /\ k # Empty
      BY <1>3, <2>0, <2>1 DEF Once, IsTable
    <3>4. QED
      BY <1>2, <1>3, <2>0, <3>1, <3>2, <3>3
  <2>7. Map(K2, V2) = Scope!With(Map(K, V), k, v)
    <3>1. Once(K, n) /\ K[j] = Empty
      BY <1>3, <2>2
    <3>2. QED
      BY <2>4, <2>5, <2>6, <3>1, MapFilled
  <2>8. Halves(K2, V2, O, OV, i + 1) = Halves(K, V, O, OV, i)
    BY <1>3, <2>0, <2>1, <2>6, <2>7, HalvesMove
  <2>9. \A x \in Ctx \ {op.ctx} : keys'[x] = keys[x] /\ vals'[x] = vals[x]
    BY <2>2 DEF TypeOK
  <2>10. QED
    BY <1>5, <2>1, <2>3, <2>8, <2>9
<1>8. CASE GrowInsert
  <2>1. i = m /\ op' = Idle /\ ret' = [res |-> "ok", val |-> NoValue]
    BY <1>2, <1>8 DEF GrowInsert, Return
  <2>2. PICK j \in Slot(op.ctx) :
          /\ keys[op.ctx][j] = Empty
          /\ keys' = [keys EXCEPT ![op.ctx][j] = op.key]
          /\ vals' = [vals EXCEPT ![op.ctx][j] = op.val]
    BY <1>8 DEF GrowInsert, ProbesTo
  <2>3. \A s \in Slot(op.ctx) : keys[op.ctx][s] # op.key
    BY <1>1 DEF TableInv, GrowInv
  <2>4. /\ Map(keys'[op.ctx], vals'[op.ctx])
             = Scope!With(Map(keys[op.ctx], vals[op.ctx]), op.key, op.val)
        /\ \A x \in Ctx \ {op.ctx} : keys'[x] = keys[x] /\ vals'[x] = vals[x]
    BY <1>1, <2>2, <2>3, FillBinds
  <2>5. binding[op.ctx] = Map(keys[op.ctx], vals[op.ctx])
    BY <1>2, <1>3, <1>4, <2>1, HalvesLast DEF Once
  <2>6. /\ binding'[op.ctx] = Scope!With(binding[op.ctx], op.key, op.val)
        /\ \A x \in Ctx \ {op.ctx} : binding'[x] = binding[x]
    BY <1>1, <2>1, <2>4, <2>5, BindingIs DEF Idle
  <2>7. binding' = [binding EXCEPT ![op.ctx] = Scope!With(binding[op.ctx], op.key, op.val)]
    BY <1>1, <2>6, BindingWith
  <2>8. Scope!Answer("ok", NoValue)
    BY <2>1 DEF Scope!Answer, Scope!NoCall, call, Idle
  <2>9. Scope!Bind
    BY <1>1, <2>7, <2>8 DEF Scope!Bind
  <2>10. QED
    BY <2>9 DEF Scope!Next
<1>9. QED
  BY <1>6, <1>7, <1>8

\* `as`: the walk is invisible.
LEMMA AsSimulated ==
  ASSUME TypeOK, RefInv, AsCycle \/ AsWalk \/ AsSet
  PROVE  [Scope!Next]_Scope!vars
<1> USE ContextsAssumption
<1>1. /\ op.fn = "as"
      /\ op.ctx \in Ctx
      /\ UNCHANGED <<live, keys, vals, lock, open>>
      /\ call = [fn |-> "as", ctx |-> op.ctx, sub |-> op.sub]
      /\ parent \in Parents
  BY DEF AsCycle, AsWalk, AsSet, table, TypeOK, TypeOp, call, Parents
<1>2. Scope!Inherits(op.sub, op.ctx) <=> Under(parent, op.cc, op.ctx)
  BY <1>1, InheritsIs DEF RefInv, WalkInv
<1>3. op'.fn \in {"idle", "as"}
  BY <1>1 DEF AsCycle, AsWalk, AsSet, Return, Idle, TypeOK, TypeOp
<1>4. binding' = binding
  BY <1>1, <1>3, BindingSame
<1>5. ASSUME op' = Idle
      PROVE  call' = Scope!NoCall
  BY <1>5 DEF call, Idle, Scope!NoCall
<1>6. CASE AsCycle
  <2>1. /\ op.cc = op.ctx /\ op' = Idle /\ ret' = [res |-> "cycle", val |-> NoValue]
        /\ UNCHANGED parent
    BY <1>6 DEF AsCycle, Return
  <2>2. Scope!Inherits(op.sub, op.ctx)
    BY <1>1, <1>2, <2>1, WayClosed DEF Under
  <2>3. Scope!As
    BY <1>1, <1>4, <1>5, <2>1, <2>2 DEF Scope!As, Scope!Answer
  <2>4. QED
    BY <2>3 DEF Scope!Next
<1>7. CASE AsWalk
  <2>1. /\ op'.fn = "as" /\ op'.ctx = op.ctx /\ op'.sub = op.sub
        /\ UNCHANGED <<parent, ret>>
    BY <1>7 DEF AsWalk, TypeOK, TypeOp
  <2>2. call' = call
    BY <1>1, <2>1 DEF call
  <2>3. QED
    BY <1>1, <1>4, <2>1, <2>2 DEF Scope!vars
<1>8. CASE AsSet
  <2>1. /\ op.cc = NoCtx /\ op' = Idle /\ ret' = [res |-> "ok", val |-> NoValue]
        /\ parent' = [parent EXCEPT ![op.ctx] = op.sub]
    BY <1>8 DEF AsSet, Return
  <2>2. ~Scope!Inherits(op.sub, op.ctx)
    BY <1>2, <2>1 DEF Under
  <2>3. Scope!As
    BY <1>1, <1>4, <1>5, <2>1, <2>2 DEF Scope!As, Scope!Answer
  <2>4. QED
    BY <2>3 DEF Scope!Next
<1>9. QED
  BY <1>6, <1>7, <1>8
-----------------------------------------------------------------------------
(* The theorem                                                             *)

LEMMA InitSimulated == Init => Scope!Init
<1> SUFFICES ASSUME Init
             PROVE  Scope!Init
  OBVIOUS
<1>1. op = Idle /\ op.fn = "idle"
  BY DEF Init, Idle
<1>2. ASSUME NEW c \in Ctx
      PROVE  binding[c] = Scope!NoBinding
  <2>1. Stored(keys[c], 0) = {}
    BY DEF Init, Stored
  <2>2. QED
    BY <1>1, <2>1, BindingIs DEF Map, Scope!NoBinding
<1>3. binding = [c \in Ctx |-> Scope!NoBinding]
  BY <1>2, BindingIs
<1>4. call = Scope!NoCall
  BY <1>1 DEF call, Idle, Scope!NoCall
<1>5. QED
  BY <1>3, <1>4 DEF Init, Scope!Init

LEMMA StepSimulated ==
  ASSUME TypeOK, TypeOK', TableInv, LockInv, RefInv, [Next]_vars
  PROVE  [Scope!Next]_Scope!vars
<1>1. CASE UNCHANGED vars
  BY <1>1 DEF vars, binding, call, Scope!vars
<1>2. CASE Call
  BY <1>2, CallSimulated
<1>3. CASE Step
  BY <1>3, AccessSimulated, BindSimulated, RehashSimulated, AsSimulated DEF Step
<1>4. QED
  BY <1>1, <1>2, <1>3 DEF Next

\* Contexts implement maps with parents: growth, collisions, rehashing and the
\* walks up the chain are invisible to whoever reads, assigns, binds, locks or
\* makes one context the parent of another.
THEOREM ContextsImplementScopes == Spec => ImplementsScopes
<1>1. Init => LockInv
  BY DEF Init, LockInv, Idle
<1>2. TypeOK /\ LockInv /\ [Next]_vars => LockInv'
  BY LockStep
<1>3. TypeOK /\ TableInv /\ RefInv /\ [Next]_vars => RefInv'
  BY RefStep
<1>4. TypeOK /\ TypeOK' /\ TableInv /\ LockInv /\ RefInv /\ [Next]_vars
        => [Scope!Next]_Scope!vars
  BY StepSimulated
<1>5. QED
  BY <1>1, <1>2, <1>3, <1>4, TypeCorrect, TableInit, TableStep, RefInit, InitSimulated, PTL
    DEF Spec, ImplementsScopes, Scope!Spec

-----------------------------------------------------------------------------
(* The nodes that hold a context while their sub-expression runs.          *)

Node == [kind : {"prebind"}, ctx : Ctx, key : Key]
        \cup [kind : {"precall"}, ctx : Ctx, key : Key, slot : Nat,
              old : Value \cup {NoValue}, seen : SUBSET Value]

\* A node f refers to one of the contexts L; and the slot its pointer is in,
\* as long as the table of keys K and values V with that slot is the context's,
\* holds the node's key.
NodeOK(f, L, cap, K, V) ==
  /\ f \in Node
  /\ f.ctx \in L
  /\ f.kind = "precall" =>
       IF f.old = NoValue THEN /\ f.slot \in 0 .. cap[f.ctx] - 1
                               /\ K[f.ctx][f.slot] = f.key
                               /\ V[f.ctx][f.slot] \in f.seen
                          ELSE f.old \in f.seen

NodesOK == /\ frames \in Seq(Node)
           /\ \A n \in 1 .. Len(frames) : NodeOK(frames[n], live, capacity, keys, vals)

\* TypeOK has the part that keeps `old` honest: a slot with a key has a value,
\* so that NoValue in `old` says what it is meant to say.
PInv == TypeOK /\ LockInv /\ NodesOK

\* No occupied slot of a context that there is changes or moves.
SlotsKept ==
  /\ live \subseteq live'
  /\ \A c \in live :
       /\ capacity'[c] = capacity[c]
       /\ \A i \in Slot(c) : keys[c][i] # Empty =>
            keys'[c][i] = keys[c][i] /\ vals'[c][i] = vals[c][i]
-----------------------------------------------------------------------------
(* Nodes                                                                   *)

LEMMA NodeKept ==
  ASSUME TypeOK, SlotsKept, NEW f, NodeOK(f, live, capacity, keys, vals)
  PROVE  NodeOK(f, live', capacity', keys', vals')
<1> USE ContextsAssumption
<1>1. f \in Node /\ f.ctx \in live /\ f.ctx \in live'
  BY DEF NodeOK, SlotsKept
<1>2. CASE f.kind = "precall" /\ f.old = NoValue
  <2>1. /\ f.slot \in Slot(f.ctx)
        /\ keys[f.ctx][f.slot] = f.key
        /\ vals[f.ctx][f.slot] \in f.seen
        /\ f.key # Empty
    BY <1>2 DEF NodeOK, Node, Slot
  <2>2. /\ f.slot \in 0 .. capacity'[f.ctx] - 1
        /\ keys'[f.ctx][f.slot] = f.key
        /\ vals'[f.ctx][f.slot] \in f.seen
    BY <1>1, <2>1 DEF SlotsKept, Slot
  <2>3. QED
    BY <1>1, <1>2, <2>2 DEF NodeOK
<1>3. CASE ~(f.kind = "precall" /\ f.old = NoValue)
  BY <1>1, <1>3 DEF NodeOK
<1>4. QED
  BY <1>2, <1>3

\* The three ways in which the C stack changes with the occupied slots kept.
LEMMA NodesStay ==
  ASSUME TypeOK, NodesOK, SlotsKept, UNCHANGED frames
  PROVE  NodesOK'
BY NodeKept DEF NodesOK

LEMMA NodesPop ==
  ASSUME TypeOK, NodesOK, SlotsKept, frames # <<>>, Pop
  PROVE  NodesOK'
<1>1. Len(frames) \in Nat /\ Len(frames) >= 1
  BY DEF NodesOK
<1>2. /\ frames' \in Seq(Node)
      /\ Len(frames') = Len(frames) - 1
      /\ \A n \in 1 .. Len(frames') : frames'[n] = frames[n]
  <2>1. PICK F \in Seq(Node), m \in Nat : F = frames /\ m = Len(frames) - 1
    BY <1>1 DEF NodesOK
  <2>2. 1 \in 1 .. Len(F) + 1 /\ m \in 1 - 1 .. Len(F)
    BY <1>1, <2>1
  <2>3. /\ SubSeq(F, 1, m) \in Seq(Node)
        /\ Len(SubSeq(F, 1, m)) = m
        /\ \A n \in 1 .. m : SubSeq(F, 1, m)[n] = F[n]
    BY <2>2, SubSeqProperties
  <2>4. QED
    BY <2>1, <2>3 DEF Pop
<1>3. QED
  BY <1>1, <1>2, NodeKept DEF NodesOK

LEMMA NodesPush ==
  ASSUME TypeOK, NodesOK, SlotsKept, NEW f, NodeOK(f, live, capacity, keys, vals), Push(f)
  PROVE  NodesOK'
<1>1. /\ frames' \in Seq(Node)
      /\ Len(frames') = Len(frames) + 1
      /\ \A n \in 1 .. Len(frames) : frames'[n] = frames[n]
      /\ frames'[Len(frames')] = f
  BY DEF Push, NodesOK, NodeOK
<1>2. Len(frames) \in Nat
  BY DEF NodesOK
<1>3. ASSUME NEW n \in 1 .. Len(frames')
      PROVE  NodeOK(frames'[n], live', capacity', keys', vals')
  <2>1. CASE n \in 1 .. Len(frames)
    BY <1>1, <2>1, NodeKept DEF NodesOK
  <2>2. CASE n = Len(frames')
    BY <1>1, <2>2, NodeKept
  <2>3. QED
    BY <1>1, <1>2, <2>1, <2>2
<1>4. QED
  BY <1>1, <1>3 DEF NodesOK

\* A C stack whose nodes are exchanged in place.
LEMMA NodesExchanged ==
  ASSUME NodesOK, frames' = [n \in DOMAIN frames |-> frames'[n]],
         \A n \in 1 .. Len(frames) : NodeOK(frames'[n], live', capacity', keys', vals')
  PROVE  NodesOK'
<1>1. Len(frames) \in Nat /\ DOMAIN frames = 1 .. Len(frames)
  BY DEF NodesOK
<1>2. \A n \in 1 .. Len(frames) : frames'[n] \in Node
  BY DEF NodeOK
<1>3. frames' \in [1 .. Len(frames) -> Node]
  BY <1>1, <1>2
<1>4. frames' \in Seq(Node) /\ Len(frames') = Len(frames)
  BY <1>1, <1>3
<1>5. QED
  BY <1>4 DEF NodesOK
-----------------------------------------------------------------------------
(* Steps                                                                   *)

\* A node ends or is refused: nothing is written.
LEMMA QuietReturn ==
  ASSUME TypeOK, LockInv, op' = Idle, ret' \in [res : Result, val : Value \cup {NoValue}],
         UNCHANGED <<live, table, parent, lock, open>>
  PROVE  /\ TypeOK' /\ LockInv' /\ SlotsKept
         /\ \A c \in Ctx : Frozen(c)
<1>1. TypeOK'
  BY DEF TypeOK, TypeOp, Idle, table, Slot
<1>2. LockInv' /\ SlotsKept /\ \A c \in Ctx : Frozen(c)
  BY DEF LockInv, SlotsKept, Frozen, Idle, table
<1>3. QED
  BY <1>1, <1>2

LEMMA ContextsKept ==
  ASSUME TypeOK, UNCHANGED <<live, table>>
  PROVE  SlotsKept
BY DEF SlotsKept, table

\* An empty slot is filled.
LEMMA Filled ==
  ASSUME TypeOK, NEW c \in live, NEW j \in Slot(c), keys[c][j] = Empty, NEW k, NEW v,
         keys' = [keys EXCEPT ![c][j] = k], vals' = [vals EXCEPT ![c][j] = v],
         UNCHANGED <<live, capacity>>
  PROVE  SlotsKept
<1>1. ASSUME NEW d \in live, NEW i \in Slot(d), keys[d][i] # Empty
      PROVE  keys'[d][i] = keys[d][i] /\ vals'[d][i] = vals[d][i]
  BY <1>1 DEF TypeOK
<1>2. QED
  BY <1>1 DEF SlotsKept

LEMMA OtherKeeps ==
  ASSUME TypeOK, OtherStep
  PROVE  SlotsKept
<1> USE ContextsAssumption
<1>1. CASE Call
  <2>1. ASSUME NEW c, NEW p, Allocate(c, p)
        PROVE  SlotsKept
    BY <2>1 DEF Allocate, SlotsKept, TypeOK
  <2>2. CASE UNCHANGED <<live, table>>
    BY <2>2, ContextsKept
  <2>3. QED
    BY <1>1, <2>1, <2>2 DEF Call, Context_create, BeginObject, EndObject, Lock, CallGet,
      CallSet, CallBind, CallAs
<1>2. CASE GetFound \/ WalkUp \/ Unbound \/ RehashSkip \/ AsCycle \/ AsWalk \/ AsSet
  BY <1>2, ContextsKept DEF GetFound, WalkUp, Unbound, RehashSkip, AsCycle, AsWalk, AsSet
<1>3. CASE BindInsert
  <2>1. op.ctx \in live /\ UNCHANGED <<live, capacity>>
    BY <1>3 DEF BindInsert, TypeOK, TypeOp
  <2>2. PICK j \in Slot(op.ctx) : /\ Miss(op.ctx, op.key, j)
                                  /\ keys' = [keys EXCEPT ![op.ctx][j] = op.key]
                                  /\ vals' = [vals EXCEPT ![op.ctx][j] = op.val]
    BY <1>3 DEF BindInsert
  <2>3. QED
    BY <2>1, <2>2, Filled DEF Miss
<1>4. CASE RehashMove
  <2>1. op.ctx \in live /\ UNCHANGED <<live, capacity>>
    BY <1>4 DEF RehashMove, TypeOK, TypeOp
  <2>2. PICK j \in Slot(op.ctx) :
          /\ ProbesTo(keys[op.ctx], capacity[op.ctx], op.oldKeys[op.i], {Empty}, j)
          /\ keys' = [keys EXCEPT ![op.ctx][j] = op.oldKeys[op.i]]
          /\ vals' = [vals EXCEPT ![op.ctx][j] = op.oldVals[op.i]]
    BY <1>4 DEF RehashMove
  <2>3. keys[op.ctx][j] = Empty
    BY <2>2 DEF ProbesTo
  <2>4. QED
    BY <2>1, <2>2, <2>3, Filled
<1>5. CASE GrowInsert
  <2>1. op.ctx \in live /\ UNCHANGED <<live, capacity>>
    BY <1>5 DEF GrowInsert, TypeOK, TypeOp
  <2>2. PICK j \in Slot(op.ctx) :
          /\ ProbesTo(keys[op.ctx], capacity[op.ctx], op.key, {Empty}, j)
          /\ keys' = [keys EXCEPT ![op.ctx][j] = op.key]
          /\ vals' = [vals EXCEPT ![op.ctx][j] = op.val]
    BY <1>5 DEF GrowInsert
  <2>3. keys[op.ctx][j] = Empty
    BY <2>2 DEF ProbesTo
  <2>4. QED
    BY <2>1, <2>2, <2>3, Filled
<1>6. QED
  BY <1>1, <1>2, <1>3, <1>4, <1>5 DEF OtherStep

\* A value is written into the slot of a key: the pointers to it are those of
\* pending calls of that key.
LEMMA WriteKeeps ==
  ASSUME PInv, Write
  PROVE  NodesOK'
<1> USE ContextsAssumption
<1>1. /\ op.ctx \in live /\ op.key \in Key /\ op.val \in Value
      /\ live \subseteq Ctx
      /\ UNCHANGED <<live, keys, capacity>>
  BY DEF Write, SetFound, BindOverwrite, PInv, TypeOK, TypeOp
<1>2. CASE UNCHANGED <<vals, frames>>
  BY <1>1, <1>2, ContextsKept, NodesStay DEF PInv, SlotsKept
<1>3. CASE /\ \E i \in Slot(op.ctx) : /\ keys[op.ctx][i] = op.key
                                      /\ vals' = [vals EXCEPT ![op.ctx][i] = op.val]
           /\ NoteValue(op.ctx, op.key, op.val)
  <2>1. PICK i \in Slot(op.ctx) : /\ keys[op.ctx][i] = op.key
                                  /\ vals' = [vals EXCEPT ![op.ctx][i] = op.val]
    BY <1>3
  <2>2. \A d \in live : \A j \in Slot(d) :
          vals'[d][j] = IF d = op.ctx /\ j = i THEN op.val ELSE vals[d][j]
    BY <1>1, <2>1 DEF PInv, TypeOK
  <2>3. ASSUME NEW n \in 1 .. Len(frames)
        PROVE  NodeOK(frames'[n], live', capacity', keys', vals')
    <3>1. PICK f : f = frames[n]
      OBVIOUS
    <3>2. NodeOK(f, live, capacity, keys, vals) /\ n \in DOMAIN frames
      BY <3>1 DEF PInv, NodesOK
    <3>3. frames'[n] = IF IsPointerInto(f, op.ctx) /\ f.key = op.key
                       THEN [f EXCEPT !.seen = f.seen \cup {op.val}] ELSE f
      BY <1>3, <3>1, <3>2 DEF NoteValue
    <3>4. f \in Node /\ f.ctx \in live
      BY <3>2 DEF NodeOK
    <3>5. CASE f.kind = "prebind"
      BY <1>1, <3>2, <3>3, <3>5 DEF NodeOK, IsPointerInto
    <3>6. CASE f.kind = "precall"
      <4>1. f \in [kind : {"precall"}, ctx : Ctx, key : Key, slot : Nat,
                   old : Value \cup {NoValue}, seen : SUBSET Value]
        BY <3>4, <3>6 DEF Node
      <4>2. CASE f.ctx = op.ctx /\ f.key = op.key
        <5>1. frames'[n] = [f EXCEPT !.seen = f.seen \cup {op.val}]
          BY <3>3, <3>6, <4>2 DEF IsPointerInto
        <5>2. /\ frames'[n] \in Node /\ frames'[n].ctx = f.ctx /\ frames'[n].key = f.key
              /\ frames'[n].slot = f.slot /\ frames'[n].old = f.old
              /\ frames'[n].seen = f.seen \cup {op.val} /\ frames'[n].kind = "precall"
          BY <1>1, <4>1, <5>1 DEF Node
        <5>3. CASE f.old = NoValue
          <6>1. /\ f.slot \in Slot(f.ctx) /\ keys[f.ctx][f.slot] = f.key
                /\ vals[f.ctx][f.slot] \in f.seen
            BY <3>2, <3>6, <5>3 DEF NodeOK, Slot
          <6>2. vals'[f.ctx][f.slot] \in f.seen \cup {op.val}
            BY <2>2, <3>4, <6>1
          <6>3. QED
            BY <1>1, <3>4, <5>2, <5>3, <6>1, <6>2 DEF NodeOK, Slot
        <5>4. CASE f.old # NoValue
          BY <1>1, <3>2, <3>6, <5>2, <5>4 DEF NodeOK
        <5>5. QED
          BY <5>3, <5>4
      <4>3. CASE ~(f.ctx = op.ctx /\ f.key = op.key)
        <5>1. frames'[n] = f
          BY <3>3, <4>3 DEF IsPointerInto
        <5>2. CASE f.old = NoValue
          <6>1. /\ f.slot \in Slot(f.ctx) /\ keys[f.ctx][f.slot] = f.key
                /\ vals[f.ctx][f.slot] \in f.seen
            BY <3>2, <3>6, <5>2 DEF NodeOK, Slot
          <6>2. vals'[f.ctx][f.slot] \in f.seen
            BY <2>1, <2>2, <3>4, <4>3, <6>1
          <6>3. QED
            BY <1>1, <3>4, <5>1, <5>2, <6>1, <6>2 DEF NodeOK, Slot
        <5>3. CASE f.old # NoValue
          BY <1>1, <3>2, <3>6, <5>1, <5>3 DEF NodeOK
        <5>4. QED
          BY <5>2, <5>3
      <4>4. QED
        BY <4>2, <4>3
    <3>7. QED
      BY <3>4, <3>5, <3>6 DEF Node
  <2>4. frames' = [n \in DOMAIN frames |-> frames'[n]]
    BY <1>3 DEF NoteValue
  <2>5. QED
    BY <2>3, <2>4, NodesExchanged DEF PInv
<1>4. CASE SetFound /\ lock[op.ctx]
  <2>1. ret' = [res |-> "locked", val |-> NoValue] /\ UNCHANGED vals
    BY <1>4 DEF SetFound, Return
  <2>2. UNCHANGED frames
    BY <2>1 DEF Write
  <2>3. QED
    BY <1>2, <2>1, <2>2
<1>5. CASE BindOverwrite \/ (SetFound /\ ~lock[op.ctx])
  <2>1. /\ ret' = [res |-> "ok", val |-> NoValue]
        /\ \E i \in Slot(op.ctx) : /\ keys[op.ctx][i] = op.key
                                   /\ vals' = [vals EXCEPT ![op.ctx][i] = op.val]
    BY <1>5 DEF SetFound, BindOverwrite, Hit, Return
  <2>2. NoteValue(op.ctx, op.key, op.val)
    BY <2>1 DEF Write
  <2>3. QED
    BY <1>3, <2>1, <2>2
<1>6. QED
  BY <1>4, <1>5 DEF Write

\* A table grows: the pointers into it keep what they point to.
LEMMA GrowKeeps ==
  ASSUME PInv, Grow
  PROVE  NodesOK'
<1> USE ContextsAssumption
<1>1. /\ op.ctx \in live /\ live' = live /\ live \subseteq Ctx
      /\ AbandonTable(op.ctx)
      /\ \A d \in live \ {op.ctx} : /\ capacity'[d] = capacity[d]
                                    /\ keys'[d] = keys[d]
                                    /\ vals'[d] = vals[d]
  BY DEF Grow, BindGrow, PInv, TypeOK, TypeOp
<1>2. ASSUME NEW n \in 1 .. Len(frames)
      PROVE  NodeOK(frames'[n], live', capacity', keys', vals')
  <2>1. PICK f : f = frames[n]
    OBVIOUS
  <2>2. NodeOK(f, live, capacity, keys, vals) /\ n \in DOMAIN frames
    BY <2>1 DEF PInv, NodesOK
  <2>3. frames'[n] = IF IsPointerInto(f, op.ctx) /\ f.old = NoValue
                     THEN [f EXCEPT !.old = vals[op.ctx][f.slot]] ELSE f
    BY <1>1, <2>1, <2>2 DEF AbandonTable
  <2>4. f \in Node /\ f.ctx \in live
    BY <2>2 DEF NodeOK
  <2>5. CASE IsPointerInto(f, op.ctx) /\ f.old = NoValue
    <3>1. /\ f \in [kind : {"precall"}, ctx : Ctx, key : Key, slot : Nat,
                    old : Value \cup {NoValue}, seen : SUBSET Value]
          /\ f.ctx = op.ctx
      BY <2>4, <2>5 DEF Node, IsPointerInto
    <3>2. PICK v : v = vals[f.ctx][f.slot]
      OBVIOUS
    <3>3. v \in f.seen /\ v \in Value /\ v # NoValue
      BY <2>2, <2>5, <3>1, <3>2 DEF NodeOK
    <3>4. /\ frames'[n] \in Node /\ frames'[n].ctx = f.ctx /\ frames'[n].kind = "precall"
          /\ frames'[n].old = v /\ frames'[n].seen = f.seen
      BY <2>3, <2>5, <3>1, <3>2, <3>3 DEF Node
    <3>5. QED
      BY <1>1, <2>4, <3>3, <3>4 DEF NodeOK
  <2>6. CASE ~(IsPointerInto(f, op.ctx) /\ f.old = NoValue)
    <3>1. frames'[n] = f
      BY <2>3, <2>6
    <3>2. CASE f.kind = "precall" /\ f.old = NoValue
      <4>1. f.ctx \in live \ {op.ctx}
        BY <2>4, <2>6, <3>2 DEF IsPointerInto
      <4>2. QED
        BY <1>1, <2>2, <3>1, <3>2, <4>1 DEF NodeOK
    <3>3. CASE ~(f.kind = "precall" /\ f.old = NoValue)
      BY <1>1, <2>2, <3>1, <3>3 DEF NodeOK
    <3>4. QED
      BY <3>2, <3>3
  <2>7. QED
    BY <2>5, <2>6
<1>3. frames' = [n \in DOMAIN frames |-> frames'[n]]
  BY <1>1 DEF AbandonTable
<1>4. QED
  BY <1>2, <1>3, NodesExchanged DEF PInv

LEMMA PInvInit == PInit => PInv
<1>1. PInit => LockInv /\ NodesOK
  BY DEF PInit, Init, LockInv, Idle, NodesOK
<1>2. QED
  BY <1>1, TypeInit DEF PInit, PInv

LEMMA PInvStep ==
  ASSUME PInv, [PNext]_pvars
  PROVE  PInv' /\ \A c \in Ctx : Frozen(c)
<1> USE ContextsAssumption
\* Most steps are steps of module Contexts.
<1>1. ASSUME [Next]_vars, NodesOK'
      PROVE  PInv' /\ \A c \in Ctx : Frozen(c)
  BY <1>1, TypeStep, LockStep DEF PInv
<1>2. CASE UNCHANGED pvars
  BY <1>1, <1>2, ContextsKept, NodesStay DEF pvars, vars, table, PInv
<1>3. ASSUME NEW c \in Ctx, NEW k \in Key, BeginPrebind(c, k)
      PROVE  PInv' /\ \A x \in Ctx : Frozen(x)
  <2>1. UNCHANGED <<live, table, parent, lock, open>> /\ c \in live
    BY <1>3 DEF BeginPrebind
  <2>2. SlotsKept
    BY <2>1, ContextsKept DEF PInv
  <2>3. CASE lock[c]
    <3>1. op' = Idle /\ ret' = [res |-> "locked", val |-> NoValue] /\ UNCHANGED frames
      BY <1>3, <2>3 DEF BeginPrebind, Refuse, Return
    <3>2. NodesOK'
      BY <2>2, <3>1, NodesStay DEF PInv
    <3>3. QED
      BY <2>1, <3>1, <3>2, QuietReturn DEF PInv, Result
  <2>4. CASE ~lock[c]
    <3>1. UNCHANGED vars /\ Push([kind |-> "prebind", ctx |-> c, key |-> k])
      BY <1>3, <2>4 DEF BeginPrebind, vars, table
    <3>2. NodeOK([kind |-> "prebind", ctx |-> c, key |-> k], live, capacity, keys, vals)
      BY <2>1 DEF NodeOK, Node
    <3>3. NodesOK'
      BY <2>2, <3>1, <3>2, NodesPush DEF PInv
    <3>4. QED
      BY <1>1, <3>1, <3>3
  <2>5. QED
    BY <2>3, <2>4
<1>4. ASSUME NEW v \in Value, EndPrebind(v)
      PROVE  PInv' /\ \A x \in Ctx : Frozen(x)
  <2>1. UNCHANGED <<live, table, parent, lock, open>> /\ frames # <<>> /\ Pop
    BY <1>4 DEF EndPrebind
  <2>2. NodesOK'
    BY <2>1, ContextsKept, NodesPop DEF PInv
  <2>3. PICK c, k : c = Top.ctx /\ k = Top.key
    OBVIOUS
  <2>4. c \in live /\ c \in Ctx /\ k \in Key
    <3>1. Len(frames) \in 1 .. Len(frames)
      BY <2>1 DEF PInv, NodesOK
    <3>2. NodeOK(Top, live, capacity, keys, vals)
      BY <3>1 DEF PInv, NodesOK, Top
    <3>3. QED
      BY <2>3, <3>2 DEF NodeOK, Node, PInv, TypeOK
  <2>5. CASE lock[c]
    <3>1. UNCHANGED vars
      BY <1>4, <2>1, <2>3, <2>5 DEF EndPrebind, vars, table
    <3>2. QED
      BY <1>1, <2>2, <3>1
  <2>6. CASE ~lock[c]
    <3>1. CallBind(c, k, v)
      BY <1>4, <2>1, <2>3, <2>4, <2>6 DEF EndPrebind, CallBind
    <3>2. Next
      BY <2>4, <3>1 DEF Next, Call
    <3>3. QED
      BY <1>1, <2>2, <3>2
  <2>7. QED
    BY <2>5, <2>6
<1>5. CASE PrecallLookup
  <2>1. GetFound /\ op.ctx \in live /\ op.ctx \in Ctx /\ op.key \in Key
    BY <1>5 DEF PrecallLookup, GetFound, PInv, TypeOK, TypeOp
  <2>2. PICK i \in Slot(op.ctx) :
          /\ keys[op.ctx][i] = op.key
          /\ Push([kind |-> "precall", ctx |-> op.ctx, key |-> op.key, slot |-> i,
                   old |-> NoValue, seen |-> {vals[op.ctx][i]}])
    BY <1>5 DEF PrecallLookup, Hit
  <2>3. vals[op.ctx][i] \in Value /\ i \in Nat
    <3>1. /\ capacity[op.ctx] \in Nat
          /\ vals[op.ctx] \in [Slot(op.ctx) -> Value \cup {NoValue}]
          /\ keys[op.ctx][i] = Empty <=> vals[op.ctx][i] = NoValue
      BY <2>1 DEF PInv, TypeOK
    <3>2. vals[op.ctx][i] # NoValue
      BY <2>1, <2>2, <3>1
    <3>3. QED
      BY <3>1, <3>2 DEF Slot
  <2>4. NodeOK([kind |-> "precall", ctx |-> op.ctx, key |-> op.key, slot |-> i,
                old |-> NoValue, seen |-> {vals[op.ctx][i]}], live, capacity, keys, vals)
    BY <2>1, <2>2, <2>3 DEF NodeOK, Node, Slot
  <2>5. SlotsKept
    BY <2>1, ContextsKept DEF GetFound, PInv
  <2>6. NodesOK'
    BY <2>2, <2>4, <2>5, NodesPush DEF PInv
  <2>7. QED
    BY <1>1, <2>1, <2>6 DEF Next, Step
<1>6. CASE EndPrecall
  <2>1. /\ UNCHANGED <<live, table, parent, lock, open>> /\ frames # <<>> /\ Pop
        /\ op' = Idle /\ ret' = [res |-> "ok", val |-> Pointee(Top)]
        /\ Top.kind = "precall"
    BY <1>6 DEF EndPrecall, Return
  <2>2. Pointee(Top) \in Value
    <3>1. Len(frames) \in 1 .. Len(frames)
      BY <2>1 DEF PInv, NodesOK
    <3>2. PICK f : f = Top
      OBVIOUS
    <3>3. NodeOK(f, live, capacity, keys, vals) /\ f.kind = "precall"
      BY <2>1, <3>1, <3>2 DEF PInv, NodesOK, Top
    <3>4. Pointee(f) \in f.seen /\ f.seen \subseteq Value
      BY <3>3 DEF NodeOK, Node, Pointee
    <3>5. QED
      BY <3>2, <3>4
  <2>3. NodesOK'
    BY <2>1, ContextsKept, NodesPop DEF PInv
  <2>4. ret' \in [res : Result, val : Value \cup {NoValue}]
    BY <2>1, <2>2 DEF Result
  <2>5. QED
    BY <2>1, <2>3, <2>4, QuietReturn DEF PInv
<1>7. CASE AbandonNode
  <2>1. UNCHANGED vars /\ frames # <<>> /\ Pop
    BY <1>7 DEF AbandonNode
  <2>2. NodesOK'
    BY <2>1, ContextsKept, NodesPop DEF vars, table, PInv
  <2>3. QED
    BY <1>1, <2>1, <2>2
<1>8. CASE Write
  <2>1. Next
    BY <1>8 DEF Write, Next, Step
  <2>2. QED
    BY <1>1, <1>8, <2>1, WriteKeeps
<1>9. CASE Grow
  <2>1. Next
    BY <1>9 DEF Grow, Next, Step
  <2>2. QED
    BY <1>1, <1>9, <2>1, GrowKeeps
<1>10. CASE OtherStep
  <2>1. Next /\ UNCHANGED frames
    BY <1>10 DEF OtherStep, Next, Step
  <2>2. NodesOK'
    BY <1>10, <2>1, OtherKeeps, NodesStay DEF PInv
  <2>3. QED
    BY <1>1, <2>1, <2>2
<1>11. QED
  BY <1>2, <1>3, <1>4, <1>5, <1>6, <1>7, <1>8, <1>9, <1>10 DEF PNext, Running, Dead
-----------------------------------------------------------------------------
(* The theorems                                                            *)

\* The types of Contexts, the lock rule and what pending nodes hold survive
\* every step, those of the nodes themselves included.
THEOREM NodesInductive == PSpec => []PInv
<1>1. PInv /\ [PNext]_pvars => PInv'
  BY PInvStep
<1>2. QED
  BY <1>1, PInvInit, PTL DEF PSpec

\* The pointer a pending call holds never comes to point at another key's slot.
THEOREM PendingHeldSlotKeepsKey == PSpec => []HeldSlotKeepsKey
<1>1. PInv => HeldSlotKeepsKey
  BY DEF PInv, NodesOK, NodeOK, HeldSlotKeepsKey
<1>2. QED
  BY <1>1, NodesInductive, PTL

\* What a pending call would call is a value its name has had since the lookup.
THEOREM PendingCalleeWasBound == PSpec => []CalleeWasBound
<1>1. PInv => CalleeWasBound
  BY DEF PInv, NodesOK, NodeOK, CalleeWasBound, Pointee
<1>2. QED
  BY <1>1, NodesInductive, PTL

\* A locked context stays as it is also when it is locked between the test of
\* AST_PREBIND and the bind.
THEOREM PendingLockedFrozen == PSpec => LockedFrozen
<1>1. PInv /\ [PNext]_pvars => [\A c \in Ctx : Frozen(c)]_vars
  BY PInvStep
<1>2. QED
  BY <1>1, NodesInductive, PTL DEF PSpec, LockedFrozen, Frozen

=============================================================================

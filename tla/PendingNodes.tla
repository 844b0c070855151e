---------------------------- MODULE PendingNodes ----------------------------
(***************************************************************************)
(* AST nodes that look at a context, evaluate a sub-expression, and then   *)
(* use what they saw.  `x: e` (AST_PREBIND) tests the lock before e runs   *)
(* and binds after it; `f(e)` (AST_PRECALL) and its bare form keep the     *)
(* pointer that Context_get returned into the table while e runs, and call *)
(* what it points to afterwards.  The sub-expression can do anything to    *)
(* the contexts: assign, bind, lock, let a table grow.                     *)
(***************************************************************************)
EXTENDS Contexts

CONSTANT MaxFrames   \* bound on the nesting of pending nodes

VARIABLES
  frames,    \* the pending nodes, innermost last (the C stack of evalNode)
  aborted    \* assert(!ctx->lock) of Context_bind has failed

pvars == <<vars, frames, aborted>>

Top == frames[Len(frames)]
Pop == frames' = SubSeq(frames, 1, Len(frames) - 1)
Push(f) == /\ Len(frames) < MaxFrames
           /\ frames' = Append(frames, f)

PInit == Init /\ frames = <<>> /\ aborted = FALSE
-----------------------------------------------------------------------------
(* AST_PREBIND                                                             *)

BeginPrebind(c, k) ==
  /\ op = Idle
  /\ c \in live
  /\ IF lock[c]
     THEN Refuse /\ UNCHANGED frames
     ELSE Push([kind |-> "prebind", ctx |-> c, key |-> k]) /\ UNCHANGED <<op, ret>>
  /\ UNCHANGED <<live, table, parent, lock, open, aborted>>

\* Context_bind as an -DNDEBUG build would have it, with no assertion.
EndPrebindUnchecked(v) ==
  /\ op = Idle
  /\ frames # <<>>
  /\ Top.kind = "prebind"
  /\ Pop
  /\ Begin([fn |-> "bind", ctx |-> Top.ctx, key |-> Top.key, val |-> v])
  /\ UNCHANGED <<live, table, parent, lock, open, aborted>>

\* The sub-expression has produced v.  The lock is not tested again, but
\* Context_bind asserts that there is none.
EndPrebind(v) ==
  /\ op = Idle
  /\ frames # <<>>
  /\ Top.kind = "prebind"
  /\ Pop
  /\ IF lock[Top.ctx]
     THEN /\ aborted' = TRUE
          /\ UNCHANGED <<op, ret>>
     ELSE /\ Begin([fn |-> "bind", ctx |-> Top.ctx, key |-> Top.key, val |-> v])
          /\ UNCHANGED aborted
  /\ UNCHANGED <<live, table, parent, lock, open>>
-----------------------------------------------------------------------------
(* AST_PRECALL, AST_PRECALL_BARE                                           *)

\* The lookup of the function: `pv` points at slot `slot` of the table that the
\* context has now.  `old` is NoValue as long as that is still its table, then
\* the content of the slot of the abandoned one.  `seen`: what the name has
\* stood for since (history, not in the code).
PrecallLookup ==
  /\ GetFound
  /\ \E i \in Slot(op.ctx) :
       /\ Hit(op.ctx, op.key, i)
       /\ Push([kind |-> "precall", ctx |-> op.ctx, key |-> op.key, slot |-> i,
                old |-> NoValue, seen |-> {vals[op.ctx][i]}])
  /\ UNCHANGED aborted

Pointee(f) == IF f.old = NoValue THEN vals[f.ctx][f.slot] ELSE f.old

\* The arguments are evaluated; evalCall(*pv).
EndPrecall ==
  /\ op = Idle
  /\ frames # <<>>
  /\ Top.kind = "precall"
  /\ Return("ok", Pointee(Top))
  /\ Pop
  /\ UNCHANGED <<live, table, parent, lock, open, aborted>>

\* The sub-expression fails: the node is left without an effect on contexts.
AbandonNode ==
  /\ op = Idle
  /\ frames # <<>>
  /\ Pop
  /\ UNCHANGED <<vars, aborted>>
-----------------------------------------------------------------------------
(* What the sub-expressions do meanwhile                                   *)

IsPointerInto(f, c) == f.kind = "precall" /\ f.ctx = c

\* The pointers are moved along to the new table.
AbandonTableFollowed(c) == UNCHANGED frames

\* The table of c is abandoned, not freed: pointers into it stay valid.
AbandonTable(c) ==
  frames' = [n \in DOMAIN frames |->
               LET f == frames[n]
               IN IF IsPointerInto(f, c) /\ f.old = NoValue
                  THEN [f EXCEPT !.old = vals[c][f.slot]] ELSE f]

NoteValue(c, k, v) ==
  frames' = [n \in DOMAIN frames |->
               LET f == frames[n]
               IN IF IsPointerInto(f, c) /\ f.key = k
                  THEN [f EXCEPT !.seen = @ \cup {v}] ELSE f]

Write == /\ SetFound \/ BindOverwrite
         /\ IF ret'.res = "ok" THEN NoteValue(op.ctx, op.key, op.val)
                               ELSE UNCHANGED frames
         /\ UNCHANGED aborted

Grow == BindGrow /\ AbandonTable(op.ctx) /\ UNCHANGED aborted

OtherStep == /\ \/ Call \/ GetFound \/ WalkUp \/ Unbound \/ BindInsert
                \/ RehashSkip \/ RehashMove \/ GrowInsert
                \/ AsCycle \/ AsWalk \/ AsSet
             /\ UNCHANGED <<frames, aborted>>

Running ==
  \/ \E c \in Ctx, k \in Key : BeginPrebind(c, k)
  \/ \E v \in Value : EndPrebind(v)
  \/ PrecallLookup
  \/ EndPrecall
  \/ AbandonNode
  \/ Write
  \/ Grow
  \/ OtherStep

\* abort() ends the process.
Dead == aborted /\ UNCHANGED pvars

PNext == (~aborted /\ Running) \/ Dead

PSpec == PInit /\ [][PNext]_pvars
-----------------------------------------------------------------------------
(* Properties                                                              *)

\* The pointer a pending call holds never comes to point at another key's
\* slot: a table that stays never moves or reuses one.
HeldSlotKeepsKey ==
  \A n \in DOMAIN frames :
    frames[n].kind = "precall" /\ frames[n].old = NoValue =>
      keys[frames[n].ctx][frames[n].slot] = frames[n].key

\* What a pending call would call is a value its name has had since the lookup,
\* however often the table has grown in between.  (Not always the one it had at
\* the lookup, nor the one it has at the call.)
CalleeWasBound ==
  \A n \in DOMAIN frames :
    frames[n].kind = "precall" => Pointee(frames[n]) \in frames[n].seen

\* assert(!ctx->lock) in Context_bind never fails.
BindNeverLocked == ~aborted
=============================================================================

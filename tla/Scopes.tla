------------------------------- MODULE Scopes -------------------------------
(***************************************************************************)
(* What the contexts promise their users, with no hash table in sight: a   *)
(* context is a finite map with a parent; a name means its nearest binding *)
(* up the parent chain; a bind is local, an assignment goes to where the   *)
(* name is bound; a lock freezes one context.                              *)
(*                                                                         *)
(* A call is a request (`call`) and an answer (`ret`); everything the call *)
(* does happens at once, when it answers.                                  *)
(***************************************************************************)
EXTENDS Naturals, Sequences

CONSTANTS Ctx, NoCtx, Key, Value, NoValue

VARIABLES live, binding, parent, lock, open, call, ret

state == <<live, binding, parent, lock, open>>
vars == <<live, binding, parent, lock, open, call, ret>>

NoCall == [fn |-> "idle"]

\* The empty map.
NoBinding == [k \in {} |-> NoValue]

Init ==
  /\ live = {}
  /\ binding = [c \in Ctx |-> NoBinding]
  /\ parent = [c \in Ctx |-> NoCtx]
  /\ lock = [c \in Ctx |-> FALSE]
  /\ open = <<>>
  /\ call = NoCall
  /\ ret = [res |-> "none", val |-> NoValue]

\* The contexts a walk up the parent chain from c meets that does not go on
\* beyond a context in stop.
Up(c, stop) ==
  {x \in Ctx : \A S \in SUBSET Ctx :
     /\ c \in S
     /\ \A y \in S \ stop : parent[y] \in S \cup {NoCtx}
     => x \in S}

Binders(k) == {x \in Ctx : k \in DOMAIN binding[x]}

\* The context that binds k for code running in c, NoCtx if there is none.
Owner(c, k) ==
  LET nearest == Up(c, Binders(k)) \cap Binders(k)
  IN IF nearest = {} THEN NoCtx ELSE CHOOSE x \in nearest : TRUE

\* s is c or has c among its ancestors.
Inherits(s, c) == s # NoCtx /\ c \in Up(s, {})

With(map, k, v) == [x \in DOMAIN map \cup {k} |-> IF x = k THEN v ELSE map[x]]

Answer(res, v) == /\ call' = NoCall
                  /\ ret' = [res |-> res, val |-> v]

Request ==
  /\ call = NoCall
  /\ \/ \E c \in live, k \in Key : call' = [fn |-> "get", ctx |-> c, key |-> k]
     \/ \E c \in live, k \in Key, v \in Value :
          call' = [fn |-> "set", ctx |-> c, key |-> k, val |-> v]
     \/ \E c \in live, k \in Key, v \in Value :
          ~lock[c] /\ call' = [fn |-> "bind", ctx |-> c, key |-> k, val |-> v]
     \/ \E c \in live, s \in live \cup {NoCtx} :
          ~lock[c] /\ call' = [fn |-> "as", ctx |-> c, sub |-> s]
  /\ ret' = [res |-> "none", val |-> NoValue]
  /\ UNCHANGED state

\* A bind in, or an `as` on, a locked context.
Refused == /\ call = NoCall
           /\ \E c \in live : lock[c]
           /\ Answer("locked", NoValue)
           /\ UNCHANGED state

Get == /\ call.fn = "get"
       /\ LET o == Owner(call.ctx, call.key)
          IN IF o = NoCtx THEN Answer("unbound", NoValue)
                          ELSE Answer("ok", binding[o][call.key])
       /\ UNCHANGED state

Set ==
  /\ call.fn = "set"
  /\ LET o == Owner(call.ctx, call.key)
     IN \/ /\ o = NoCtx
           /\ Answer("unbound", NoValue)
           /\ UNCHANGED binding
        \/ /\ o # NoCtx /\ lock[o]
           /\ Answer("locked", NoValue)
           /\ UNCHANGED binding
        \/ /\ o # NoCtx /\ ~lock[o]
           /\ Answer("ok", NoValue)
           /\ binding' = [binding EXCEPT ![o] = With(@, call.key, call.val)]
  /\ UNCHANGED <<live, parent, lock, open>>

Bind == /\ call.fn = "bind"
        /\ Answer("ok", NoValue)
        /\ binding' = [binding EXCEPT ![call.ctx] = With(@, call.key, call.val)]
        /\ UNCHANGED <<live, parent, lock, open>>

As == /\ call.fn = "as"
      /\ IF Inherits(call.sub, call.ctx)
         THEN /\ Answer("cycle", NoValue)
              /\ UNCHANGED parent
         ELSE /\ Answer("ok", NoValue)
              /\ parent' = [parent EXCEPT ![call.ctx] = call.sub]
      /\ UNCHANGED <<live, binding, lock, open>>

Create ==
  /\ call = NoCall
  /\ \E c \in Ctx \ live, p \in live \cup {NoCtx} :
       /\ live' = live \cup {c}
       /\ parent' = [parent EXCEPT ![c] = p]
       /\ open' \in {open} \cup (IF p = NoCtx THEN {} ELSE {Append(open, c)})
  /\ UNCHANGED <<binding, lock, call, ret>>

CloseObject ==
  /\ call = NoCall
  /\ open # <<>>
  /\ open' = SubSeq(open, 1, Len(open) - 1)
  /\ LET c == open[Len(open)]
     IN IF lock[c]
        THEN Answer("locked", NoValue) /\ UNCHANGED parent
        ELSE Answer("ok", NoValue) /\ parent' = [parent EXCEPT ![c] = NoCtx]
  /\ UNCHANGED <<live, binding, lock>>

LockOne == /\ call = NoCall
           /\ \E c \in live : lock' = [lock EXCEPT ![c] = TRUE]
           /\ Answer("ok", NoValue)
           /\ UNCHANGED <<live, binding, parent, open>>

Next == \/ Request \/ Refused \/ Get \/ Set \/ Bind \/ As
        \/ Create \/ CloseObject \/ LockOne

Spec == Init /\ [][Next]_vars
=============================================================================

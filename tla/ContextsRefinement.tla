------------------------- MODULE ContextsRefinement -------------------------
(***************************************************************************)
(* The hash tables of module Contexts implement the maps of module Scopes. *)
(***************************************************************************)
EXTENDS Contexts

\* The slots of a table, or of the first half of a rehash, as a map.
Stored(tab, from) == {tab[i] : i \in {j \in DOMAIN tab : j >= from}} \ {Empty}
ValueOf(tab, values, k) == values[CHOOSE i \in DOMAIN tab : tab[i] = k]

\* While the table of c is rehashed its map is in two places: what has been
\* moved is in the new arrays, the rest in the slots of the old ones that the
\* loop has not reached.
binding ==
  [c \in Ctx |->
     LET new == Stored(keys[c], 0)
         old == IF op.fn = "grow" /\ op.ctx = c
                THEN Stored(op.oldKeys, op.i) ELSE {}
     IN [k \in new \cup old |->
           IF k \in new THEN ValueOf(keys[c], vals[c], k)
                        ELSE ValueOf(op.oldKeys, op.oldVals, k)]]

\* A call is pending until it returns, with the arguments it was given.
call ==
  CASE op.fn = "idle" -> Idle
    [] op.fn = "get"  -> [fn |-> "get", ctx |-> op.from, key |-> op.key]
    [] op.fn = "set"  -> [fn |-> "set", ctx |-> op.from, key |-> op.key,
                          val |-> op.val]
    [] op.fn \in {"bind", "grow"} -> [fn |-> "bind", ctx |-> op.ctx,
                                      key |-> op.key, val |-> op.val]
    [] op.fn = "as"   -> [fn |-> "as", ctx |-> op.ctx, sub |-> op.sub]

Scope == INSTANCE Scopes WITH binding <- binding, call <- call

\* Reads, assignments, binds, `as` and locks answer as if contexts were plain
\* maps: growth, collisions and the walk up the chain are invisible.
ImplementsScopes == Scope!Spec
=============================================================================

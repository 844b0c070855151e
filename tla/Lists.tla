-------------------------------- MODULE Lists --------------------------------
(***************************************************************************)
(* The list functions of src/src/builtin.c on the buffers they share with  *)
(* the value stack.  A list is a Stack struct like vm->stack; `list` hands *)
(* the stack's own buffer to a new list, `lstchange` does so with a list   *)
(* that exists and frees the buffer it had, and a buffer that grows may    *)
(* move.  So which struct owns which buffer is what can go wrong.          *)
(*                                                                         *)
(* Every native function here starts with fpExtract (util.c), which pops   *)
(* the arguments its signature asks for: nothing when there are too few of *)
(* them, all of them when one has the wrong type.                          *)
(***************************************************************************)
EXTENDS Integers, Sequences, FiniteSets

CONSTANTS
  Buffer,        \* addresses of buffers
  NoBuffer,      \* NULL
  ListId,        \* identities of lists, a set of numbers above 0
  FirstCapacity, \* what an empty buffer grows to; 8 in the code
  Literals,      \* the values programs push, records [t |-> type, v |-> value]
  MaxValues      \* bound on the values on the stack and in the lists together

ASSUME ListsAssumption ==
  /\ NoBuffer \notin Buffer
  /\ ListId \subseteq Nat \ {0} /\ IsFiniteSet(ListId)
  /\ FirstCapacity \in Nat \ {0}
  /\ \A v \in Literals : v.t \in {"number", "nil"} /\ v.v \in Int
  /\ IsFiniteSet(Buffer) /\ Cardinality(Buffer) > Cardinality(ListId) + 1

VARIABLES
  store,    \* memory: what is in each buffer, up to the owner's `next`;
            \* freed: the buffers given to GC_FREE;
            \* structs: buffer and capacity of vm->stack (0) and of the lists
  outcome   \* what the last function did: "ok", or the exception it raised

lvars == <<store, outcome>>

VM == 0
Structs == {VM} \cup ListId
Empty == [buf |-> NoBuffer, cap |-> 0]

ListsInit ==
  /\ store = [memory |-> [b \in Buffer |-> <<>>], freed |-> {},
              structs |-> [s \in Structs |-> Empty]]
  /\ outcome = "ok"
-----------------------------------------------------------------------------
(* Buffers                                                                 *)

Values(st, s) ==
  IF st.structs[s].buf = NoBuffer THEN <<>> ELSE st.memory[st.structs[s].buf]

\* Writes the buffer of s, which is large enough.
Rewrite(st, s, vs) ==
  IF st.structs[s].buf = NoBuffer THEN st
  ELSE [st EXCEPT !.memory[st.structs[s].buf] = vs]

Held(st) == {st.structs[s].buf : s \in Structs} \ {NoBuffer}

\* GC_FREE, which accepts NULL.
FreeBuf(st, b) == IF b = NoBuffer THEN st ELSE [st EXCEPT !.freed = @ \cup {b}]

\* What the allocator returns.
Unused(st) == CHOOSE b \in Buffer : b \notin Held(st)

\* The capacity is doubled until it is n or more.
Doubled(cap, n) ==
  LET grown[c \in Nat \ {0}] == IF c >= n THEN c ELSE grown[2 * c]
  IN grown[IF cap = 0 THEN FirstCapacity ELSE cap]

\* A buffer that grows moves, and the one it had is gone.
Stack_reserve(st, s, n) ==
  LET struct == st.structs[s]
      cap == Doubled(struct.cap, Len(Values(st, s)) + n)
      b == Unused(st)
  IN IF cap = struct.cap THEN st
     ELSE FreeBuf([st EXCEPT !.structs[s] = [buf |-> b, cap |-> cap],
                             !.memory[b] = Values(st, s),
                             !.freed = @ \ {b}],
                  struct.buf)

PushAll(st, s, vs) ==
  Rewrite(Stack_reserve(st, s, Len(vs)), s, Values(st, s) \o vs)
Stack_push(st, s, v) == PushAll(st, s, <<v>>)

\* Moves the buffer of vm->stack to the struct s but leaves it with vm->stack
\* as well.
StealShared(st, s) == [st EXCEPT !.structs[s] = st.structs[VM]]

\* Moves the buffer of vm->stack to the struct s.
Steal(st, s) ==
  [st EXCEPT !.structs[s] = st.structs[VM], !.structs[VM] = Empty]
-----------------------------------------------------------------------------
(* What the collector does: a list no value refers to is gone, and so is   *)
(* what a buffer held that no struct owns.                                 *)

IntValue(n) == [t |-> "number", v |-> n]
ListValue(l) == [t |-> "list", v |-> l]

Mentioned(vs) == {vs[k].v : k \in {k \in DOMAIN vs : vs[k].t = "list"}}

\* The lists that can be reached from vm->stack in Cardinality(ListId) steps.
Reachable(st) ==
  LET reach[k \in 0 .. Cardinality(ListId)] ==
        IF k = 0 THEN Mentioned(Values(st, VM))
        ELSE reach[k - 1] \cup UNION {Mentioned(Values(st, l)) : l \in reach[k - 1]}
  IN reach[Cardinality(ListId)]

Collected(st) ==
  LET live == Reachable(st) \cup {VM}
      kept == [st EXCEPT !.structs = [s \in Structs |-> IF s \in live THEN @[s] ELSE Empty]]
  IN [kept EXCEPT !.memory = [b \in Buffer |-> IF b \in Held(kept) THEN @[b] ELSE <<>>],
                  !.freed = @ \cap Held(kept)]

Spare == ListId \ Reachable(store)
NewList == CHOOSE l \in Spare : TRUE

RoomFor(st) ==
  Cardinality(UNION {{b} \X DOMAIN st.memory[b] : b \in Held(st)}) <= MaxValues

\* The function ends: st is the store it leaves.
Done(st, result) ==
  /\ outcome # "crash"
  /\ RoomFor(st)
  /\ store' = Collected(st)
  /\ outcome' = result
-----------------------------------------------------------------------------
(* Native functions                                                        *)

VMValues == Values(store, VM)
Args(n) == SubSeq(VMValues, Len(VMValues) - n + 1, Len(VMValues))
Popped(n) == Rewrite(store, VM, SubSeq(VMValues, 1, Len(VMValues) - n))

\* A letter of a signature: l a list, i an integer, v anything, ?i an integer
\* or nil.
Fits(letter, v) ==
  CASE letter = "l" -> v.t = "list"
    [] letter = "i" -> v.t = "number"
    [] letter = "?i" -> v.t \in {"number", "nil"}
    [] letter = "v" -> TRUE

\* fpExtract pops what its signature asks for and hands it over ...
fpExtract(sig) ==
  /\ Len(VMValues) >= Len(sig)
  /\ \A k \in 1 .. Len(sig) : Fits(sig[k], Args(Len(sig))[k])

\* ... or raises: too few values, which stay, or one of another type.
fpExtractFails(sig) ==
  \/ Len(VMValues) < Len(sig) /\ Done(store, "underflow")
  \/ /\ Len(VMValues) >= Len(sig)
     /\ ~fpExtract(sig)
     /\ Done(Popped(Len(sig)), "type")

\* The list that is the first of n arguments, once they are popped.
ListArg(n) == Args(n)[1].v
Listed(n)  == Values(Popped(n), ListArg(n))

\* An index counts from the end when it is negative.
Resolve(i, size) == IF i < 0 THEN i + size ELSE i

\* A value of a program.
Literal(v) == Done(Stack_push(store, VM, v), "ok")

\* {}.list
list ==
  /\ Spare # {}
  /\ LET st == Steal(store, NewList)
     IN Done(Stack_push(st, VM, ListValue(NewList)), "ok")

lstopen ==
  \/ fpExtractFails(<<"l">>)
  \/ fpExtract(<<"l">>) /\ Done(PushAll(Popped(1), VM, Listed(1)), "ok")

\* Not through fpExtract: a failure pops nothing.
lstpush ==
  \/ Len(VMValues) < 2 /\ Done(store, "underflow")
  \/ Len(VMValues) >= 2 /\ Args(2)[1].t # "list" /\ Done(store, "type")
  \/ /\ Len(VMValues) >= 2
     /\ Args(2)[1].t = "list"
     /\ Done(Stack_push(Popped(2), ListArg(2), Args(2)[2]), "ok")

lstpop ==
  \/ fpExtractFails(<<"l">>)
  \/ /\ fpExtract(<<"l">>)
     /\ LET st == Popped(1)
            vs == Listed(1)
        IN IF vs = <<>> THEN Done(st, "invalid")
           ELSE Done(Stack_push(Rewrite(st, ListArg(1), SubSeq(vs, 1, Len(vs) - 1)),
                                VM, vs[Len(vs)]), "ok")

lstget ==
  \/ fpExtractFails(<<"l", "i">>)
  \/ /\ fpExtract(<<"l", "i">>)
     /\ LET st == Popped(2)
            vs == Listed(2)
            k == Resolve(Args(2)[2].v, Len(vs))
        IN IF k \in 0 .. Len(vs) - 1 THEN Done(Stack_push(st, VM, vs[k + 1]), "ok")
           ELSE Done(st, "invalid")

lstset ==
  \/ fpExtractFails(<<"l", "i", "v">>)
  \/ /\ fpExtract(<<"l", "i", "v">>)
     /\ LET st == Popped(3)
            vs == Listed(3)
            k == Resolve(Args(3)[2].v, Len(vs))
        IN IF k \in 0 .. Len(vs) - 1
           THEN Done(Rewrite(st, ListArg(3), [vs EXCEPT ![k + 1] = Args(3)[3]]), "ok")
           ELSE Done(st, "invalid")

lstsize ==
  \/ fpExtractFails(<<"l">>)
  \/ /\ fpExtract(<<"l">>)
     /\ Done(Stack_push(Popped(1), VM, IntValue(Len(Listed(1)))), "ok")

lstchange ==
  \/ fpExtractFails(<<"l">>)
  \/ /\ fpExtract(<<"l">>)
     /\ LET st == Popped(1)
            freed == FreeBuf(st, st.structs[ListArg(1)].buf)
        IN Done(Steal(freed, ListArg(1)), "ok")

\* The values from begin up to end.  Nothing checks that begin <= end: memcpy
\* is then asked for a negative number of values.
lstsub ==
  \/ fpExtractFails(<<"l", "i", "?i">>)
  \/ /\ fpExtract(<<"l", "i", "?i">>)
     /\ LET st == Popped(3)
            vs == Listed(3)
            begin == Resolve(Args(3)[2].v, Len(vs))
            end == IF Args(3)[3].t = "nil" THEN Len(vs) ELSE Resolve(Args(3)[3].v, Len(vs))
        IN IF ~({begin, end} \subseteq 0 .. Len(vs)) THEN Done(st, "invalid")
           ELSE IF begin > end THEN Done(st, "crash")
           ELSE Done(PushAll(st, VM, SubSeq(vs, begin + 1, end)), "ok")

ListsNext ==
  \/ \E v \in Literals : Literal(v)
  \/ list \/ lstopen \/ lstpush \/ lstpop \/ lstget \/ lstset \/ lstsize
  \/ lstchange \/ lstsub
-----------------------------------------------------------------------------
(* Properties                                                              *)

\* Every buffer has one owner: vm->stack and the lists never share one, none
\* of them still uses a buffer that was freed, and each one's values fit the
\* buffer it owns.  A list that stole the stack's buffer, one that replaced
\* its own, and one that grew while another list holds it keep to this.
BuffersOwned ==
  /\ \A s, u \in Structs :
       s # u /\ store.structs[s].buf # NoBuffer
         => store.structs[s].buf # store.structs[u].buf
  /\ Held(store) \cap store.freed = {}
  /\ \A s \in Structs : Len(Values(store, s)) <= store.structs[s].cap
=============================================================================

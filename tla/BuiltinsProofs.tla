--------------------------- MODULE BuiltinsProofs ---------------------------
(***************************************************************************)
(* Theorems about the native functions of module Builtins: who owns the    *)
(* buffers of lists, what sort reads, how it orders, what an exception     *)
(* carries out of it, and that blobdec gets back what blobenc packed.      *)
(***************************************************************************)
EXTENDS Builtins, Induction, FiniteSetTheorems, SequenceTheorems

-----------------------------------------------------------------------------
(* Lists: facts about one store, st                                        *)

ListVal == Literals \cup {IntValue(i) : i \in Int} \cup {ListValue(l) : l \in ListId}

Stores == [memory  : [Buffer -> Seq(ListVal)],
           freed   : SUBSET Buffer,
           structs : [Structs -> [buf : Buffer \cup {NoBuffer}, cap : Nat]]]

\* BuffersOwned of st, and a struct without a buffer has no capacity.
Owned(st) ==
  /\ \A s, u \in Structs : s # u /\ st.structs[s].buf # NoBuffer
                             => st.structs[s].buf # st.structs[u].buf
  /\ \A s \in Structs : /\ st.structs[s].buf \notin st.freed
                        /\ Len(Values(st, s)) <= st.structs[s].cap
                        /\ st.structs[s].buf = NoBuffer => st.structs[s].cap = 0

Sound(st) == st \in Stores /\ Owned(st)

LEMMA StructsFinite ==
  IsFiniteSet(Structs) /\ Cardinality(Structs) < Cardinality(Buffer)
<1>1. VM \notin ListId
  BY ListsAssumption DEF VM
<1>2. Structs = ListId \cup {VM}
  BY DEF Structs
<1>3. IsFiniteSet(ListId) /\ Cardinality(ListId) \in Nat /\ Cardinality(Buffer) \in Nat
  BY ListsAssumption, FS_CardinalityType
<1>4. /\ IsFiniteSet(ListId \cup {VM})
      /\ Cardinality(ListId \cup {VM}) = Cardinality(ListId) + 1
  BY <1>1, <1>3, FS_AddElement
<1>5. QED
  BY <1>2, <1>3, <1>4, ListsAssumption

\* There is always a buffer that no struct has.
LEMMA UnusedIsFree ==
  ASSUME NEW st \in Stores
  PROVE  Unused(st) \in Buffer /\ \A s \in Structs : st.structs[s].buf # Unused(st)
<1>1. ASSUME \A b \in Buffer : b \in Held(st)
      PROVE  FALSE
  <2> DEFINE owner == [b \in Buffer |-> CHOOSE s \in Structs : st.structs[s].buf = b]
  <2>1. \A b \in Buffer : \E s \in Structs : st.structs[s].buf = b
    BY <1>1 DEF Held
  <2>2. owner \in [Buffer -> Structs] /\ \A b \in Buffer : st.structs[owner[b]].buf = b
    BY <2>1
  <2> HIDE DEF owner
  <2>3. \E x, y \in Buffer : x # y /\ owner[x] = owner[y]
    BY <2>2, StructsFinite, ListsAssumption, FS_PigeonHole
  <2>4. QED
    BY <2>2, <2>3
<1>2. Unused(st) \in Buffer \ Held(st)
  BY <1>1 DEF Unused
<1>3. QED
  BY <1>2, ListsAssumption DEF Held

\* Doubling reaches n.
LEMMA DoubledReaches ==
  ASSUME NEW cap \in Nat, NEW n \in Nat
  PROVE  Doubled(cap, n) \in Nat /\ Doubled(cap, n) >= n /\ Doubled(cap, n) > 0
<1> DEFINE S == Nat \ {0}
           G == [g \in [S -> Nat] |-> [c \in S |-> IF c >= n THEN c ELSE g[2 * c]]]
           m == [c \in S |-> IF c >= n THEN 0 ELSE n - c]
<1>1. \A c \in S : 2 * c \in S
  OBVIOUS
<1>2. Recursive(G, S, Nat, m)
  <2>1. m \in [S -> Nat]
    OBVIOUS
  <2>2. ASSUME NEW g \in [S -> Nat]
        PROVE  G[g] \in [S -> Nat]
    BY <1>1
  <2>3. G \in [[S -> Nat] -> [S -> Nat]]
    BY <2>2
  <2>4. ASSUME NEW g \in [S -> Nat], NEW h \in [S -> Nat], NEW c \in S,
               \A d \in S : m[d] < m[c] => g[d] = h[d]
        PROVE  G[g][c] = G[h][c]
    <3>1. CASE c >= n
      BY <3>1
    <3>2. CASE c < n
      <4>1. m[2 * c] < m[c]
        BY <1>1, <3>2
      <4>2. g[2 * c] = h[2 * c]
        BY <1>1, <2>4, <4>1
      <4>3. QED
        BY <3>2, <4>2
    <3>3. QED
      BY <3>1, <3>2
  <2>5. QED
    BY <2>1, <2>3, <2>4 DEF Recursive
<1>3. \E f \in [S -> Nat] : f = G[f]
  <2> HIDE DEF G, m, S
  <2> QED BY <1>2, RecursionTheorem
<1>4. \E f : f = [c \in S |-> IF c >= n THEN c ELSE f[2 * c]]
  BY <1>3
<1> DEFINE grown == CHOOSE f : f = [c \in S |-> IF c >= n THEN c ELSE f[2 * c]]
           from == IF cap = 0 THEN FirstCapacity ELSE cap
<1>5. grown = [c \in S |-> IF c >= n THEN c ELSE grown[2 * c]]
  BY <1>4
<1>6. Doubled(cap, n) = grown[from]
  BY DEF Doubled
<1>7. from \in S
  BY ListsAssumption
<1> HIDE DEF grown, from
<1> DEFINE T == {k \in Nat : \A c \in S : m[c] < k =>
                    grown[c] \in Nat /\ grown[c] >= n /\ grown[c] > 0}
<1>8. 0 \in T
  OBVIOUS
<1>9. ASSUME NEW k \in Nat, k \in T
      PROVE  k + 1 \in T
  <2>1. SUFFICES ASSUME NEW c \in S, m[c] < k + 1
                 PROVE  grown[c] \in Nat /\ grown[c] >= n /\ grown[c] > 0
    OBVIOUS
  <2>2. CASE c >= n
    BY <1>5, <2>2
  <2>3. CASE c < n
    <3>1. m[2 * c] < k /\ 2 * c \in S
      BY <1>1, <2>1, <2>3
    <3>2. grown[c] = grown[2 * c]
      BY <1>5, <2>3
    <3>3. QED
      BY <1>9, <3>1, <3>2
  <2>4. QED
    BY <2>2, <2>3
<1>10. Nat \subseteq T
  <2> HIDE DEF T
  <2> QED BY <1>8, <1>9, SetInduction
<1>11. m[from] \in Nat /\ m[from] + 1 \in T
  BY <1>7, <1>10
<1>12. QED
  BY <1>6, <1>7, <1>11

LEMMA StoreTyped ==
  ASSUME NEW st \in Stores, NEW s \in Structs
  PROVE  /\ st.structs[s].buf \in Buffer \cup {NoBuffer}
         /\ st.structs[s].cap \in Nat
         /\ Values(st, s) \in Seq(ListVal)
         /\ Len(Values(st, s)) \in Nat
<1>1. st.structs[s] \in [buf : Buffer \cup {NoBuffer}, cap : Nat] /\ st.memory \in [Buffer -> Seq(ListVal)]
  BY DEF Stores
<1>2. Values(st, s) \in Seq(ListVal)
  BY <1>1, EmptySeq DEF Values
<1>3. QED
  BY <1>1, <1>2, LenProperties

\* Writing the values of s, no more than its buffer holds.
LEMMA RewriteSound ==
  ASSUME NEW st, Sound(st), NEW s \in Structs, NEW vs \in Seq(ListVal),
         Len(vs) <= st.structs[s].cap
  PROVE  Sound(Rewrite(st, s, vs))
<1>1. CASE st.structs[s].buf = NoBuffer
  BY <1>1 DEF Rewrite
<1>2. CASE st.structs[s].buf # NoBuffer
  <2> DEFINE b == st.structs[s].buf
             st2 == [st EXCEPT !.memory[b] = vs]
  <2>1. b \in Buffer
    BY <1>2, StoreTyped DEF Sound
  <2>2. /\ st2 \in Stores
        /\ st2.structs = st.structs
        /\ st2.freed = st.freed
        /\ st2.memory = [st.memory EXCEPT ![b] = vs]
    BY <2>1 DEF Sound, Stores
  <2>3. ASSUME NEW u \in Structs
        PROVE  Len(Values(st2, u)) <= st2.structs[u].cap
    <3>1. CASE u = s
      BY <1>2, <2>1, <2>2, <3>1 DEF Values, Sound, Stores
    <3>2. CASE u # s
      <4>1. st.structs[u].buf # b
        BY <1>2, <3>2 DEF Sound, Owned
      <4>2. Values(st2, u) = Values(st, u)
        BY <2>1, <2>2, <4>1, StoreTyped DEF Values, Sound, Stores
      <4>3. QED
        BY <2>2, <4>2 DEF Sound, Owned
    <3>3. QED
      BY <3>1, <3>2
  <2>4. Owned(st2)
    <3> HIDE DEF st2, b
    <3> QED BY <2>2, <2>3 DEF Owned, Sound
  <2>5. QED
    BY <1>2, <2>2, <2>4 DEF Sound, Rewrite
<1>3. QED
  BY <1>1, <1>2

\* A buffer that grows has a new owner, and none of the old one's.
LEMMA ReserveSound ==
  ASSUME NEW st, Sound(st), NEW s \in Structs, NEW n \in Nat
  PROVE  /\ Sound(Stack_reserve(st, s, n))
         /\ Len(Values(st, s)) + n <= Stack_reserve(st, s, n).structs[s].cap
<1> DEFINE old == st.structs[s].buf
           vs == Values(st, s)
           cap == Doubled(st.structs[s].cap, Len(vs) + n)
           b == Unused(st)
           moved == [st EXCEPT !.structs[s] = [buf |-> b, cap |-> cap],
                               !.memory[b] = vs,
                               !.freed = @ \ {b}]
           st2 == FreeBuf(moved, old)
<1>1. /\ st \in Stores
      /\ old \in Buffer \cup {NoBuffer} /\ st.structs[s].cap \in Nat
      /\ vs \in Seq(ListVal) /\ Len(vs) \in Nat /\ Len(vs) + n \in Nat
  BY StoreTyped DEF Sound
<1>2. cap \in Nat /\ cap >= Len(vs) + n
  BY <1>1, DoubledReaches
<1>3. CASE cap = st.structs[s].cap
  BY <1>2, <1>3 DEF Stack_reserve
<1>4. CASE cap # st.structs[s].cap
  <2>1. b \in Buffer /\ b # NoBuffer /\ \A u \in Structs : st.structs[u].buf # b
    BY <1>1, UnusedIsFree, ListsAssumption
  <2> HIDE DEF b, cap, vs, old
  <2>2. /\ moved \in Stores
        /\ moved.structs = [st.structs EXCEPT ![s] = [buf |-> b, cap |-> cap]]
        /\ moved.memory = [st.memory EXCEPT ![b] = vs]
        /\ moved.freed = st.freed \ {b}
    BY <1>1, <1>2, <2>1 DEF Stores
  <2>3. /\ st2 \in Stores
        /\ st2.structs = moved.structs
        /\ st2.memory = moved.memory
        /\ st2.freed = moved.freed \cup ({old} \ {NoBuffer})
    <3> HIDE DEF moved
    <3>1. CASE old = NoBuffer
      BY <2>2, <3>1 DEF FreeBuf
    <3>2. CASE old # NoBuffer
      BY <1>1, <2>2, <3>2 DEF FreeBuf, Stores
    <3>3. QED
      BY <3>1, <3>2
  <2> HIDE DEF st2, moved
  <2>4. st2.structs[s] = [buf |-> b, cap |-> cap]
    BY <1>1, <2>2, <2>3 DEF Stores
  <2>5. \A u \in Structs : u # s => st2.structs[u] = st.structs[u]
    BY <1>1, <2>2, <2>3 DEF Stores
  <2>6. Values(st2, s) = vs
    BY <1>1, <2>1, <2>2, <2>3, <2>4 DEF Values, Stores
  <2>7. ASSUME NEW u \in Structs, u # s
        PROVE  Values(st2, u) = Values(st, u)
    BY <1>1, <2>1, <2>2, <2>3, <2>5, <2>7, StoreTyped DEF Values, Stores
  <2>8. \A u, w \in Structs : u # w /\ st2.structs[u].buf # NoBuffer
                                => st2.structs[u].buf # st2.structs[w].buf
    BY <2>1, <2>4, <2>5 DEF Sound, Owned
  <2>9. ASSUME NEW u \in Structs
        PROVE  /\ st2.structs[u].buf \notin st2.freed
               /\ Len(Values(st2, u)) <= st2.structs[u].cap
               /\ st2.structs[u].buf = NoBuffer => st2.structs[u].cap = 0
    <3>1. CASE u = s
      <4>1. b # old
        BY <2>1 DEF old
      <4>2. QED
        BY <1>1, <1>2, <2>1, <2>2, <2>3, <2>4, <2>6, <3>1, <4>1
    <3>2. CASE u # s
      <4>1. st.structs[u].buf # old \/ old = NoBuffer
        BY <3>2 DEF Sound, Owned, old
      <4>2. st.structs[u].buf \notin st2.freed
        BY <2>2, <2>3, <4>1 DEF Sound, Owned
      <4>3. QED
        BY <2>5, <2>7, <3>2, <4>2 DEF Sound, Owned
    <3>3. QED
      BY <3>1, <3>2
  <2>10. Sound(st2)
    BY <2>3, <2>8, <2>9 DEF Sound, Owned
  <2>11. Stack_reserve(st, s, n) = st2
    BY <1>4 DEF Stack_reserve, st2, moved, b, cap, vs, old
  <2>12. QED
    BY <1>2, <2>4, <2>10, <2>11 DEF vs
<1>5. QED
  BY <1>3, <1>4

LEMMA PushAllSound ==
  ASSUME NEW st, Sound(st), NEW s \in Structs, NEW vs \in Seq(ListVal)
  PROVE  Sound(PushAll(st, s, vs))
<1>1. Len(vs) \in Nat
  BY LenProperties
<1>2. /\ Sound(Stack_reserve(st, s, Len(vs)))
      /\ Len(Values(st, s)) + Len(vs) <= Stack_reserve(st, s, Len(vs)).structs[s].cap
  BY <1>1, ReserveSound
<1>3. /\ Values(st, s) \o vs \in Seq(ListVal)
      /\ Len(Values(st, s) \o vs) = Len(Values(st, s)) + Len(vs)
  BY StoreTyped, ConcatProperties DEF Sound
<1>4. QED
  BY <1>2, <1>3, RewriteSound DEF PushAll

LEMMA PushSound ==
  ASSUME NEW st, Sound(st), NEW s \in Structs, NEW v \in ListVal
  PROVE  Sound(Stack_push(st, s, v))
<1>1. <<v>> \in Seq(ListVal)
  OBVIOUS
<1>2. QED
  BY <1>1, PushAllSound DEF Stack_push

\* A list takes over the buffer of vm->stack; its own one may have been freed.
LEMMA StealSound ==
  ASSUME NEW st, Sound(st), NEW l \in ListId, NEW old,
         old \in {NoBuffer, st.structs[l].buf}
  PROVE  Sound(Steal(FreeBuf(st, old), l))
<1> DEFINE st1 == FreeBuf(st, old)
           st2 == Steal(st1, l)
<1>1. VM \in Structs /\ l \in Structs /\ l # VM
  BY ListsAssumption DEF VM, Structs
<1>2. st \in Stores /\ old \in Buffer \cup {NoBuffer}
  BY <1>1, StoreTyped DEF Sound
<1>3. /\ st1 \in Stores
      /\ st1.structs = st.structs
      /\ st1.memory = st.memory
      /\ st1.freed = st.freed \cup ({old} \ {NoBuffer})
  <2>1. CASE old = NoBuffer
    BY <1>2, <2>1 DEF FreeBuf
  <2>2. CASE old # NoBuffer
    BY <1>2, <2>2 DEF FreeBuf, Stores
  <2>3. QED
    BY <2>1, <2>2
<1> HIDE DEF st1
<1>4. /\ st2 \in Stores
      /\ st2.structs = [st.structs EXCEPT ![l] = st.structs[VM], ![VM] = Empty]
      /\ st2.memory = st.memory
      /\ st2.freed = st1.freed
  BY <1>1, <1>3 DEF Steal, Stores, Empty
<1> HIDE DEF st2
<1>5. /\ st2.structs[VM] = Empty
      /\ st2.structs[l] = st.structs[VM]
      /\ \A u \in Structs \ {l, VM} : st2.structs[u] = st.structs[u]
  BY <1>1, <1>2, <1>4 DEF Stores
<1>6. Empty.buf = NoBuffer /\ Empty.cap = 0
  BY DEF Empty
<1>7. \A u \in Structs : Values(st2, u) = CASE u = VM -> <<>>
                                            [] u = l -> Values(st, VM)
                                            [] OTHER -> Values(st, u)
  BY <1>1, <1>4, <1>5, <1>6 DEF Values
<1>8. \A u, w \in Structs : u # w /\ st2.structs[u].buf # NoBuffer
                              => st2.structs[u].buf # st2.structs[w].buf
  BY <1>1, <1>5, <1>6 DEF Sound, Owned
<1>9. ASSUME NEW u \in Structs
      PROVE  /\ st2.structs[u].buf \notin st2.freed
             /\ Len(Values(st2, u)) <= st2.structs[u].cap
             /\ st2.structs[u].buf = NoBuffer => st2.structs[u].cap = 0
  <2>1. CASE u = VM
    <3>1. Values(st2, VM) = <<>> /\ Len(<<>>) = 0
      BY <1>1, <1>7
    <3>2. NoBuffer \notin st2.freed
      BY <1>3, <1>4, ListsAssumption DEF Stores
    <3>3. QED
      BY <1>5, <1>6, <2>1, <3>1, <3>2
  <2>2. CASE u = l
    <3>1. st.structs[VM].buf # old \/ old = NoBuffer
      BY <1>1 DEF Sound, Owned
    <3>2. st2.structs[l].buf \notin st2.freed
      BY <1>1, <1>3, <1>4, <1>5, <3>1 DEF Sound, Owned
    <3>3. QED
      BY <1>1, <1>5, <1>7, <2>2, <3>2 DEF Sound, Owned
  <2>3. CASE u \notin {VM, l}
    <3>1. st.structs[u].buf # old \/ old = NoBuffer
      BY <1>1, <2>3 DEF Sound, Owned
    <3>2. st2.structs[u].buf \notin st2.freed
      BY <1>3, <1>4, <1>5, <2>3, <3>1 DEF Sound, Owned
    <3>3. QED
      BY <1>5, <1>7, <2>3, <3>2 DEF Sound, Owned
  <2>4. QED
    BY <2>1, <2>2, <2>3
<1>10. QED
  BY <1>4, <1>8, <1>9 DEF Sound, Owned, st2, st1

\* The collector takes structs and buffers away, whichever lists it finds.
LEMMA CollectedSound ==
  ASSUME NEW st, Sound(st)
  PROVE  Sound(Collected(st))
<1> DEFINE live == Reachable(st) \cup {VM}
           kept == [st EXCEPT !.structs = [s \in Structs |-> IF s \in live THEN @[s] ELSE Empty]]
           st2 == [kept EXCEPT !.memory = [b \in Buffer |-> IF b \in Held(kept) THEN @[b] ELSE <<>>],
                               !.freed = @ \cap Held(kept)]
<1>1. Collected(st) = st2
  BY DEF Collected
<1> HIDE DEF live
<1>2. /\ kept \in Stores
      /\ kept.structs = [s \in Structs |-> IF s \in live THEN st.structs[s] ELSE Empty]
      /\ kept.memory = st.memory
      /\ kept.freed = st.freed
  BY DEF Sound, Stores, Empty
<1> HIDE DEF kept
<1>3. /\ st2 \in Stores
      /\ st2.structs = kept.structs
      /\ st2.memory = [b \in Buffer |-> IF b \in Held(kept) THEN st.memory[b] ELSE <<>>]
      /\ st2.freed = st.freed \cap Held(kept)
  <2>1. \A b \in Buffer : (IF b \in Held(kept) THEN kept.memory[b] ELSE <<>>) \in Seq(ListVal)
    BY <1>2, EmptySeq DEF Stores
  <2>2. QED
    BY <1>2, <2>1 DEF Stores
<1> HIDE DEF st2
<1>4. \A s \in Structs : st2.structs[s] = IF s \in live THEN st.structs[s] ELSE Empty
  BY <1>2, <1>3
<1>5. Empty.buf = NoBuffer /\ Empty.cap = 0
  BY DEF Empty
<1>6. ASSUME NEW s \in Structs, s \in live
      PROVE  Values(st2, s) = Values(st, s)
  <2>1. CASE st.structs[s].buf = NoBuffer
    BY <1>4, <1>6, <2>1 DEF Values
  <2>2. CASE st.structs[s].buf # NoBuffer
    <3>1. st.structs[s].buf \in Buffer
      BY <2>2, StoreTyped DEF Sound
    <3>2. st.structs[s].buf \in Held(kept)
      BY <1>2, <1>6, <2>2 DEF Held
    <3>3. QED
      BY <1>3, <1>4, <1>6, <2>2, <3>1, <3>2 DEF Values
  <2>3. QED
    BY <2>1, <2>2
<1>7. ASSUME NEW s \in Structs, s \notin live
      PROVE  Values(st2, s) = <<>>
  BY <1>4, <1>5, <1>7 DEF Values
<1>8. ASSUME NEW s \in Structs
      PROVE  /\ st2.structs[s].buf \notin st2.freed
             /\ Len(Values(st2, s)) <= st2.structs[s].cap
             /\ st2.structs[s].buf = NoBuffer => st2.structs[s].cap = 0
  <2>1. CASE s \in live
    BY <1>3, <1>4, <1>6, <2>1 DEF Sound, Owned
  <2>2. CASE s \notin live
    BY <1>3, <1>4, <1>5, <1>7, <2>2, ListsAssumption DEF Sound, Stores
  <2>3. QED
    BY <2>1, <2>2
<1>9. \A s, u \in Structs : s # u /\ st2.structs[s].buf # NoBuffer
                              => st2.structs[s].buf # st2.structs[u].buf
  BY <1>4, <1>5 DEF Sound, Owned
<1>10. QED
  BY <1>1, <1>3, <1>8, <1>9 DEF Sound, Owned
-----------------------------------------------------------------------------
(* Lists: the native functions                                             *)

LEMMA DoneSound ==
  ASSUME NEW st, Sound(st), NEW answer, Done(st, answer)
  PROVE  Sound(store')
BY CollectedSound DEF Done

LEMMA ListValues ==
  ASSUME NEW v \in ListVal
  PROVE  /\ v.t = "list" => v.v \in ListId
         /\ v.t = "number" => v.v \in Int
BY ListsAssumption DEF ListVal, IntValue, ListValue

LEMMA VMTyped ==
  ASSUME Sound(store)
  PROVE  VM \in Structs /\ VMValues \in Seq(ListVal) /\ Len(VMValues) \in Nat
<1>1. VM \in Structs
  BY DEF Structs
<1>2. QED
  BY <1>1, StoreTyped DEF Sound, VMValues

\* The arguments of a function that finds enough of them.
LEMMA ArgsTyped ==
  ASSUME Sound(store), NEW n \in Nat, n <= Len(VMValues)
  PROVE  /\ Sound(Popped(n))
         /\ \A k \in 1 .. n : Args(n)[k] \in ListVal
<1>1. VM \in Structs /\ VMValues \in Seq(ListVal) /\ Len(VMValues) \in Nat
  BY VMTyped
<1>2. /\ SubSeq(VMValues, 1, Len(VMValues) - n) \in Seq(ListVal)
      /\ Len(SubSeq(VMValues, 1, Len(VMValues) - n)) = Len(VMValues) - n
  BY <1>1
<1>3. Len(VMValues) <= store.structs[VM].cap /\ store.structs[VM].cap \in Nat
  BY <1>1, StoreTyped DEF Sound, Owned, VMValues
<1>4. Sound(Popped(n))
  <2> DEFINE rest == SubSeq(VMValues, 1, Len(VMValues) - n)
  <2>1. rest \in Seq(ListVal) /\ Len(rest) <= store.structs[VM].cap
    BY <1>1, <1>2, <1>3
  <2> HIDE DEF rest
  <2>2. Sound(Rewrite(store, VM, rest))
    BY <1>1, <2>1, RewriteSound
  <2>3. QED
    BY <2>2 DEF Popped, rest
<1>5. \A k \in 1 .. n : Args(n)[k] = VMValues[Len(VMValues) - n + k]
  BY <1>1 DEF Args
<1>6. \A k \in 1 .. n : Args(n)[k] \in ListVal
  BY <1>1, <1>5, ElementOfSeq
<1>7. QED
  BY <1>4, <1>6

LEMMA ListArgTyped ==
  ASSUME Sound(store), NEW n \in Nat \ {0}, n <= Len(VMValues), Args(n)[1].t = "list"
  PROVE  /\ ListArg(n) \in ListId /\ ListArg(n) \in Structs
         /\ Sound(Popped(n))
         /\ Listed(n) \in Seq(ListVal) /\ Len(Listed(n)) \in Nat
         /\ Len(Listed(n)) <= Popped(n).structs[ListArg(n)].cap
         /\ Popped(n).structs[ListArg(n)].cap \in Nat
<1>1. Sound(Popped(n)) /\ Args(n)[1] \in ListVal
  BY ArgsTyped
<1>2. ListArg(n) \in ListId /\ ListArg(n) \in Structs
  BY <1>1, ListValues DEF ListArg, Structs
<1>3. QED
  BY <1>1, <1>2, StoreTyped DEF Listed, Sound, Owned

LEMMA ExtractFailsSound ==
  ASSUME Sound(store), NEW sig, Len(sig) \in Nat, fpExtractFails(sig)
  PROVE  Sound(store')
<1>1. CASE Len(VMValues) < Len(sig) /\ Done(store, "underflow")
  BY <1>1, DoneSound
<1>2. CASE Len(VMValues) >= Len(sig) /\ Done(Popped(Len(sig)), "type")
  BY <1>2, ArgsTyped, VMTyped, DoneSound
<1>3. QED
  BY <1>1, <1>2 DEF fpExtractFails

\* What fpExtract promises of its arguments.
LEMMA Extracted ==
  ASSUME Sound(store), NEW sig, NEW n \in Nat \ {0}, Len(sig) = n, fpExtract(sig)
  PROVE  n <= Len(VMValues) /\ \A k \in 1 .. n : Fits(sig[k], Args(n)[k])
BY VMTyped DEF fpExtract

LEMMA ExtractedList ==
  ASSUME Sound(store), fpExtract(<<"l">>)
  PROVE  1 <= Len(VMValues) /\ Args(1)[1].t = "list"
<1> DEFINE sig == <<"l">>
<1>1. Len(sig) = 1 /\ sig[1] = "l"
  OBVIOUS
<1> HIDE DEF sig
<1>2. 1 <= Len(VMValues) /\ Fits(sig[1], Args(1)[1])
  BY <1>1, Extracted DEF sig
<1>3. QED
  BY <1>1, <1>2 DEF Fits

LEMMA IntTyped == \A i \in Int : IntValue(i) \in ListVal
BY DEF ListVal

LEMMA ListSound == Sound(store) /\ list => Sound(store')
<1> SUFFICES ASSUME Sound(store), list
             PROVE  Sound(store')
  OBVIOUS
<1>1. NewList \in ListId
  BY DEF list, NewList, Spare
<1>2. Sound(Steal(store, NewList))
  BY <1>1, StealSound DEF FreeBuf
<1>3. VM \in Structs /\ ListValue(NewList) \in ListVal
  BY <1>1 DEF Structs, ListVal
<1>4. Sound(Stack_push(Steal(store, NewList), VM, ListValue(NewList)))
  BY <1>2, <1>3, PushSound
<1>5. QED
  BY <1>4, DoneSound DEF list

LEMMA lstopenSound == Sound(store) /\ lstopen => Sound(store')
<1> SUFFICES ASSUME Sound(store), lstopen
             PROVE  Sound(store')
  OBVIOUS
<1>1. CASE fpExtractFails(<<"l">>)
  BY <1>1, ExtractFailsSound
<1>2. CASE fpExtract(<<"l">>) /\ Done(PushAll(Popped(1), VM, Listed(1)), "ok")
  <2>1. 1 <= Len(VMValues) /\ Args(1)[1].t = "list"
    BY <1>2, ExtractedList
  <2>2. Sound(Popped(1)) /\ Listed(1) \in Seq(ListVal)
    BY <2>1, ListArgTyped
  <2>3. Sound(PushAll(Popped(1), VM, Listed(1)))
    BY <2>2, PushAllSound, VMTyped
  <2>4. QED
    BY <1>2, <2>3, DoneSound
<1>3. QED
  BY <1>1, <1>2 DEF lstopen

LEMMA lstpushSound == Sound(store) /\ lstpush => Sound(store')
<1> SUFFICES ASSUME Sound(store), lstpush
             PROVE  Sound(store')
  OBVIOUS
<1>1. CASE Done(store, "underflow") \/ Done(store, "type")
  BY <1>1, DoneSound
<1>2. CASE /\ Len(VMValues) >= 2
           /\ Args(2)[1].t = "list"
           /\ Done(Stack_push(Popped(2), ListArg(2), Args(2)[2]), "ok")
  <2>1. Sound(Popped(2)) /\ ListArg(2) \in Structs /\ Args(2)[2] \in ListVal
    BY <1>2, VMTyped, ListArgTyped, ArgsTyped
  <2>2. Sound(Stack_push(Popped(2), ListArg(2), Args(2)[2]))
    BY <2>1, PushSound
  <2>3. QED
    BY <1>2, <2>2, DoneSound
<1>3. QED
  BY <1>1, <1>2 DEF lstpush

LEMMA FrontTyped ==
  ASSUME NEW S, NEW vs \in Seq(S), Len(vs) > 0
  PROVE  /\ SubSeq(vs, 1, Len(vs) - 1) \in Seq(S)
         /\ Len(SubSeq(vs, 1, Len(vs) - 1)) = Len(vs) - 1
         /\ vs[Len(vs)] \in S
<1>1. PICK n \in Nat : n = Len(vs) /\ n > 0 /\ \A i \in 1 .. n : vs[i] \in S
  BY LenProperties, ElementOfSeq
<1>2. SubSeq(vs, 1, n - 1) \in Seq(S) /\ Len(SubSeq(vs, 1, n - 1)) = n - 1
  BY <1>1, SubSeqProperties
<1>3. QED
  BY <1>1, <1>2

LEMMA lstpopSound == Sound(store) /\ lstpop => Sound(store')
<1> SUFFICES ASSUME Sound(store), lstpop
             PROVE  Sound(store')
  OBVIOUS
<1>1. CASE fpExtractFails(<<"l">>)
  BY <1>1, ExtractFailsSound
<1>2. CASE fpExtract(<<"l">>) /\ ~fpExtractFails(<<"l">>)
  <2> DEFINE st == Popped(1)
             vs == Listed(1)
             rest == SubSeq(vs, 1, Len(vs) - 1)
  <2>1. 1 <= Len(VMValues) /\ Args(1)[1].t = "list"
    BY <1>2, ExtractedList
  <2>2. /\ Sound(st) /\ vs \in Seq(ListVal) /\ ListArg(1) \in Structs /\ Len(vs) \in Nat
        /\ Len(vs) <= st.structs[ListArg(1)].cap /\ st.structs[ListArg(1)].cap \in Nat
    BY <2>1, ListArgTyped
  <2>3. \/ Done(st, "invalid")
        \/ vs # <<>> /\ Done(Stack_push(Rewrite(st, ListArg(1), rest), VM, vs[Len(vs)]), "ok")
    BY <1>2 DEF lstpop
  <2> HIDE DEF st, vs
  <2>4. ASSUME vs # <<>>
        PROVE  Sound(Stack_push(Rewrite(st, ListArg(1), rest), VM, vs[Len(vs)]))
    <3>1. Len(vs) > 0
      BY <2>2, <2>4, EmptySeq
    <3>2. rest \in Seq(ListVal) /\ Len(rest) = Len(vs) - 1 /\ vs[Len(vs)] \in ListVal
      BY <2>2, <3>1, FrontTyped
    <3>3. Len(rest) <= st.structs[ListArg(1)].cap
      BY <2>2, <3>2
    <3>4. Sound(Rewrite(st, ListArg(1), rest))
      BY <2>2, <3>2, <3>3, RewriteSound
    <3>5. QED
      BY <3>2, <3>4, PushSound, VMTyped
  <2>5. QED
    BY <2>2, <2>3, <2>4, DoneSound
<1>3. QED
  BY <1>1, <1>2 DEF lstpop

\* The same for a list and an index, and with a third argument.
LEMMA ExtractedIndex ==
  ASSUME Sound(store), NEW last, NEW n \in {2, 3},
         fpExtract(IF n = 2 THEN <<"l", "i">> ELSE <<"l", "i", last>>)
  PROVE  /\ n <= Len(VMValues) /\ Args(n)[1].t = "list"
         /\ Args(n)[2].v \in Int
         /\ n = 3 => Args(3)[3] \in ListVal /\ Fits(last, Args(3)[3])
<1> DEFINE sig == IF n = 2 THEN <<"l", "i">> ELSE <<"l", "i", last>>
<1>1. Len(sig) = n /\ sig[1] = "l" /\ sig[2] = "i" /\ (n = 3 => sig[3] = last)
  OBVIOUS
<1>2. n \in Nat \ {0} /\ n >= 2
  OBVIOUS
<1> HIDE DEF sig
<1>3. n <= Len(VMValues) /\ \A k \in 1 .. n : Fits(sig[k], Args(n)[k])
  BY <1>1, <1>2, Extracted DEF sig
<1>4. Fits("l", Args(n)[1]) /\ Fits("i", Args(n)[2])
  BY <1>1, <1>2, <1>3
<1>5. Args(n)[1].t = "list" /\ Args(n)[2].t = "number"
  BY <1>4 DEF Fits
<1>6. \A k \in 1 .. n : Args(n)[k] \in ListVal
  BY <1>2, <1>3, ArgsTyped
<1>7. Args(n)[2].v \in Int
  BY <1>2, <1>5, <1>6, ListValues
<1>8. n = 3 => Args(3)[3] \in ListVal /\ Fits(last, Args(3)[3])
  BY <1>1, <1>3, <1>6
<1>9. QED
  BY <1>3, <1>5, <1>7, <1>8

LEMMA IndexSigs ==
  /\ Len(<<"l", "i">>) \in Nat
  /\ Len(<<"l", "i", "v">>) \in Nat
  /\ Len(<<"l", "i", "?i">>) \in Nat
OBVIOUS

LEMMA lstgetSound == Sound(store) /\ lstget => Sound(store')
<1> SUFFICES ASSUME Sound(store), lstget
             PROVE  Sound(store')
  OBVIOUS
<1>1. CASE fpExtractFails(<<"l", "i">>)
  BY <1>1, IndexSigs, ExtractFailsSound
<1>2. CASE fpExtract(<<"l", "i">>) /\ ~fpExtractFails(<<"l", "i">>)
  <2> DEFINE st == Popped(2)
             vs == Listed(2)
             k == Resolve(Args(2)[2].v, Len(vs))
  <2>1. 2 <= Len(VMValues) /\ Args(2)[1].t = "list" /\ Args(2)[2].v \in Int
    BY <1>2, ExtractedIndex
  <2>2. Sound(st) /\ vs \in Seq(ListVal) /\ Len(vs) \in Nat
    BY <2>1, ListArgTyped
  <2>3. \/ Done(st, "invalid")
        \/ k \in 0 .. Len(vs) - 1 /\ Done(Stack_push(st, VM, vs[k + 1]), "ok")
    BY <1>2 DEF lstget
  <2> HIDE DEF st, vs, k
  <2>4. ASSUME k \in 0 .. Len(vs) - 1
        PROVE  Sound(Stack_push(st, VM, vs[k + 1]))
    <3>1. vs[k + 1] \in ListVal
      BY <2>2, <2>4, ElementOfSeq
    <3>2. QED
      BY <2>2, <3>1, PushSound, VMTyped
  <2>5. QED
    BY <2>2, <2>3, <2>4, DoneSound
<1>3. QED
  BY <1>1, <1>2 DEF lstget

LEMMA lstsetSound == Sound(store) /\ lstset => Sound(store')
<1> SUFFICES ASSUME Sound(store), lstset
             PROVE  Sound(store')
  OBVIOUS
<1>1. CASE fpExtractFails(<<"l", "i", "v">>)
  BY <1>1, IndexSigs, ExtractFailsSound
<1>2. CASE fpExtract(<<"l", "i", "v">>) /\ ~fpExtractFails(<<"l", "i", "v">>)
  <2> DEFINE st == Popped(3)
             vs == Listed(3)
             k == Resolve(Args(3)[2].v, Len(vs))
             vs2 == [vs EXCEPT ![k + 1] = Args(3)[3]]
  <2>1. 3 <= Len(VMValues) /\ Args(3)[1].t = "list" /\ Args(3)[3] \in ListVal
    BY <1>2, ExtractedIndex
  <2>2. /\ Sound(st) /\ vs \in Seq(ListVal) /\ Len(vs) \in Nat /\ ListArg(3) \in Structs
        /\ Len(vs) <= st.structs[ListArg(3)].cap
    BY <2>1, ListArgTyped
  <2>3. \/ Done(st, "invalid")
        \/ k \in 0 .. Len(vs) - 1 /\ Done(Rewrite(st, ListArg(3), vs2), "ok")
    BY <1>2 DEF lstset
  <2> HIDE DEF st, vs, k
  <2>4. ASSUME k \in 0 .. Len(vs) - 1
        PROVE  Sound(Rewrite(st, ListArg(3), vs2))
    <3>1. k + 1 \in 1 .. Len(vs)
      BY <2>2, <2>4
    <3>2. vs2 \in Seq(ListVal) /\ Len(vs2) = Len(vs)
      BY <2>1, <2>2, <3>1, ExceptSeq
    <3> HIDE DEF vs2
    <3>3. QED
      BY <2>2, <3>2, RewriteSound
  <2>5. QED
    BY <2>2, <2>3, <2>4, DoneSound
<1>3. QED
  BY <1>1, <1>2 DEF lstset

LEMMA lstsizeSound == Sound(store) /\ lstsize => Sound(store')
<1> SUFFICES ASSUME Sound(store), lstsize
             PROVE  Sound(store')
  OBVIOUS
<1>1. CASE fpExtractFails(<<"l">>)
  BY <1>1, ExtractFailsSound
<1>2. CASE /\ fpExtract(<<"l">>)
           /\ Done(Stack_push(Popped(1), VM, IntValue(Len(Listed(1)))), "ok")
  <2>1. Sound(Popped(1)) /\ Len(Listed(1)) \in Nat
    BY <1>2, ExtractedList, ListArgTyped
  <2>2. IntValue(Len(Listed(1))) \in ListVal
    BY <2>1, IntTyped
  <2>3. QED
    BY <1>2, <2>1, <2>2, PushSound, VMTyped, DoneSound
<1>3. QED
  BY <1>1, <1>2 DEF lstsize

LEMMA lstchangeSound == Sound(store) /\ lstchange => Sound(store')
<1> SUFFICES ASSUME Sound(store), lstchange
             PROVE  Sound(store')
  OBVIOUS
<1>1. CASE fpExtractFails(<<"l">>)
  BY <1>1, ExtractFailsSound
<1>2. CASE fpExtract(<<"l">>) /\ ~fpExtractFails(<<"l">>)
  <2> DEFINE st == Popped(1)
             old == st.structs[ListArg(1)].buf
  <2>1. Sound(st) /\ ListArg(1) \in ListId
    BY <1>2, ExtractedList, ListArgTyped
  <2>2. Done(Steal(FreeBuf(st, old), ListArg(1)), "ok")
    BY <1>2 DEF lstchange
  <2> HIDE DEF st
  <2>3. Sound(Steal(FreeBuf(st, old), ListArg(1)))
    BY <2>1, StealSound
  <2>4. QED
    BY <2>2, <2>3, DoneSound
<1>3. QED
  BY <1>1, <1>2 DEF lstchange

LEMMA lstsubSound == Sound(store) /\ lstsub => Sound(store')
<1> SUFFICES ASSUME Sound(store), lstsub
             PROVE  Sound(store')
  OBVIOUS
<1>1. CASE fpExtractFails(<<"l", "i", "?i">>)
  BY <1>1, IndexSigs, ExtractFailsSound
<1>2. CASE fpExtract(<<"l", "i", "?i">>) /\ ~fpExtractFails(<<"l", "i", "?i">>)
  <2> DEFINE st == Popped(3)
             vs == Listed(3)
             begin == Resolve(Args(3)[2].v, Len(vs))
             end == IF Args(3)[3].t = "nil" THEN Len(vs) ELSE Resolve(Args(3)[3].v, Len(vs))
  <2>1. 3 <= Len(VMValues) /\ Args(3)[1].t = "list"
    BY <1>2, ExtractedIndex
  <2>2. Sound(st) /\ vs \in Seq(ListVal) /\ Len(vs) \in Nat
    BY <2>1, ListArgTyped
  <2>3. \/ \E answer \in {"invalid", "crash"} : Done(st, answer)
        \/ /\ {begin, end} \subseteq 0 .. Len(vs)
           /\ Done(PushAll(st, VM, SubSeq(vs, begin + 1, end)), "ok")
    BY <1>2 DEF lstsub
  <2> HIDE DEF st, vs, begin, end
  <2>4. ASSUME {begin, end} \subseteq 0 .. Len(vs)
        PROVE  Sound(PushAll(st, VM, SubSeq(vs, begin + 1, end)))
    <3>1. /\ begin + 1 \in Int /\ end \in Int
          /\ \A k \in begin + 1 .. end : vs[k] \in ListVal
      BY <2>2, <2>4, ElementOfSeq
    <3>2. SubSeq(vs, begin + 1, end) \in Seq(ListVal)
      BY <3>1, SubSeqProperties
    <3>3. QED
      BY <2>2, <3>2, PushAllSound, VMTyped
  <2>5. QED
    BY <2>2, <2>3, <2>4, DoneSound
<1>3. QED
  BY <1>1, <1>2 DEF lstsub

LEMMA ListsInitSound == ListsInit => Sound(store)
<1> SUFFICES ASSUME ListsInit
             PROVE  Sound(store)
  OBVIOUS
<1>1. /\ store.memory = [b \in Buffer |-> <<>>]
      /\ store.freed = {}
      /\ store.structs = [s \in Structs |-> Empty]
      /\ Empty.buf = NoBuffer /\ Empty.cap = 0
  BY DEF ListsInit, Empty
<1>2. store \in Stores
  BY EmptySeq DEF ListsInit, Stores, Empty
<1>3. \A s \in Structs : store.structs[s] = Empty /\ Values(store, s) = <<>>
  BY <1>1 DEF Values
<1>4. QED
  BY <1>1, <1>2, <1>3 DEF Sound, Owned

LEMMA ListsNextSound == Sound(store) /\ ListsNext => Sound(store')
<1> SUFFICES ASSUME Sound(store), ListsNext
             PROVE  Sound(store')
  OBVIOUS
<1>1. ASSUME NEW v \in Literals, Literal(v)
      PROVE  Sound(store')
  <2>1. Sound(Stack_push(store, VM, v))
    BY PushSound, VMTyped DEF ListVal
  <2>2. QED
    BY <1>1, <2>1, DoneSound DEF Literal
<1>2. QED
  BY <1>1, ListSound, lstopenSound, lstpushSound, lstpopSound, lstgetSound,
     lstsetSound, lstsizeSound, lstchangeSound, lstsubSound DEF ListsNext

LEMMA SoundOwned == Sound(store) => BuffersOwned
<1> SUFFICES ASSUME Sound(store)
             PROVE  BuffersOwned
  OBVIOUS
<1>1. Held(store) \cap store.freed = {}
  BY DEF Sound, Owned, Held
<1>2. QED
  BY <1>1 DEF Sound, Owned, BuffersOwned

\* Every buffer has one owner, which has not freed it, and whose values fit it
\* (builtin_list, builtin_lstchange, Stack_reserve), for any number of lists and
\* buffers, any capacity to start with and any values.
THEOREM ListsBuffersOwned == Spec => []BuffersOwned
<1>1. Init => Sound(store)
  BY ListsInitSound DEF Init
<1>2. Sound(store) /\ [Next]_vars => Sound(store)'
  BY ListsNextSound DEF Next, vars, lvars, Sound, Owned, Values
<1>3. QED
  BY <1>1, <1>2, SoundOwned, PTL DEF Spec
-----------------------------------------------------------------------------
(* Sorting: facts about one C stack, fs                                    *)

SortFrame == [kind : {"sort"}, place : Places, size : Nat, le : SUBSET (Nat \X Nat),
              initial : Seq(StackValues), same : BOOLEAN, failed : BOOLEAN]
CmpFrame == [kind : {"cmp"}, a : Nat, b : Nat, oldStk : Nat]
Frame == {Prompt} \cup [kind : {"call"}, place : Places \cup Quiet]
           \cup [kind : {"catch"}, place : Quiet] \cup SortFrame \cup CmpFrame

IsObject(v) == v.t = "context"

\* u may come before w.
InPlace(u, w) ==
  \/ u.t = "number" /\ (w.t = "number" => u.v <= w.v)
  \/ IsObject(u) /\ IsObject(w)

\* What qsort knows is right about the values sort f was called for.
Knows(f) ==
  f.same => /\ Len(f.initial) = f.size
            /\ \A pair \in f.le : /\ pair[1] \in 1 .. f.size /\ pair[2] \in 1 .. f.size
                                  /\ InPlace(f.initial[pair[1]], f.initial[pair[2]])

\* The comparison c is one that the sort f waits for.
Awaits(f, c) ==
  /\ f.kind = "sort" /\ ~f.failed
  /\ c.oldStk = f.size /\ c.a \in 1 .. f.size /\ c.b \in 1 .. f.size
  /\ f.same => IsObject(f.initial[c.a]) /\ IsObject(f.initial[c.b])

\* Only the prompt is at the bottom, a sort waits for comparisons only, and
\* these are called by nothing else.
Nested(fs) ==
  /\ fs \in Seq(Frame) /\ Len(fs) > 0
  /\ \A j \in 1 .. Len(fs) : /\ fs[j].kind = "prompt" <=> j = 1
                             /\ fs[j].kind = "sort" => Knows(fs[j])
  /\ \A j \in 2 .. Len(fs) : /\ fs[j].kind = "cmp" => Awaits(fs[j - 1], fs[j])
                             /\ fs[j - 1].kind = "sort" => fs[j].kind = "cmp"

LEMMA FrameKinds ==
  ASSUME NEW f \in Frame
  PROVE  /\ f.kind \in {"prompt", "call", "catch", "sort", "cmp"}
         /\ f.kind = "prompt" => f = Prompt
         /\ f.kind = "call" => f \in [kind : {"call"}, place : Places \cup Quiet]
         /\ f.kind = "catch" => f \in [kind : {"catch"}, place : Quiet]
         /\ f.kind = "sort" => f \in SortFrame
         /\ f.kind = "cmp" => f \in CmpFrame
  BY DEF Frame, SortFrame, CmpFrame, Prompt

LEMMA NestedPrompt == Nested(<<Prompt>>)
<1>1. Prompt \in Frame /\ Prompt.kind = "prompt"
  BY DEF Frame, Prompt
<1>2. <<Prompt>> \in Seq(Frame) /\ Len(<<Prompt>>) = 1 /\ <<Prompt>>[1] = Prompt
  BY <1>1
<1>3. QED
  BY <1>1, <1>2 DEF Nested

LEMMA PoppedFrame ==
  ASSUME NEW fs, Nested(fs), Len(fs) > 1
  PROVE  /\ Nested(Front(fs)) /\ Len(Front(fs)) = Len(fs) - 1
         /\ \A j \in 1 .. Len(fs) - 1 : Front(fs)[j] = fs[j]
<1>1. /\ Front(fs) \in Seq(Frame) /\ Len(Front(fs)) = Len(fs) - 1
      /\ \A j \in 1 .. Len(fs) - 1 : Front(fs)[j] = fs[j]
  BY SubSeqProperties DEF Nested, Front
<1>2. QED
  BY <1>1 DEF Nested

LEMMA PushedFrame ==
  ASSUME NEW fs, Nested(fs), NEW f \in Frame, f.kind # "prompt",
         f.kind = "sort" => Knows(f),
         f.kind = "cmp" => Awaits(Last(fs), f),
         f.kind # "cmp" => Last(fs).kind # "sort"
  PROVE  /\ Nested(Append(fs, f)) /\ Len(Append(fs, f)) = Len(fs) + 1
         /\ \A j \in 1 .. Len(fs) : Append(fs, f)[j] = fs[j]
         /\ Append(fs, f)[Len(fs) + 1] = f
<1> DEFINE gs == Append(fs, f)
<1>1. /\ gs \in Seq(Frame) /\ Len(gs) = Len(fs) + 1 /\ Len(fs) \in Nat
      /\ \A j \in 1 .. Len(fs) : gs[j] = fs[j]
      /\ gs[Len(fs) + 1] = f
  BY AppendProperties DEF Nested
<1> HIDE DEF gs
<1>2. \A j \in 1 .. Len(gs) : /\ gs[j].kind = "prompt" <=> j = 1
                              /\ gs[j].kind = "sort" => Knows(gs[j])
  BY <1>1 DEF Nested
<1>3. ASSUME NEW j \in 2 .. Len(gs)
      PROVE  /\ gs[j].kind = "cmp" => Awaits(gs[j - 1], gs[j])
             /\ gs[j - 1].kind = "sort" => gs[j].kind = "cmp"
  <2>1. CASE j = Len(gs)
    BY <1>1, <2>1 DEF Last
  <2>2. CASE j # Len(gs)
    BY <1>1, <2>2 DEF Nested
  <2>3. QED
    BY <2>1, <2>2
<1>4. QED
  BY <1>1, <1>2, <1>3 DEF Nested, gs

\* A sort on top is replaced by what is known of it later.
LEMMA ReplacedFrame ==
  ASSUME NEW fs, Nested(fs), Last(fs).kind = "sort", NEW f \in SortFrame, Knows(f)
  PROVE  /\ Nested(Append(Front(fs), f)) /\ Len(Append(Front(fs), f)) = Len(fs)
         /\ \A j \in 1 .. Len(fs) - 1 : Append(Front(fs), f)[j] = fs[j]
         /\ Append(Front(fs), f)[Len(fs)] = f
<1>1. fs \in Seq(Frame) /\ Len(fs) \in Nat /\ Len(fs) > 1
  BY DEF Nested, Last
<1>2. /\ Nested(Front(fs)) /\ Len(Front(fs)) = Len(fs) - 1
      /\ \A j \in 1 .. Len(fs) - 1 : Front(fs)[j] = fs[j]
  BY <1>1, PoppedFrame
<1>3. Last(Front(fs)).kind # "sort"
  BY <1>1, <1>2 DEF Nested, Last
<1>4. f \in Frame /\ f.kind = "sort"
  BY DEF Frame, SortFrame
<1>5. QED
  BY <1>1, <1>2, <1>3, <1>4, PushedFrame
-----------------------------------------------------------------------------
(* Sorting: one step                                                       *)

LEMMA FoundValues ==
  ASSUME NEW v \in StackValues
  PROVE  /\ v.t \in {"number", "context"} /\ v.v \in Int
         /\ v.t = "number" => v.v \in Numbers
  BY SortingAssumption DEF StackValues, Number, Object

LEMMA OrderedPlain ==
  ASSUME NEW u \in StackValues, NEW w \in StackValues,
         ~(u.t = "context" /\ w.t = "context"), NEW answer,
         answer = IF u.t = w.t THEN compareNums(u.v, w.v) ELSE compareTypes(u.t, w.t)
  PROVE  /\ answer \in Int
         /\ answer <= 0 => InPlace(u, w)
         /\ answer >= 0 => InPlace(w, u)
  BY FoundValues DEF compareNums, compareTypes, InPlace, IsObject

\* An answer that is right about the values adds to what the sort f knows.
LEMMA AnswerKnown ==
  ASSUME NEW f \in SortFrame, Knows(f), NEW answer \in Int,
         NEW a \in 1 .. f.size, NEW b \in 1 .. f.size,
         f.same => /\ answer <= 0 => InPlace(f.initial[a], f.initial[b])
                   /\ answer >= 0 => InPlace(f.initial[b], f.initial[a])
  PROVE  /\ Answered(f, a, b, answer) \in SortFrame /\ Knows(Answered(f, a, b, answer))
         /\ Answered(f, a, b, answer).size = f.size
         /\ Answered(f, a, b, answer).failed = f.failed
<1> DEFINE new == (IF answer <= 0 THEN {<<a, b>>} ELSE {})
                    \cup (IF answer >= 0 THEN {<<b, a>>} ELSE {})
           g == [f EXCEPT !.le = @ \cup new]
<1>1. new \in SUBSET (Nat \X Nat)
  BY DEF SortFrame
<1>2. g = Answered(f, a, b, answer)
  BY DEF Answered, SortFrame
<1>3. \A pair \in new : /\ pair[1] \in 1 .. f.size /\ pair[2] \in 1 .. f.size
                        /\ f.same => InPlace(f.initial[pair[1]], f.initial[pair[2]])
  OBVIOUS
<1> HIDE DEF new
<1>4. g \in SortFrame /\ g.size = f.size /\ g.failed = f.failed /\ g.same = f.same
        /\ g.initial = f.initial /\ g.le = f.le \cup new
  BY <1>1 DEF SortFrame
<1>5. Knows(g)
  BY <1>3, <1>4 DEF Knows
<1>6. QED
  BY <1>2, <1>4, <1>5

LEMMA SeenKnown ==
  ASSUME Nested(frames), Inner.kind = "sort", stack \in Seq(StackValues)
  PROVE  /\ Inner \in SortFrame /\ Knows(Inner)
         /\ Seen \in SortFrame /\ Knows(Seen)
         /\ Seen.size = Inner.size /\ Seen.failed = Inner.failed
         /\ Seen.same => Seen.initial = stack
<1>1. Inner \in SortFrame /\ Knows(Inner)
  BY FrameKinds DEF Nested, Inner
<1>2. CASE stack = Inner.initial
  BY <1>1, <1>2 DEF Seen
<1>3. CASE stack # Inner.initial
  <2>1. Seen = [Inner EXCEPT !.same = FALSE, !.initial = <<>>]
    BY <1>3 DEF Seen
  <2> DEFINE f == Inner
  <2>2. f \in SortFrame
    BY <1>1
  <2>3. <<>> \in Seq(StackValues)
    OBVIOUS
  <2> HIDE DEF f
  <2>4. LET g == [f EXCEPT !.same = FALSE, !.initial = <<>>]
        IN g \in SortFrame /\ ~g.same /\ g.size = f.size /\ g.failed = f.failed
    BY <2>2, <2>3 DEF SortFrame
  <2>5. QED
    BY <1>1, <2>1, <2>4 DEF Knows, f
<1>4. QED
  BY <1>2, <1>3

\* The invariant: a sort is on top exactly when qsort is asked, and unless a
\* comparison has cleared sort_vm the stack is as high as it was.
SortInvariant ==
  /\ stack \in Seq(StackValues)
  /\ Nested(frames)
  /\ control \in Control /\ sort_vm \in BOOLEAN
  /\ control = "ask" <=> Inner.kind = "sort"
  /\ control = "ask" /\ sort_vm => ~Inner.failed /\ Len(stack) = Inner.size

LEMMA SortInit == SortingInit => SortInvariant
<1>1. ASSUME SortingInit
      PROVE  SortInvariant
  <2>1. stack \in Seq(StackValues)
    BY <1>1 DEF SortingInit, BoundedSeq, SeqOf
  <2>2. Nested(frames) /\ Inner.kind = "prompt"
    BY <1>1, NestedPrompt DEF SortingInit, Inner, Prompt
  <2>3. QED
    BY <1>1, <2>1, <2>2 DEF SortInvariant, SortingInit, Control
<1>2. QED
  BY <1>1

\* The frame that a step pushes on one that is not a sort.
LEMMA EnterKeeps ==
  ASSUME SortInvariant, control = "run", NEW f \in Frame,
         f.kind \in {"call", "catch", "sort"}, f.kind = "sort" => Knows(f)
  PROVE  /\ Nested(Append(frames, f))
         /\ Append(frames, f)[Len(Append(frames, f))] = f
<1>1. Last(frames).kind # "sort"
  BY DEF SortInvariant, Inner, Last
<1>2. QED
  BY <1>1, PushedFrame DEF SortInvariant

\* What is below a frame that is neither the prompt nor a comparison is no sort.
LEMMA LeaveKeeps ==
  ASSUME SortInvariant, Inner.kind \notin {"prompt", "cmp"}
  PROVE  /\ Nested(Below) /\ Below[Len(Below)].kind # "sort"
         /\ Last(Below).kind # "sort"
<1>1. Len(frames) > 1 /\ Len(frames) \in Nat
  BY DEF SortInvariant, Nested, Inner
<1>2. /\ Nested(Below) /\ Len(Below) = Len(frames) - 1
      /\ \A j \in 1 .. Len(frames) - 1 : Below[j] = frames[j]
  BY <1>1, PoppedFrame DEF SortInvariant, Below
<1>3. frames[Len(frames) - 1].kind # "sort"
  BY <1>1 DEF SortInvariant, Nested, Inner
<1>4. QED
  BY <1>1, <1>2, <1>3 DEF Last

\* Below a comparison is the sort that waits for it.
LEMMA ComparisonKeeps ==
  ASSUME SortInvariant, Inner.kind = "cmp"
  PROVE  /\ Nested(Below) /\ Last(Below).kind = "sort" /\ Awaits(Last(Below), Inner)
         /\ Last(Below) \in SortFrame /\ Knows(Last(Below)) /\ Inner \in CmpFrame
<1>1. Len(frames) > 1 /\ Len(frames) \in Nat
  BY DEF SortInvariant, Nested, Inner
<1>2. /\ Nested(Below) /\ Len(Below) = Len(frames) - 1
      /\ \A j \in 1 .. Len(frames) - 1 : Below[j] = frames[j]
  BY <1>1, PoppedFrame DEF SortInvariant, Below
<1>3. Last(Below) = frames[Len(frames) - 1] /\ Len(Below) >= 1
  BY <1>1, <1>2 DEF Last
<1>4. Awaits(Last(Below), Inner)
  BY <1>1, <1>3 DEF SortInvariant, Nested, Inner
<1>5. Last(Below) \in Frame /\ Last(Below).kind = "sort" /\ Knows(Last(Below))
  BY <1>1, <1>2, <1>3, <1>4 DEF Nested, Last, Awaits
<1>6. Inner \in Frame
  BY <1>1 DEF SortInvariant, Nested, Inner
<1>7. QED
  BY <1>2, <1>4, <1>5, <1>6, FrameKinds

LEMMA StackKeeps ==
  ASSUME stack \in Seq(StackValues)
  PROVE  /\ Len(stack) \in Nat
         /\ \A v \in StackValues : /\ Append(stack, v) \in Seq(StackValues)
                                   /\ Len(Append(stack, v)) = Len(stack) + 1
         /\ stack # <<>> => /\ Front(stack) \in Seq(StackValues) /\ Len(stack) > 0
                            /\ Len(Front(stack)) = Len(stack) - 1
                            /\ Last(stack) \in StackValues
<1>1. ASSUME stack # <<>>
      PROVE  /\ Front(stack) \in Seq(StackValues) /\ Len(stack) > 0
             /\ Len(Front(stack)) = Len(stack) - 1
             /\ Last(stack) \in StackValues
  BY <1>1, FrontTyped, EmptySeq DEF Front, Last
<1>2. QED
  BY <1>1

\* A comparison has failed, on top of the sort f.
LEMMA ComparisonFailsKeeps ==
  ASSUME SortInvariant, stack' \in Seq(StackValues), NEW outer, NEW f, ComparisonFails(outer, f),
         Nested(Append(outer, f)), NEW fs, Nested(fs), Last(fs).kind = "sort",
         outer = Front(fs), f = Last(fs)
  PROVE  SortInvariant'
<1> DEFINE g == [f EXCEPT !.failed = TRUE]
<1>1. f \in SortFrame /\ Knows(f)
  BY FrameKinds DEF Nested, Last
<1>2. g \in SortFrame /\ g.kind = "sort" /\ Knows(g)
  BY <1>1 DEF SortFrame, Knows
<1> HIDE DEF g
<1>3. /\ Nested(Append(outer, g)) /\ Len(Append(outer, g)) = Len(fs)
      /\ Append(outer, g)[Len(fs)] = g
  BY <1>2, ReplacedFrame
<1>4. frames' = Append(outer, g) /\ control' = "ask" /\ sort_vm' = FALSE
  BY DEF ComparisonFails, g
<1>5. Nested(frames)' /\ Inner'.kind = "sort"
  BY <1>2, <1>3, <1>4 DEF Nested, Inner
<1>6. QED
  BY <1>4, <1>5 DEF SortInvariant, Control

LEMMA QuestionKeeps ==
  ASSUME SortInvariant, NEW a \in 1 .. Inner.size, NEW b \in 1 .. Inner.size,
         ComparePlain(a, b) \/ CompareObjects(a, b) \/ CompareUnbound(a, b)
  PROVE  SortInvariant'
<1>1. /\ sort_vm /\ control = "ask" /\ Inner.kind = "sort" /\ ~Inner.failed
      /\ Len(stack) = Inner.size /\ stack \in Seq(StackValues) /\ Nested(frames)
  BY DEF ComparePlain, CompareObjects, CompareUnbound, Question, SortInvariant
<1>2. /\ Inner \in SortFrame /\ Knows(Inner)
      /\ Seen \in SortFrame /\ Knows(Seen)
      /\ Seen.size = Inner.size /\ Seen.failed = Inner.failed
      /\ Seen.same => Seen.initial = stack
  BY <1>1, SeenKnown
<1>3. /\ a \in 1 .. Seen.size /\ b \in 1 .. Seen.size
      /\ stack[a] \in StackValues /\ stack[b] \in StackValues
  BY <1>1, <1>2
<1>4. Last(frames) = Inner /\ Len(frames) \in Nat /\ Len(frames) > 1
  BY <1>1 DEF Inner, Last, Nested
<1>5. CASE ComparePlain(a, b)
  <2> DEFINE answer == IF stack[a].t = stack[b].t THEN compareNums(stack[a].v, stack[b].v)
                       ELSE compareTypes(stack[a].t, stack[b].t)
             g == Answered(Seen, a, b, answer)
  <2>1. ~(stack[a].t = "context" /\ stack[b].t = "context") /\ frames' = Append(Below, g)
          /\ UNCHANGED <<stack, control, sort_vm>>
    BY <1>5 DEF ComparePlain, Objects2
  <2>2. /\ answer \in Int
        /\ answer <= 0 => InPlace(stack[a], stack[b])
        /\ answer >= 0 => InPlace(stack[b], stack[a])
    BY <1>3, <2>1, OrderedPlain
  <2> HIDE DEF answer
  <2>3. g \in SortFrame /\ Knows(g) /\ g.size = Seen.size /\ g.failed = Seen.failed
    BY <1>2, <1>3, <2>2, AnswerKnown
  <2> HIDE DEF g
  <2>4. /\ Nested(frames)' /\ Inner' = g
    BY <1>1, <1>4, <2>1, <2>3, ReplacedFrame DEF Below, Inner, Nested
  <2>5. g.kind = "sort"
    BY <2>3 DEF SortFrame
  <2>6. QED
    BY <1>1, <1>2, <2>1, <2>3, <2>4, <2>5 DEF SortInvariant, Control
<1>6. CASE CompareObjects(a, b)
  <2> DEFINE fs == Append(Below, Seen)
             c == Comparing(a, b, Len(stack))
  <2>1. /\ stack[a].t = "context" /\ stack[b].t = "context" /\ frames' = Append(fs, c)
        /\ stack' = Append(stack, stack[b]) /\ control' = "run" /\ sort_vm' = sort_vm
    BY <1>6 DEF CompareObjects, Objects2
  <2>2. /\ Nested(fs) /\ Len(fs) = Len(frames) /\ Last(fs) = Seen
    BY <1>1, <1>2, <1>4, ReplacedFrame DEF Below, Last
  <2>3. c \in Frame /\ c.kind = "cmp" /\ c.a = a /\ c.b = b /\ c.oldStk = Len(stack)
    BY <1>1, <1>2 DEF Comparing, Frame, CmpFrame, SortFrame
  <2> HIDE DEF c, fs
  <2>4. Seen.kind = "sort"
    BY <1>2 DEF SortFrame
  <2>5. Awaits(Last(fs), c)
    BY <1>1, <1>2, <1>3, <2>1, <2>2, <2>3, <2>4 DEF Awaits, IsObject
  <2>6. Nested(frames)' /\ Inner' = c
    BY <2>1, <2>2, <2>3, <2>5, PushedFrame DEF Inner
  <2>7. stack' \in Seq(StackValues)
    BY <1>1, <1>3, <2>1
  <2>8. QED
    BY <1>1, <2>1, <2>3, <2>6, <2>7 DEF SortInvariant, Control
<1>7. CASE CompareUnbound(a, b)
  <2>1. ComparisonFails(Below, Inner) /\ stack' = stack
    BY <1>7 DEF CompareUnbound
  <2>2. Nested(Append(Below, Inner)) /\ Below = Front(frames) /\ Inner = Last(frames)
    BY <1>1, <1>2, <1>4, ReplacedFrame DEF Below
  <2>3. QED
    BY <1>1, <1>4, <2>1, <2>2, ComparisonFailsKeeps
<1>8. QED
  BY <1>5, <1>6, <1>7

LEMMA CmpKeeps ==
  ASSUME SortInvariant, CmpReturns \/ CmpInvalid \/ CmpFails
  PROVE  SortInvariant'
<1>1. Inner.kind = "cmp"
  BY DEF CmpReturns, CmpInvalid, CmpFails
<1>2. /\ Nested(Below) /\ Last(Below).kind = "sort" /\ Awaits(Last(Below), Inner)
      /\ Last(Below) \in SortFrame /\ Knows(Last(Below)) /\ Inner \in CmpFrame
  BY <1>1, ComparisonKeeps
<1>3. Nested(Append(Front(Below), Last(Below)))
  BY <1>2, ReplacedFrame
<1>4. CASE CmpReturns
  <2> DEFINE answer == compareNums(Last(stack).v, 0)
             g == Answered(Last(Below), Inner.a, Inner.b, answer)
  <2>1. /\ Len(stack) = Inner.oldStk + 1 /\ stack' = Front(stack)
        /\ frames' = Append(Front(Below), g)
        /\ control' = "ask" /\ sort_vm' = sort_vm
    BY <1>4 DEF CmpReturns
  <2>2. answer \in Int
    BY DEF compareNums
  <2>3. \A u, w : IsObject(u) /\ IsObject(w) => InPlace(u, w)
    BY DEF InPlace
  <2> HIDE DEF answer
  <2>4. g \in SortFrame /\ Knows(g) /\ g.size = Last(Below).size
          /\ g.failed = Last(Below).failed
    BY <1>2, <2>2, <2>3, AnswerKnown DEF Awaits
  <2> HIDE DEF g
  <2>5. g.kind = "sort" /\ Nested(frames)' /\ Inner' = g
    <3>1. g.kind = "sort"
      BY <2>4 DEF SortFrame
    <3>2. /\ Nested(Append(Front(Below), g)) /\ Len(Append(Front(Below), g)) = Len(Below)
          /\ Append(Front(Below), g)[Len(Below)] = g
      BY <1>2, <2>4, ReplacedFrame
    <3>3. QED
      BY <2>1, <3>1, <3>2 DEF Inner
  <2>6. Inner.oldStk = Last(Below).size /\ ~Last(Below).failed /\ Inner.oldStk \in Nat
    BY <1>2 DEF Awaits, CmpFrame
  <2>7. stack # <<>>
    BY <2>1, <2>6 DEF SortInvariant
  <2>8. stack' \in Seq(StackValues) /\ Len(stack') = Inner.oldStk
    BY <2>1, <2>6, <2>7, StackKeeps DEF SortInvariant
  <2>9. QED
    BY <2>1, <2>4, <2>5, <2>6, <2>8 DEF SortInvariant, Control
<1>5. CASE CmpInvalid
  <2>1. ComparisonFails(Front(Below), Last(Below))
    BY <1>5 DEF CmpInvalid
  <2>2. Inner.oldStk \in Nat
    BY <1>2 DEF CmpFrame
  <2>3. stack' = stack \/ (stack' = Front(stack) /\ stack # <<>>)
    BY <1>5, <2>2 DEF CmpInvalid, SortInvariant
  <2>4. stack' \in Seq(StackValues)
    BY <2>3, StackKeeps DEF SortInvariant
  <2>5. QED
    BY <1>2, <1>3, <2>1, <2>4, ComparisonFailsKeeps
<1>6. CASE CmpFails
  <2>1. ComparisonFails(Front(Below), Last(Below)) /\ stack' = stack
    BY <1>6 DEF CmpFails
  <2>2. stack' \in Seq(StackValues)
    BY <2>1 DEF SortInvariant
  <2>3. QED
    BY <1>2, <1>3, <2>1, <2>2, ComparisonFailsKeeps
<1>7. QED
  BY <1>4, <1>5, <1>6

LEMMA SortEnds ==
  ASSUME SortInvariant, NEW indices \in Orders(Inner.size), SortReturns(indices)
  PROVE  SortInvariant'
<1>1. /\ control = "ask" /\ sort_vm /\ frames' = Below /\ control' = "run"
      /\ stack' = [k \in DOMAIN indices |-> stack[indices[k]]] /\ sort_vm' = sort_vm
  BY DEF SortReturns, Rearranged
<1>2. Len(stack) = Inner.size /\ Inner.kind = "sort" /\ stack \in Seq(StackValues)
  BY <1>1 DEF SortInvariant
<1>3. indices \in [1 .. Inner.size -> 1 .. Inner.size]
  BY DEF Orders
<1>4. Nested(Below) /\ Below[Len(Below)].kind # "sort"
  BY <1>2, LeaveKeeps
<1>5. Inner.size \in Nat /\ \A k \in 1 .. Inner.size : stack[indices[k]] \in StackValues
  BY <1>2, <1>3
<1>6. stack' \in Seq(StackValues)
  <2>1. PICK n \in Nat : n = Inner.size
    BY <1>5
  <2>2. [k \in 1 .. n |-> stack[indices[k]]] \in Seq(StackValues)
    BY <1>5, <2>1
  <2>3. DOMAIN indices = 1 .. n
    BY <1>3, <2>1
  <2>4. QED
    BY <1>1, <2>2, <2>3
<1>7. QED
  BY <1>1, <1>4, <1>6 DEF SortInvariant, Control, Inner

LEMMA SortNext == SortInvariant /\ SortingNext => SortInvariant'
<1> SUFFICES ASSUME SortInvariant, SortingNext
             PROVE  SortInvariant'
  OBVIOUS
<1>0. /\ Nested(frames) /\ stack \in Seq(StackValues)
      /\ (control = "ask" <=> Inner.kind = "sort")
  BY DEF SortInvariant
<1>1. ASSUME NEW n \in Answers, Push(Number(n))
      PROVE  SortInvariant'
  <2>1. Number(n) \in StackValues
    BY SortingAssumption DEF StackValues
  <2>2. QED
    BY <1>0, <1>1, <2>1 DEF Push, Running, SortInvariant, Inner
<1>2. CASE Pop
  BY <1>0, <1>2, StackKeeps DEF Pop, Running, SortInvariant, Inner
<1>3. CASE Return
  <2>1. Nested(Below) /\ Below[Len(Below)].kind # "sort"
    BY <1>3, LeaveKeeps DEF Return
  <2>2. QED
    BY <1>0, <1>3, <2>1 DEF Return, Running, SortInvariant, Inner
<1>4. ASSUME NEW p \in Places, RaiseAt(p) \/ ThrowAt(p)
      PROVE  SortInvariant'
  BY <1>0, <1>4 DEF RaiseAt, ThrowAt, Running, SortInvariant, Inner, Control
<1>5. ASSUME NEW p \in Places, StartSort(p)
      PROVE  SortInvariant'
  <2>1. /\ SortAt(p) \in Frame /\ SortAt(p).kind = "sort" /\ Knows(SortAt(p))
        /\ ~SortAt(p).failed /\ SortAt(p).size = Len(stack)
    BY <1>0 DEF SortAt, Frame, SortFrame, Knows
  <2>2. /\ Nested(Append(frames, SortAt(p)))
        /\ Append(frames, SortAt(p))[Len(Append(frames, SortAt(p)))] = SortAt(p)
    BY <1>5, <2>1, EnterKeeps DEF StartSort, Running
  <2>3. QED
    BY <1>0, <1>5, <2>1, <2>2 DEF StartSort, SortInvariant, Inner, Control
<1>6. ASSUME NEW f \in Frame, f.kind \in {"call", "catch"}, Enter(f)
      PROVE  SortInvariant'
  <2>1. /\ Nested(Append(frames, f))
        /\ Append(frames, f)[Len(Append(frames, f))] = f
    BY <1>6, EnterKeeps DEF Enter, Running
  <2>2. QED
    BY <1>0, <1>6, <2>1 DEF Enter, Running, SortInvariant, Inner, Control
<1>7. CASE SortFails \/ CallFails
  <2>1. Inner.kind \in {"sort", "call"} /\ control \in {"ask", "fail"}
    BY <1>0, <1>7 DEF SortFails, CallFails
  <2>2. Nested(Below) /\ Below[Len(Below)].kind # "sort"
    BY <2>1, LeaveKeeps
  <2>3. frames' = Below /\ control' = "fail" /\ sort_vm' = sort_vm /\ stack' = stack
    BY <1>7 DEF SortFails, CallFails
  <2>4. QED
    BY <1>0, <2>2, <2>3 DEF SortInvariant, Inner, Control
<1>8. ASSUME NEW o \in Objects, Catch(o)
      PROVE  SortInvariant'
  <2> DEFINE f == CallAt(Inner.place)
  <2>1. Inner.kind = "catch" /\ stack' = Append(stack, Object(o))
          /\ frames' = Append(Below, f) /\ control' = "run" /\ sort_vm' = sort_vm
    BY <1>8 DEF Catch
  <2>2. Nested(Below) /\ Last(Below).kind # "sort"
    BY <2>1, LeaveKeeps
  <2>3. Inner \in Frame
    BY <1>0 DEF Nested, Inner
  <2>4. f \in Frame /\ f.kind = "call"
    BY <2>1, <2>3, FrameKinds DEF CallAt, Frame
  <2> HIDE DEF f
  <2>5. Nested(frames)' /\ Inner' = f
    BY <2>1, <2>2, <2>4, PushedFrame DEF Inner
  <2>6. stack' \in Seq(StackValues)
    BY <1>0, <2>1, StackKeeps DEF StackValues
  <2>7. QED
    BY <1>0, <2>1, <2>4, <2>5, <2>6 DEF SortInvariant, Control
<1>9. CASE PromptFails
  BY <1>0, <1>9 DEF PromptFails, SortInvariant, Inner, Control
<1>10. ASSUME NEW p \in Places, Enter(CallAt(p))
       PROVE  SortInvariant'
  <2>1. CallAt(p) \in Frame /\ CallAt(p).kind = "call"
    BY DEF CallAt, Frame
  <2>2. QED
    BY <1>6, <1>10, <2>1
<1>11. ASSUME NEW p \in Quiet, Enter(CatchAt(p))
       PROVE  SortInvariant'
  <2>1. CatchAt(p) \in Frame /\ CatchAt(p).kind = "catch"
    BY DEF CatchAt, Frame
  <2>2. QED
    BY <1>6, <1>11, <2>1
<1>12. QED
  BY <1>1, <1>2, <1>3, <1>4, <1>5, <1>7, <1>8, <1>9, <1>10, <1>11, QuestionKeeps, SortEnds, CmpKeeps
     DEF SortingNext

\* SortReadsInRange: whatever the `_cmp` closures do, every index that qsort
\* asks about, and every one the answer is read from, is that of a value on the
\* stack (builtin.c:703-730, vm.c:540-560).
THEOREM SortReadsStack == Spec => []SortReadsInRange
<1>1. Init => SortInvariant
  BY SortInit DEF Init
<1>2. SortInvariant /\ [Next]_vars => SortInvariant'
  <2> SUFFICES ASSUME SortInvariant, [Next]_vars
               PROVE  SortInvariant'
    OBVIOUS
  <2>1. CASE part = "sorting" /\ SortingNext
    BY <2>1, SortNext
  <2>2. CASE UNCHANGED svars
    BY <2>2 DEF svars, SortInvariant, Inner
  <2>3. QED
    BY <2>1, <2>2 DEF Next, vars
<1>3. SortInvariant => SortReadsInRange
  BY DEF SortInvariant, SortReadsInRange
<1>4. QED
  BY <1>1, <1>2, <1>3, PTL DEF Spec

LEMMA OrderBijective ==
  ASSUME NEW n \in Nat, NEW p \in Orders(n)
  PROVE  /\ p \in [1 .. n -> 1 .. n]
         /\ \A i, k \in 1 .. n : p[i] = p[k] => i = k
         /\ \A i \in 1 .. n : \E k \in 1 .. n : p[k] = i
<1>1. p \in Surjection(1 .. n, 1 .. n)
  BY DEF Orders, Surjection
<1>2. IsFiniteSet(1 .. n)
  BY FS_Interval
<1>3. p \in Injection(1 .. n, 1 .. n)
  BY <1>1, <1>2, FS_SurjSameCardinalityImpliesInj
<1>4. QED
  BY <1>1, <1>3 DEF Orders, Injection, IsInjective

\* Where v is among the first n of vs.
Where(n, vs, v) == {k \in 1 .. n : vs[k] = v}

\* Each value is in a rearranged sequence as often as before.
LEMMA CountsKept ==
  ASSUME NEW n \in Nat, NEW vs, NEW p \in Orders(n), NEW v
  PROVE  Cardinality(Where(n, Rearranged(p, vs), v)) = Cardinality(Where(n, vs, v))
<1> DEFINE S == Where(n, Rearranged(p, vs), v)
           T == Where(n, vs, v)
<1>0. /\ S \in SUBSET (1 .. n) /\ \A k \in 1 .. n : k \in S <=> vs[p[k]] = v
      /\ T \in SUBSET (1 .. n) /\ \A k \in 1 .. n : k \in T <=> vs[k] = v
  BY OrderBijective DEF Where, Rearranged
<1> HIDE DEF S, T
<1> DEFINE f == [k \in S |-> p[k]]
<1>1. /\ p \in [1 .. n -> 1 .. n]
      /\ \A i, k \in 1 .. n : p[i] = p[k] => i = k
      /\ \A i \in 1 .. n : \E k \in 1 .. n : p[k] = i
  BY OrderBijective
<1>2. f \in [S -> T] /\ \A i, k \in S : f[i] = f[k] => i = k
  BY <1>0, <1>1
<1>3. \A i \in T : \E k \in S : f[k] = i
  <2> SUFFICES ASSUME NEW i \in T
               PROVE  \E k \in S : p[k] = i
    OBVIOUS
  <2>1. PICK k \in 1 .. n : p[k] = i
    BY <1>0, <1>1
  <2>2. k \in S
    BY <1>0, <2>1
  <2>3. QED
    BY <2>1, <2>2
<1> HIDE DEF f
<1>4. f \in Bijection(S, T)
  BY <1>2, <1>3 DEF Bijection, Injection, Surjection, IsInjective
<1>5. IsFiniteSet(S)
  <2>1. IsFiniteSet(1 .. n)
    BY FS_Interval
  <2>2. QED
    BY <1>0, <2>1, FS_Subset
<1>6. QED
  BY <1>4, <1>5, FS_Bijection DEF ExistsBijection, S, T

\* The step SortOrders is about.
SortDone == /\ control = "ask" /\ frames' = Below /\ control' = "run"
            /\ Inner.same /\ stack = Inner.initial

LEMMA OnlyReturnEnds ==
  ASSUME SortInvariant, SortingNext, SortDone
  PROVE  \E indices \in Orders(Inner.size) : SortReturns(indices)
<1>1. /\ control = "ask" /\ control' = "run" /\ frames' = Below /\ Inner.kind = "sort"
      /\ Nested(frames)
  BY DEF SortInvariant, SortDone
<1>2. ASSUME NEW a, NEW b, CompareObjects(a, b)
      PROVE  FALSE
  <2>1. Inner \in SortFrame /\ Knows(Inner) /\ Seen \in SortFrame /\ Knows(Seen)
    BY <1>1, SeenKnown DEF SortInvariant
  <2>2. frames' = Append(Append(Below, Seen), Comparing(a, b, Len(stack)))
    BY <1>2 DEF CompareObjects
  <2>3. /\ Append(Below, Seen) \in Seq(Frame) /\ Len(Append(Below, Seen)) = Len(frames)
        /\ Len(frames) \in Nat /\ Len(frames) > 1
    BY <1>1, <2>1, ReplacedFrame DEF Nested, Inner, Last, Below
  <2>4. Len(frames') = Len(frames) + 1
    BY <2>2, <2>3
  <2>5. Len(Below) = Len(frames) - 1
    BY <1>1, <2>3, PoppedFrame DEF Below
  <2>6. QED
    BY <1>1, <2>3, <2>4, <2>5
<1>3. \A a, b : ~ComparePlain(a, b) /\ ~CompareUnbound(a, b)
  BY <1>1 DEF ComparePlain, CompareUnbound, ComparisonFails
<1>4. /\ ~CmpReturns /\ ~CmpInvalid /\ ~CmpFails /\ ~SortFails /\ ~CallFails /\ ~PromptFails
      /\ ~Pop /\ ~Return
      /\ \A o : ~Catch(o) /\ ~Push(o) /\ ~Enter(o) /\ ~RaiseAt(o) /\ ~ThrowAt(o) /\ ~StartSort(o)
  BY <1>1 DEF CmpReturns, CmpInvalid, CmpFails, SortFails, CallFails, PromptFails, Pop, Return,
              Catch, Push, Enter, RaiseAt, ThrowAt, StartSort, Running
<1>5. QED
  BY <1>2, <1>3, <1>4 DEF SortingNext

LEMMA ReturnOrders ==
  ASSUME SortInvariant, SortDone, NEW indices \in Orders(Inner.size), SortReturns(indices)
  PROVE  /\ \A v \in StackValues :
              Cardinality({k \in DOMAIN stack : stack[k] = v}) =
                Cardinality({k \in DOMAIN stack' : stack'[k] = v})
         /\ \A k \in 1 .. Len(stack') - 1 :
              LET u == stack'[k]
                  w == stack'[k + 1]
              IN \/ u.t = "number" /\ (w.t = "number" => u.v <= w.v)
                 \/ /\ u.t = "context" /\ w.t = "context"
                    /\ \E pair \in Inner.le : stack[pair[1]] = u /\ stack[pair[2]] = w
<1>1. /\ control = "ask" /\ sort_vm /\ InOrder(indices, Inner)
      /\ stack' = [k \in DOMAIN indices |-> stack[indices[k]]]
  BY DEF SortReturns, Rearranged
<1>2. /\ Len(stack) = Inner.size /\ stack \in Seq(StackValues) /\ Knows(Inner)
      /\ Inner.same /\ stack = Inner.initial
  BY <1>1, SeenKnown DEF SortInvariant, SortDone
<1>3. PICK n \in Nat : n = Len(stack) /\ n = Inner.size /\ DOMAIN stack = 1 .. n
  BY <1>2, LenProperties
<1>4. indices \in [1 .. n -> 1 .. n]
  BY <1>3, OrderBijective
<1>5. /\ stack' = [k \in 1 .. n |-> stack[indices[k]]] /\ DOMAIN stack' = 1 .. n
      /\ stack' \in Seq(StackValues) /\ Len(stack') = n
  <2>1. \A k \in 1 .. n : stack[indices[k]] \in StackValues
    BY <1>2, <1>3, <1>4, ElementOfSeq
  <2>2. DOMAIN indices = 1 .. n
    BY <1>4
  <2>3. [k \in 1 .. n |-> stack[indices[k]]] \in Seq(StackValues)
    BY <2>1
  <2>4. QED
    BY <1>1, <2>2, <2>3
<1>6. ASSUME NEW v \in StackValues
      PROVE  Cardinality({k \in DOMAIN stack : stack[k] = v}) =
               Cardinality({k \in DOMAIN stack' : stack'[k] = v})
  <2>1. Cardinality(Where(n, Rearranged(indices, stack), v)) = Cardinality(Where(n, stack, v))
    BY <1>3, CountsKept
  <2>2. stack' = Rearranged(indices, stack)
    BY DEF SortReturns
  <2>3. QED
    BY <1>3, <1>5, <2>1, <2>2 DEF Where
<1>7. ASSUME NEW k \in 1 .. Len(stack') - 1
      PROVE  LET u == stack'[k]
                 w == stack'[k + 1]
             IN \/ u.t = "number" /\ (w.t = "number" => u.v <= w.v)
                \/ /\ u.t = "context" /\ w.t = "context"
                   /\ \E pair \in Inner.le : stack[pair[1]] = u /\ stack[pair[2]] = w
  <2>1. /\ k \in 1 .. n - 1 /\ k \in 1 .. n /\ k + 1 \in 1 .. n
    BY <1>5
  <2>2. stack'[k] = stack[indices[k]] /\ stack'[k + 1] = stack[indices[k + 1]]
    BY <1>5, <2>1
  <2>3. <<indices[k], indices[k + 1]>> \in Inner.le
    BY <1>1, <1>3, <2>1 DEF InOrder
  <2>4. InPlace(stack[indices[k]], stack[indices[k + 1]])
    BY <1>2, <2>3 DEF Knows
  <2>5. QED
    BY <2>2, <2>3, <2>4 DEF InPlace, IsObject
<1>8. QED
  BY <1>6, <1>7

\* SortOrders: sort leaves exactly the values it was called for, in the order
\* that the comparisons gave (builtin.c:703-730), provided each comparison saw
\* those values.
THEOREM SortSorts == Spec => SortOrders
<1>1. Init => SortInvariant
  BY SortInit DEF Init
<1>2. SortInvariant /\ [Next]_vars => SortInvariant'
  <2> SUFFICES ASSUME SortInvariant, [Next]_vars
               PROVE  SortInvariant'
    OBVIOUS
  <2>1. CASE part = "sorting" /\ SortingNext
    BY <2>1, SortNext
  <2>2. CASE UNCHANGED svars
    BY <2>2 DEF svars, SortInvariant, Inner
  <2>3. QED
    BY <2>1, <2>2 DEF Next, vars
<1> DEFINE Right == /\ \A v \in StackValues :
                         Cardinality({k \in DOMAIN stack : stack[k] = v}) =
                           Cardinality({k \in DOMAIN stack' : stack'[k] = v})
                    /\ \A k \in 1 .. Len(stack') - 1 :
                         LET u == stack'[k]
                             w == stack'[k + 1]
                         IN \/ u.t = "number" /\ (w.t = "number" => u.v <= w.v)
                            \/ /\ u.t = "context" /\ w.t = "context"
                               /\ \E pair \in Inner.le : stack[pair[1]] = u /\ stack[pair[2]] = w
<1>3. SortInvariant /\ [Next]_vars => [SortDone => Right]_svars
  <2>1. ASSUME SortInvariant, SortingNext, SortDone
        PROVE  Right
    BY <2>1, OnlyReturnEnds, ReturnOrders
  <2>2. [Next]_vars => SortingNext \/ UNCHANGED svars
    BY DEF Next, vars
  <2>3. QED
    BY <2>1, <2>2
<1>4. QED
  BY <1>1, <1>2, <1>3, PTL DEF Spec, SortOrders, SortDone
-----------------------------------------------------------------------------
(* Traces                                                                  *)

Entry == Places \cup Quiet \cup {"sort", "throw"}
Stops(f) == f.kind \in {"catch", "prompt"}

\* The calls out of each frame of fs.
IsChain(fs, c) ==
  /\ c \in [0 .. Len(fs) -> Seq(Entry)]
  /\ c[0] = <<>>
  /\ \A j \in 1 .. Len(fs) :
       c[j] = Entries(fs[j]) \o (IF Stops(fs[j]) THEN <<>> ELSE c[j - 1])

LEMMA EntriesTyped ==
  ASSUME NEW f \in Frame
  PROVE  Entries(f) \in Seq(Entry)
<1>1. f.kind \in {"call", "catch", "sort"} => f.place \in Entry
  BY FrameKinds DEF Entry, SortFrame
<1>2. "sort" \in Entry
  BY DEF Entry
<1>3. (IF f.kind = "sort" THEN <<"sort">> ELSE <<>>) \in Seq(Entry)
  BY <1>2
<1>4. (IF f.kind \in {"call", "catch", "sort"} /\ f.place \notin Quiet
        THEN <<f.place>> ELSE <<>>) \in Seq(Entry)
  BY <1>1
<1>5. QED
  BY <1>3, <1>4, ConcatProperties DEF Entries

LEMMA ChainExists ==
  ASSUME NEW fs \in Seq(Frame)
  PROVE  \E c : IsChain(fs, c) /\ CallsToCatch(fs) = c[Len(fs)]
<1>1. PICK n \in Nat : n = Len(fs) /\ \A j \in 1 .. n : fs[j] \in Frame
  BY ElementOfSeq
<1> DEFINE S == 0 .. Len(fs)
           V == Seq(Entry)
           Out(j, rest) == IF j = 0 THEN <<>>
                           ELSE Entries(fs[j])
                                  \o (IF fs[j].kind \in {"catch", "prompt"} THEN <<>> ELSE rest)
           G == [g \in [S -> V] |-> [j \in S |->
                   IF j = 0 THEN <<>>
                   ELSE Entries(fs[j])
                          \o (IF fs[j].kind \in {"catch", "prompt"} THEN <<>> ELSE g[j - 1])]]
           m == [j \in S |-> j]
<1>2. \A j \in S : \A rest \in V : Out(j, rest) \in V
  <2> SUFFICES ASSUME NEW j \in S, NEW rest \in V
               PROVE  Out(j, rest) \in V
    OBVIOUS
  <2>1. CASE j = 0
    BY <2>1, EmptySeq
  <2>2. CASE j # 0
    <3>1. Entries(fs[j]) \in V
      BY <1>1, <2>2, EntriesTyped
    <3>2. QED
      BY <2>2, <3>1, ConcatProperties, EmptySeq
  <2>3. QED
    BY <2>1, <2>2
<1>3. Recursive(G, S, V, m)
  <2>1. m \in [S -> Nat]
    BY <1>1
  <2>2. ASSUME NEW g \in [S -> V]
        PROVE  G[g] \in [S -> V]
    <3>1. \A j \in S : j # 0 => g[j - 1] \in V
      BY <1>1, SMTT(20)
    <3>2. \A j \in S : G[g][j] = IF j = 0 THEN <<>> ELSE Out(j, g[j - 1])
      OBVIOUS
    <3>3. \A j \in S : G[g][j] \in V
      BY <1>2, <3>1, <3>2, EmptySeq
    <3>4. DOMAIN G[g] = S /\ G[g] = [j \in S |-> G[g][j]]
      OBVIOUS
    <3> HIDE DEF G
    <3>5. QED
      BY <3>3, <3>4
  <2>3. G \in [[S -> V] -> [S -> V]]
    BY <2>2
  <2>4. ASSUME NEW g \in [S -> V], NEW h \in [S -> V], NEW j \in S,
               \A i \in S : m[i] < m[j] => g[i] = h[i]
        PROVE  G[g][j] = G[h][j]
    <3>1. CASE j = 0
      BY <3>1
    <3>2. CASE j # 0
      <4>1. g[j - 1] = h[j - 1]
        BY <1>1, <2>4, <3>2
      <4>2. QED
        BY <3>2, <4>1
    <3>3. QED
      BY <3>1, <3>2
  <2> HIDE DEF G, m, S, V
  <2>5. QED
    BY <2>1, <2>3, <2>4 DEF Recursive
<1>4. \E f \in [S -> V] : f = G[f]
  <2>1. V # {}
    BY EmptySeq
  <2> HIDE DEF G, m, S, V
  <2>2. QED
    BY <1>3, <2>1, RecursionTheorem
<1>5. \E f : f = [j \in S |-> IF j = 0 THEN <<>>
                   ELSE Entries(fs[j])
                          \o (IF fs[j].kind \in {"catch", "prompt"} THEN <<>> ELSE f[j - 1])]
  BY <1>4
<1> DEFINE calls == CHOOSE f : f = [j \in S |-> IF j = 0 THEN <<>>
                   ELSE Entries(fs[j])
                          \o (IF fs[j].kind \in {"catch", "prompt"} THEN <<>> ELSE f[j - 1])]
<1>6. calls = [j \in S |-> IF j = 0 THEN <<>>
                   ELSE Entries(fs[j])
                          \o (IF fs[j].kind \in {"catch", "prompt"} THEN <<>> ELSE calls[j - 1])]
  BY <1>5
<1>7. CallsToCatch(fs) = calls[Len(fs)]
  BY DEF CallsToCatch
<1> HIDE DEF calls
<1>8. \A j \in S : calls[j] = Out(j, calls[j - 1])
  BY <1>6
<1>9. DOMAIN calls = S /\ calls = [j \in S |-> calls[j]]
  BY <1>6
<1>10. calls[0] = <<>>
  BY <1>1, <1>8
<1> DEFINE T == {k \in Nat : k \in S => calls[k] \in V}
<1>11. 0 \in T
  BY <1>10, EmptySeq
<1>12. ASSUME NEW k \in Nat, k \in T
       PROVE  k + 1 \in T
  <2> HIDE DEF Out
  <2>1. ASSUME k + 1 \in S
        PROVE  calls[k + 1] \in V
    <3>1. k \in S /\ (k + 1) - 1 = k
      BY <1>1, <2>1
    <3>2. calls[k] \in V
      BY <1>12, <3>1
    <3>3. calls[k + 1] = Out(k + 1, calls[k])
      BY <1>8, <2>1, <3>1
    <3>4. QED
      BY <1>2, <2>1, <3>2, <3>3
  <2>2. QED
    BY <2>1
<1>13. Nat \subseteq T
  <2> HIDE DEF T
  <2> QED BY <1>11, <1>12, SetInduction
<1>14. \A j \in S : calls[j] \in V
  BY <1>1, <1>13
<1>15. calls \in [S -> V]
  BY <1>9, <1>14
<1>16. IsChain(fs, calls)
  BY <1>1, <1>8, <1>10, <1>15 DEF IsChain, Stops
<1>17. QED
  BY <1>7, <1>16

\* Chains of frames that are alike are equal.
LEMMA ChainsAgree ==
  ASSUME NEW fs \in Seq(Frame), NEW gs \in Seq(Frame), NEW c, NEW d,
         IsChain(fs, c), IsChain(gs, d),
         NEW n \in Nat, n <= Len(fs), n <= Len(gs),
         \A j \in 1 .. n : Entries(fs[j]) = Entries(gs[j]) /\ Stops(fs[j]) = Stops(gs[j])
  PROVE  c[n] = d[n]
<1> DEFINE T == {k \in Nat : k <= n => c[k] = d[k]}
<1>1. 0 \in T
  BY DEF IsChain
<1>2. ASSUME NEW k \in Nat, k \in T
      PROVE  k + 1 \in T
  <2>1. ASSUME k + 1 <= n
        PROVE  c[k + 1] = d[k + 1]
    <3>1. k + 1 \in 1 .. n /\ k + 1 \in 1 .. Len(fs) /\ k + 1 \in 1 .. Len(gs)
            /\ (k + 1) - 1 = k
      BY <2>1
    <3>2. c[k] = d[k]
      BY <1>2, <2>1
    <3>3. c[k + 1] = Entries(fs[k + 1]) \o (IF Stops(fs[k + 1]) THEN <<>> ELSE c[k])
      BY <3>1 DEF IsChain
    <3>4. d[k + 1] = Entries(gs[k + 1]) \o (IF Stops(gs[k + 1]) THEN <<>> ELSE d[k])
      BY <3>1 DEF IsChain
    <3>5. QED
      BY <3>1, <3>2, <3>3, <3>4
  <2>2. QED
    BY <2>1
<1>3. Nat \subseteq T
  <2> HIDE DEF T
  <2> QED BY <1>1, <1>2, SetInduction
<1>4. QED
  BY <1>3

\* The calls out of the innermost frame, and out of the rest of the frames, gs.
LEMMA CallsOf ==
  ASSUME NEW fs \in Seq(Frame), NEW gs \in Seq(Frame),
         Len(gs) = Len(fs) - 1,
         \A j \in 1 .. Len(gs) : Entries(gs[j]) = Entries(fs[j]) /\ Stops(gs[j]) = Stops(fs[j])
  PROVE  /\ CallsToCatch(fs) \in Seq(Entry) /\ CallsToCatch(gs) \in Seq(Entry)
         /\ CallsToCatch(fs) = Entries(Last(fs)) \o (IF Stops(Last(fs)) THEN <<>>
                                                     ELSE CallsToCatch(gs))
<1>1. PICK n \in Nat : n = Len(gs) /\ n + 1 = Len(fs) /\ n + 1 \in 1 .. Len(fs) /\ (n + 1) - 1 = n
        /\ n \in 0 .. Len(fs) /\ n + 1 \in 0 .. Len(fs) /\ n \in 0 .. Len(gs)
  OBVIOUS
<1>2. PICK c : IsChain(fs, c) /\ CallsToCatch(fs) = c[Len(fs)]
  BY ChainExists
<1>3. PICK d : IsChain(gs, d) /\ CallsToCatch(gs) = d[Len(gs)]
  BY ChainExists
<1>4. c[n] = d[n]
  BY <1>1, <1>2, <1>3, ChainsAgree, SMTT(20)
<1>5. c[n + 1] = Entries(fs[n + 1]) \o (IF Stops(fs[n + 1]) THEN <<>> ELSE c[n])
  BY <1>1, <1>2 DEF IsChain
<1>6. c[n + 1] \in Seq(Entry) /\ d[n] \in Seq(Entry)
  BY <1>1, <1>2, <1>3 DEF IsChain
<1>7. QED
  BY <1>1, <1>2, <1>3, <1>4, <1>5, <1>6 DEF Last

LEMMA CallsLikewise ==
  ASSUME NEW fs \in Seq(Frame), NEW gs \in Seq(Frame),
         Len(gs) = Len(fs),
         \A j \in 1 .. Len(gs) : Entries(gs[j]) = Entries(fs[j]) /\ Stops(gs[j]) = Stops(fs[j])
  PROVE  CallsToCatch(fs) = CallsToCatch(gs)
<1>1. PICK n \in Nat : n = Len(gs) /\ n = Len(fs)
  OBVIOUS
<1>2. PICK c : IsChain(fs, c) /\ CallsToCatch(fs) = c[Len(fs)]
  BY ChainExists
<1>3. PICK d : IsChain(gs, d) /\ CallsToCatch(gs) = d[Len(gs)]
  BY ChainExists
<1>4. c[n] = d[n]
  BY <1>1, <1>2, <1>3, ChainsAgree
<1>5. QED
  BY <1>1, <1>2, <1>3, <1>4

\* A failure is on its way: a function returns false, or compare_values has put
\* one into sort_vm.
Failing == control = "fail" \/ (control = "ask" /\ ~sort_vm /\ Inner.failed)

\* What the trace has and what it will still get are the calls at the raise.
TraceInvariant ==
  /\ ex \in [trace : Seq(Entry), sourceHasTrace : BOOLEAN]
  /\ raised \in [count : Nat, calls : Seq(Entry)]
  /\ stray \in BOOLEAN
  /\ ex.trace # <<>> => ex.sourceHasTrace
  /\ control = "fail" => ex.trace # <<>>
  /\ Failing /\ ~stray => ex.trace \o CallsToCatch(frames) = raised.calls

LEMMA FailedAlike ==
  ASSUME NEW fs, Nested(fs), Last(fs).kind = "sort"
  PROVE  LET gs == Append(Front(fs), [Last(fs) EXCEPT !.failed = TRUE])
         IN gs \in Seq(Frame) /\ CallsToCatch(gs) = CallsToCatch(fs)
<1> DEFINE f == Last(fs)
           g == [f EXCEPT !.failed = TRUE]
<1>1. f \in SortFrame /\ Knows(f) /\ fs \in Seq(Frame) /\ Len(fs) \in Nat
  BY FrameKinds DEF Nested, Last
<1>2. g \in SortFrame /\ g.kind = f.kind /\ g.place = f.place /\ Knows(g)
  BY <1>1 DEF SortFrame, Knows
<1>3. Entries(g) = Entries(f) /\ Stops(g) = Stops(f)
  BY <1>2 DEF Entries, Stops
<1>4. Last(fs) = fs[Len(fs)]
  BY DEF Last
<1> HIDE DEF g
<1>5. /\ Nested(Append(Front(fs), g)) /\ Len(Append(Front(fs), g)) = Len(fs)
      /\ \A j \in 1 .. Len(fs) - 1 : Append(Front(fs), g)[j] = fs[j]
      /\ Append(Front(fs), g)[Len(fs)] = g
  BY <1>2, ReplacedFrame
<1> DEFINE gs == Append(Front(fs), g)
<1> HIDE DEF gs
<1>6. /\ gs \in Seq(Frame) /\ Len(gs) = Len(fs)
      /\ \A j \in 1 .. Len(fs) - 1 : gs[j] = fs[j]
      /\ gs[Len(fs)] = g
  BY <1>5 DEF Nested, gs
<1>7. \A j \in 1 .. Len(fs) : Entries(gs[j]) = Entries(fs[j]) /\ Stops(gs[j]) = Stops(fs[j])
  BY <1>1, <1>3, <1>4, <1>6
<1>8. CallsToCatch(fs) = CallsToCatch(gs)
  BY <1>1, <1>6, <1>7, CallsLikewise
<1>9. QED
  BY <1>6, <1>8 DEF gs, g

\* The calls out of the frame on top, and out of the rest.
LEMMA CallsOut ==
  ASSUME SortInvariant, Inner.kind # "prompt"
  PROVE  /\ CallsToCatch(frames) \in Seq(Entry) /\ CallsToCatch(Below) \in Seq(Entry)
         /\ CallsToCatch(frames) = Entries(Inner) \o (IF Stops(Inner) THEN <<>>
                                                      ELSE CallsToCatch(Below))
<1>1. frames \in Seq(Frame) /\ Len(frames) \in Nat /\ Len(frames) > 1 /\ Nested(frames)
  BY DEF SortInvariant, Nested, Inner
<1>2. /\ Below \in Seq(Frame) /\ Len(Below) = Len(frames) - 1
      /\ \A j \in 1 .. Len(Below) : Below[j] = frames[j]
  BY <1>1, PoppedFrame DEF Below, Nested
<1>3. \A j \in 1 .. Len(Below) : /\ Entries(Below[j]) = Entries(frames[j])
                                 /\ Stops(Below[j]) = Stops(frames[j])
  BY <1>2
<1>4. Last(frames) = Inner
  BY DEF Last, Inner
<1>5. QED
  BY <1>1, <1>2, <1>3, <1>4, CallsOf

LEMMA CallsTyped ==
  ASSUME SortInvariant
  PROVE  /\ CallsToCatch(frames) \in Seq(Entry)
         /\ Inner.kind = "prompt" => CallsToCatch(frames) = <<>>
<1>1. CASE Inner.kind # "prompt"
  BY <1>1, CallsOut
<1>2. CASE Inner.kind = "prompt"
  <2>1. frames \in Seq(Frame) /\ Len(frames) = 1 /\ Inner = Last(frames) /\ Inner \in Frame
    <3>1. Nested(frames)
      BY DEF SortInvariant
    <3>2. frames \in Seq(Frame) /\ Len(frames) \in 1 .. Len(frames)
      BY <3>1 DEF Nested
    <3>3. Len(frames) = 1
      BY <1>2, <3>1, <3>2 DEF Nested, Inner
    <3>4. QED
      BY <3>2, <3>3 DEF Inner, Last
  <2>2. <<>> \in Seq(Frame) /\ Len(<<>>) = Len(frames) - 1 /\ \A j \in 1 .. Len(<<>>) : FALSE
    BY <2>1
  <2>3. CallsToCatch(frames) \in Seq(Entry)
          /\ CallsToCatch(frames) = Entries(Inner) \o (IF Stops(Inner) THEN <<>> ELSE CallsToCatch(<<>>))
    BY <2>1, <2>2, CallsOf
  <2>4. Stops(Inner) /\ Entries(Inner) = <<>> \o <<>>
    BY <1>2 DEF Stops, Entries
  <2>5. <<>> \o <<>> = <<>>
    OBVIOUS
  <2>6. QED
    BY <2>3, <2>4, <2>5
<1>3. QED
  BY <1>1, <1>2

LEMMA RaiseStarts ==
  ASSUME SortInvariant, TraceInvariant, NEW trace \in Seq(Entry), Raise(trace),
         CallsToCatch(frames') = CallsToCatch(frames), control' = "fail" => trace # <<>>
  PROVE  TraceInvariant'
<1>1. /\ raised' = [count |-> raised.count + 1, calls |-> trace \o CallsToCatch(frames)]
      /\ ex' = [trace |-> trace, sourceHasTrace |-> trace # <<>>]
      /\ stray' = FALSE
  BY DEF Raise
<1>2. trace \o CallsToCatch(frames) \in Seq(Entry) /\ raised.count + 1 \in Nat
  BY CallsTyped, ConcatProperties DEF TraceInvariant
<1>3. /\ raised' \in [count : Nat, calls : Seq(Entry)]
      /\ ex' \in [trace : Seq(Entry), sourceHasTrace : BOOLEAN]
  BY <1>1, <1>2
<1>4. ex'.trace \o CallsToCatch(frames') = raised'.calls
  BY <1>1
<1>5. QED
  BY <1>1, <1>3, <1>4 DEF TraceInvariant

\* A step that raises nothing and after which no failure is on its way.
LEMMA NoFailure ==
  ASSUME TraceInvariant, UNCHANGED <<ex, raised, stray>>, control' # "fail", ~Failing'
  PROVE  TraceInvariant'
  BY DEF TraceInvariant

\* A step that passes the failure on without a word.
LEMMA FailurePasses ==
  ASSUME TraceInvariant, UNCHANGED <<ex, raised, stray>>, control = "fail",
         CallsToCatch(frames') = CallsToCatch(frames)
  PROVE  TraceInvariant'
  BY DEF TraceInvariant, Failing

\* What evalCall adds to a trace for a frame is what the frame has to add.
LEMMA UnwoundTrace ==
  ASSUME SortInvariant, TraceInvariant,
         Inner.kind = "sort" \/ (Inner.kind \in {"call", "catch"} /\ ex.trace # <<>>)
  PROVE  /\ Unwound(Inner) \in [trace : Seq(Entry), sourceHasTrace : BOOLEAN]
         /\ Unwound(Inner).trace = ex.trace \o Entries(Inner)
         /\ Unwound(Inner).trace # <<>> /\ Unwound(Inner).sourceHasTrace
<1>1. Inner \in Frame
  BY DEF SortInvariant, Nested, Inner
<1>2. Inner.place \in Places \cup Quiet /\ (Inner.kind = "sort" => Inner.place \in Places)
  BY <1>1, FrameKinds DEF SortFrame
<1> DEFINE p == Inner.place
           t == ex.trace
<1>3. /\ p \in Entry /\ t \in Seq(Entry) /\ "sort" \in Entry
      /\ ex \in [trace : Seq(Entry), sourceHasTrace : BOOLEAN]
      /\ t # <<>> => ex.sourceHasTrace
  BY <1>2 DEF Entry, TraceInvariant
<1>4. CASE Inner.kind = "sort"
  <2>1. p \notin Quiet
    BY <1>2, <1>4, SortingAssumption
  <2>2. Entries(Inner) = <<"sort">> \o <<p>>
    BY <1>4, <2>1 DEF Entries
  <2>3. Unwound(Inner) = [ex EXCEPT !.trace = Append(Append(t, "sort"), p),
                                    !.sourceHasTrace = @ \/ t = <<>>]
    BY <1>4, <2>1 DEF Unwound, traceNode, traceNative
  <2>4. /\ Append(t, "sort") = t \o <<"sort">> /\ t \o <<"sort">> \in Seq(Entry)
        /\ Append(t \o <<"sort">>, p) = (t \o <<"sort">>) \o <<p>>
        /\ (t \o <<"sort">>) \o <<p>> = t \o (<<"sort">> \o <<p>>)
    BY <1>3, AppendIsConcat, ConcatAssociative, AppendProperties
  <2>5. /\ Append(Append(t, "sort"), p) \in Seq(Entry)
        /\ Append(Append(t, "sort"), p) # <<>>
    BY <1>3, AppendProperties
  <2> HIDE DEF p, t
  <2>6. QED
    BY <1>3, <2>2, <2>3, <2>4, <2>5 DEF t
<1>5. CASE Inner.kind \in {"call", "catch"} /\ t # <<>>
  <2>1. Unwound(Inner).trace = traceNode(t, p)
    BY <1>3, <1>5 DEF Unwound
  <2>2. Unwound(Inner) \in [trace : {traceNode(t, p)}, sourceHasTrace : {ex.sourceHasTrace}]
    BY <1>3, <1>5 DEF Unwound
  <2>3. traceNode(t, p) \in Seq(Entry) /\ traceNode(t, p) # <<>>
    BY <1>3, <1>5, AppendProperties DEF traceNode
  <2>4. CASE p \in Quiet
    <3>1. Entries(Inner) = <<>> \o <<>> /\ traceNode(t, p) = t
      BY <1>5, <2>4 DEF Entries, traceNode
    <3>2. t \o (<<>> \o <<>>) = t
      BY <1>3
    <3>3. QED
      BY <1>3, <1>5, <2>1, <2>2, <2>3, <3>1, <3>2
  <2>5. CASE p \notin Quiet
    <3>1. Entries(Inner) = <<>> \o <<p>> /\ traceNode(t, p) = Append(t, p)
      BY <1>5, <2>5 DEF Entries, traceNode
    <3>2. <<>> \o <<p>> = <<p>> /\ Append(t, p) = t \o <<p>>
      BY <1>3, AppendIsConcat, ConcatEmptySeq
    <3>3. QED
      BY <1>3, <1>5, <2>1, <2>2, <2>3, <3>1, <3>2
  <2>6. QED
    BY <2>4, <2>5
<1>6. QED
  BY <1>4, <1>5

LEMMA ComparisonFailsAlike ==
  ASSUME NEW outer, NEW f, ComparisonFails(outer, f), NEW fs, Nested(fs),
         Last(fs).kind = "sort", outer = Front(fs), f = Last(fs)
  PROVE  CallsToCatch(frames') = CallsToCatch(fs) /\ control' = "ask"
  BY FailedAlike DEF ComparisonFails

LEMMA TraceNext == SortInvariant /\ TraceInvariant /\ SortingNext => TraceInvariant'
<1> SUFFICES ASSUME SortInvariant, TraceInvariant, SortingNext
             PROVE  TraceInvariant'
  OBVIOUS
<1>0. /\ Nested(frames) /\ stack \in Seq(StackValues) /\ SortInvariant'
      /\ (control = "ask" <=> Inner.kind = "sort")
      /\ (control' = "ask" <=> Inner'.kind = "sort")
      /\ (Failing' => control' = "fail" \/ (control' = "ask" /\ ~sort_vm' /\ Inner'.failed))
  BY SortNext DEF SortInvariant, Failing
<1>1. ASSUME NEW o, Push(o) \/ Pop \/ Return \/ Enter(o)
      PROVE  TraceInvariant'
  <2>1. control' = "run" /\ UNCHANGED <<ex, raised, stray>>
    BY <1>1 DEF Push, Pop, Return, Enter, Running
  <2>2. QED
    BY <1>0, <2>1, NoFailure
<1>2. ASSUME NEW p \in Places, RaiseAt(p)
      PROVE  TraceInvariant'
  <2>1. <<p>> \in Seq(Entry) /\ <<p>> # <<>> /\ Raise(<<p>>) /\ frames' = frames
    BY <1>2 DEF RaiseAt, Entry
  <2>2. QED
    BY <2>1, RaiseStarts
<1>3. ASSUME NEW p \in Places, ThrowAt(p)
      PROVE  TraceInvariant'
  <2> DEFINE t == traceNode(traceNative(<<>>, "throw"), p)
  <2>1. "throw" \in Entry /\ p \in Entry /\ p \notin Quiet
    BY SortingAssumption DEF Entry
  <2>2. t = Append(Append(<<>>, "throw"), p)
    BY <2>1 DEF traceNode, traceNative
  <2>3. t \in Seq(Entry) /\ t # <<>> /\ Raise(t) /\ frames' = frames
    <3>1. Raise(t) /\ frames' = frames
      BY <1>3 DEF ThrowAt
    <3>2. <<>> \in Seq(Entry) /\ Append(<<>>, "throw") \in Seq(Entry)
      BY <2>1, EmptySeq, AppendProperties
    <3>3. Append(Append(<<>>, "throw"), p) \in Seq(Entry)
            /\ Append(Append(<<>>, "throw"), p) # <<>>
      BY <2>1, <3>2, AppendProperties
    <3> HIDE DEF t
    <3>4. QED
      BY <2>2, <3>1, <3>3
  <2> HIDE DEF t
  <2>4. QED
    BY <2>3, RaiseStarts
<1>4. ASSUME NEW p \in Places, StartSort(p)
      PROVE  TraceInvariant'
  <2>1. control' = "ask" /\ sort_vm' = TRUE /\ UNCHANGED <<ex, raised, stray>>
    BY <1>4 DEF StartSort
  <2>2. QED
    BY <1>0, <2>1, NoFailure
<1>5. ASSUME NEW a, NEW b, ComparePlain(a, b)
      PROVE  TraceInvariant'
  <2>1. control' = "ask" /\ sort_vm' /\ UNCHANGED <<ex, raised, stray>>
    BY <1>5 DEF ComparePlain, Question
  <2>2. QED
    BY <1>0, <2>1, NoFailure
<1>6. ASSUME NEW a, NEW b, CompareObjects(a, b)
      PROVE  TraceInvariant'
  <2>1. control' = "run" /\ UNCHANGED <<ex, raised, stray>>
    BY <1>6 DEF CompareObjects
  <2>2. QED
    BY <1>0, <2>1, NoFailure
<1>7. ASSUME NEW a, NEW b, CompareUnbound(a, b)
      PROVE  TraceInvariant'
  <2>1. ComparisonFails(Below, Inner) /\ Raise(<<>>) /\ Inner.kind = "sort"
    BY <1>0, <1>7 DEF CompareUnbound, Question
  <2>2. Below = Front(frames) /\ Inner = Last(frames)
    BY DEF Below, Inner, Last
  <2>3. CallsToCatch(frames') = CallsToCatch(frames) /\ control' = "ask"
    BY <1>0, <2>1, <2>2, ComparisonFailsAlike
  <2>4. <<>> \in Seq(Entry)
    BY EmptySeq
  <2>5. QED
    BY <2>1, <2>3, <2>4, RaiseStarts
<1>8. ASSUME CmpReturns \/ CmpInvalid \/ CmpFails
      PROVE  TraceInvariant'
  <2>1. Inner.kind = "cmp"
    BY <1>8 DEF CmpReturns, CmpInvalid, CmpFails
  <2>2. /\ Nested(Below) /\ Last(Below).kind = "sort" /\ Awaits(Last(Below), Inner)
        /\ Last(Below) \in SortFrame /\ Knows(Last(Below))
    BY <2>1, ComparisonKeeps
  <2>3. CallsToCatch(frames) = CallsToCatch(Below)
    <3>1. Entries(Inner) = <<>> \o <<>> /\ ~Stops(Inner) /\ Inner.kind # "prompt"
      BY <2>1 DEF Entries, Stops
    <3>2. <<>> \o <<>> = <<>>
      OBVIOUS
    <3>3. CallsToCatch(Below) \in Seq(Entry)
            /\ CallsToCatch(frames) = <<>> \o CallsToCatch(Below)
      BY <3>1, <3>2, CallsOut
    <3>4. QED
      BY <3>3, ConcatEmptySeq
  <2>4. CASE CmpReturns
    <3> DEFINE answer == compareNums(Last(stack).v, 0)
               g == Answered(Last(Below), Inner.a, Inner.b, answer)
    <3>1. /\ frames' = Append(Front(Below), g) /\ control' = "ask"
          /\ UNCHANGED <<ex, raised, stray>>
      BY <2>4 DEF CmpReturns
    <3>2. answer \in Int
      BY DEF compareNums
    <3>3. \A u, w : IsObject(u) /\ IsObject(w) => InPlace(u, w)
      BY DEF InPlace
    <3> HIDE DEF answer
    <3>4. g \in SortFrame /\ Knows(g) /\ g.failed = Last(Below).failed
      BY <2>2, <3>2, <3>3, AnswerKnown DEF Awaits
    <3> HIDE DEF g
    <3>5. /\ Len(Append(Front(Below), g)) = Len(Below)
          /\ Append(Front(Below), g)[Len(Below)] = g
      BY <2>2, <3>4, ReplacedFrame
    <3>6. Inner' = g /\ ~g.failed
      BY <2>2, <3>1, <3>4, <3>5 DEF Inner, Awaits
    <3>7. QED
      BY <1>0, <3>1, <3>6, NoFailure
  <2>5. CASE CmpInvalid
    <3>1. ComparisonFails(Front(Below), Last(Below)) /\ Raise(<<>>)
      BY <2>5 DEF CmpInvalid
    <3>2. CallsToCatch(frames') = CallsToCatch(frames) /\ control' = "ask"
      BY <2>2, <2>3, <3>1, ComparisonFailsAlike
    <3>3. <<>> \in Seq(Entry)
      BY EmptySeq
    <3>4. QED
      BY <3>1, <3>2, <3>3, RaiseStarts
  <2>6. CASE CmpFails
    <3>1. /\ ComparisonFails(Front(Below), Last(Below)) /\ control = "fail"
          /\ UNCHANGED <<ex, raised, stray>>
      BY <2>6 DEF CmpFails
    <3>2. CallsToCatch(frames') = CallsToCatch(frames)
      BY <2>2, <2>3, <3>1, ComparisonFailsAlike
    <3>3. QED
      BY <3>1, <3>2, FailurePasses
  <2>7. QED
    BY <1>8, <2>4, <2>5, <2>6
<1>9. ASSUME NEW indices, SortReturns(indices)
      PROVE  TraceInvariant'
  <2>1. control' = "run" /\ UNCHANGED <<ex, raised, stray>>
    BY <1>9 DEF SortReturns
  <2>2. QED
    BY <1>0, <2>1, NoFailure
<1>10. CASE SortFails \/ CallFails
  <2>1. /\ ex' = Unwound(Inner) /\ frames' = Below /\ control' = "fail" /\ raised' = raised
        /\ Inner.kind = "sort" \/ (Inner.kind = "call" /\ ex.trace # <<>>)
    BY <1>0, <1>10 DEF SortFails, CallFails, TraceInvariant
  <2>2. /\ stray' \in BOOLEAN
        /\ ~stray' => ~stray /\ Failing
    BY <1>0, <1>10 DEF SortFails, CallFails, TraceInvariant, Failing
  <2>3. /\ ex' \in [trace : Seq(Entry), sourceHasTrace : BOOLEAN]
        /\ ex'.trace = ex.trace \o Entries(Inner)
        /\ ex'.trace # <<>> /\ ex'.sourceHasTrace
    BY <2>1, UnwoundTrace
  <2>4. /\ CallsToCatch(Below) \in Seq(Entry)
        /\ CallsToCatch(frames) = Entries(Inner) \o CallsToCatch(Below)
    BY <2>1, CallsOut DEF Stops
  <2>5. Inner \in Frame
    BY <1>0 DEF Nested, Inner
  <2>6. Entries(Inner) \in Seq(Entry) /\ ex.trace \in Seq(Entry)
    BY <2>5, EntriesTyped DEF TraceInvariant
  <2>7. (ex.trace \o Entries(Inner)) \o CallsToCatch(Below)
          = ex.trace \o (Entries(Inner) \o CallsToCatch(Below))
    <3>1. \A s, t, u \in Seq(Entry) : (s \o t) \o u = s \o (t \o u)
      BY ConcatAssociative
    <3>2. QED
      BY <2>4, <2>6, <3>1, Zenon
  <2>8. ~stray' => ex'.trace \o CallsToCatch(frames') = raised'.calls
    BY <2>1, <2>2, <2>3, <2>4, <2>7 DEF TraceInvariant
  <2>9. QED
    BY <2>1, <2>2, <2>3, <2>8 DEF TraceInvariant
<1>11. ASSUME NEW o, Catch(o)
       PROVE  TraceInvariant'
  <2>1. /\ ex' = Unwound(Inner) /\ control' = "run" /\ raised' = [raised EXCEPT !.calls = <<>>]
        /\ stray' = stray /\ Inner.kind = "catch" /\ ex.trace # <<>>
    BY <1>11 DEF Catch, TraceInvariant
  <2>2. /\ ex' \in [trace : Seq(Entry), sourceHasTrace : BOOLEAN]
        /\ ex'.trace # <<>> /\ ex'.sourceHasTrace
    BY <2>1, UnwoundTrace
  <2>3. raised' \in [count : Nat, calls : Seq(Entry)]
    BY <2>1, EmptySeq DEF TraceInvariant
  <2>4. QED
    BY <1>0, <2>1, <2>2, <2>3 DEF TraceInvariant
<1>12. CASE PromptFails
  <2>1. control' = "run" /\ raised' = [raised EXCEPT !.calls = <<>>] /\ ex' = ex /\ stray' = stray
    BY <1>12 DEF PromptFails
  <2>2. raised' \in [count : Nat, calls : Seq(Entry)]
    BY <2>1, EmptySeq DEF TraceInvariant
  <2>3. QED
    BY <1>0, <2>1, <2>2 DEF TraceInvariant
<1>13. QED
  BY <1>1, <1>2, <1>3, <1>4, <1>5, <1>6, <1>7, <1>8, <1>9, <1>10, <1>11, <1>12 DEF SortingNext

\* TraceIsCallChain: a trace is exactly the calls between the raise and the
\* catch (vm.c:482-503, raise*), through any number of sorts and comparisons.
THEOREM TraceComplete == Spec => TraceIsCallChain
<1>1. Init => SortInvariant /\ TraceInvariant
  <2> SUFFICES ASSUME Init
               PROVE  SortInvariant /\ TraceInvariant
    OBVIOUS
  <2>1. SortInvariant /\ control = "run" /\ stray = FALSE
          /\ ex = [trace |-> <<>>, sourceHasTrace |-> FALSE]
          /\ raised = [count |-> 0, calls |-> <<>>]
    BY SortInit DEF Init, SortingInit
  <2>2. QED
    BY <2>1, EmptySeq DEF TraceInvariant, Failing
<1>2. SortInvariant /\ TraceInvariant /\ [Next]_vars => (SortInvariant /\ TraceInvariant)'
  <2> SUFFICES ASSUME SortInvariant, TraceInvariant, [Next]_vars
               PROVE  SortInvariant' /\ TraceInvariant'
    OBVIOUS
  <2>1. CASE part = "sorting" /\ SortingNext
    BY <2>1, SortNext, TraceNext
  <2>2. CASE UNCHANGED svars
    BY <2>2 DEF svars, SortInvariant, TraceInvariant, Failing, Inner
  <2>3. QED
    BY <2>1, <2>2 DEF Next, vars
<1> DEFINE Right == ex'.trace = raised.calls /\ ex'.sourceHasTrace
<1>3. SortInvariant /\ TraceInvariant /\ [Next]_vars
        => [control = "fail" /\ Inner.kind \in {"catch", "prompt"} /\ ~stray => Right]_svars
  <2>1. ASSUME SortInvariant, TraceInvariant, SortingNext,
               control = "fail", Inner.kind \in {"catch", "prompt"}, ~stray
        PROVE  Right
    <3>1. /\ ex.trace # <<>> /\ ex.sourceHasTrace
          /\ ex.trace \in Seq(Entry) /\ ex.trace \o CallsToCatch(frames) = raised.calls
      BY <2>1 DEF TraceInvariant, Failing
    <3>2. PromptFails \/ \E o : Catch(o)
      BY <2>1 DEF SortingNext, Push, Pop, Return, RaiseAt, ThrowAt, StartSort, Enter, Running,
                  CmpReturns, CmpInvalid, CmpFails, SortFails, CallFails
    <3>3. CASE PromptFails
      <4>1. ex' = ex /\ Inner.kind = "prompt"
        BY <3>3 DEF PromptFails
      <4>2. CallsToCatch(frames) = <<>>
        BY <2>1, <4>1, CallsTyped
      <4>3. QED
        BY <3>1, <4>1, <4>2, ConcatEmptySeq
    <3>4. CASE \E o : Catch(o)
      <4>1. ex' = Unwound(Inner) /\ Inner.kind = "catch"
        BY <3>4 DEF Catch
      <4>2. /\ Unwound(Inner).trace = ex.trace \o Entries(Inner)
            /\ Unwound(Inner).sourceHasTrace
        BY <2>1, <3>1, <4>1, UnwoundTrace
      <4>3. /\ CallsToCatch(frames) = Entries(Inner) \o <<>> /\ Entries(Inner) \in Seq(Entry)
        <5>1. Inner \in Frame
          BY <2>1 DEF SortInvariant, Nested, Inner
        <5>2. QED
          BY <2>1, <4>1, <5>1, CallsOut, EntriesTyped DEF Stops
      <4>4. CallsToCatch(frames) = Entries(Inner)
        BY <4>3, ConcatEmptySeq
      <4>5. QED
        BY <3>1, <4>1, <4>2, <4>4
    <3>5. QED
      BY <3>2, <3>3, <3>4
  <2>2. [Next]_vars => SortingNext \/ UNCHANGED svars
    BY DEF Next, vars
  <2>3. QED
    BY <2>1, <2>2
<1>4. QED
  BY <1>1, <1>2, <1>3, PTL DEF Spec, TraceIsCallChain

-----------------------------------------------------------------------------
(* Blobs: sums and sequences put together                                  *)

\* What Total adds up, one by one.
LEMMA TotalIs ==
  ASSUME NEW a \in Seq(Int)
  PROVE  \E T \in [0 .. Len(a) -> Int] :
           /\ T[0] = 0
           /\ \A k \in 1 .. Len(a) : T[k] = T[k - 1] + a[k]
           /\ Total(a) = T[Len(a)]
<1> DEFINE n == Len(a)
           Is(f) == f = [k \in 0 .. n |-> IF k = 0 THEN 0 ELSE f[k - 1] + a[k]]
           upTo == CHOOSE f : Is(f)
           F == [k \in 1 .. n |-> [x \in Int |-> x + a[k]]]
<1>1. n \in Nat /\ \A k \in 1 .. n : a[k] \in Int
  BY LenProperties, ElementOfSeq
<1>2. F \in [1 .. n -> [Int -> Int]]
  BY <1>1
<1>3. PICK f \in [0 .. n -> Int] : f[0] = 0 /\ \A k \in 1 .. n : f[k] = F[k][f[k - 1]]
  <2>1. 0 \in Int /\ Steps(F, n, Int)
    BY <1>1, <1>2 DEF Steps
  <2>2. \E f \in [0 .. n -> Int] : Iterates(f, F, 0, n)
    <3> HIDE DEF F, n
    <3> QED BY <2>1, IterationExists
  <2>3. QED
    BY <2>2 DEF Iterates
<1>4. \A k \in 1 .. n : f[k - 1] \in Int
  BY <1>1
<1>5. \A k \in 1 .. n : f[k] = f[k - 1] + a[k]
  BY <1>3, <1>4
<1>6. Is(f)
  <2>1. \A k \in 0 .. n : f[k] = IF k = 0 THEN 0 ELSE f[k - 1] + a[k]
    BY <1>1, <1>3, <1>5
  <2> HIDE DEF F, n
  <2>2. QED
    BY <1>3, <2>1
<1>7. Is(upTo)
  <2> HIDE DEF Is
  <2> QED BY <1>6
<1>8. Total(a) = upTo[n]
  BY Zenon DEF Total
<1> HIDE DEF upTo
<1>9. upTo[0] = 0 /\ \A k \in 1 .. n : upTo[k] = upTo[k - 1] + a[k]
  BY <1>1, <1>7
<1>10. upTo \in [0 .. n -> Int]
  <2> DEFINE T == {k \in Nat : k <= n => upTo[k] \in Int}
  <2>1. 0 \in T
    BY <1>9
  <2>2. ASSUME NEW k \in Nat, k \in T
        PROVE  k + 1 \in T
    <3> SUFFICES ASSUME k + 1 <= n
                 PROVE  upTo[k + 1] \in Int
      OBVIOUS
    <3>1. k + 1 \in 1 .. n /\ (k + 1) - 1 = k
      BY <1>1
    <3>2. upTo[k + 1] = upTo[k] + a[k + 1]
      BY <1>9, <3>1
    <3>3. upTo[k] \in Int /\ a[k + 1] \in Int
      BY <1>1, <2>2, <3>1
    <3>4. QED
      BY <3>2, <3>3
  <2>3. Nat \subseteq T
    <3> HIDE DEF T
    <3> QED BY <2>1, <2>2, SetInduction
  <2>4. \A k \in 0 .. n : upTo[k] \in Int
    BY <1>1, <2>3
  <2>5. QED
    BY <1>7, <2>4
<1>11. QED
  BY <1>8, <1>9, <1>10

\* One amount more adds that amount.
LEMMA TotalStep ==
  ASSUME NEW a \in Seq(Int), NEW b \in Seq(Int), Len(a) = Len(b) + 1,
         \A i \in 1 .. Len(b) : a[i] = b[i]
  PROVE  Total(a) = Total(b) + a[Len(a)] /\ Total(b) \in Int
<1> DEFINE n == Len(b)
<1>1. n \in Nat /\ Len(a) = n + 1
  BY LenProperties
<1>2. PICK Ta : /\ Ta \in [0 .. n + 1 -> Int] /\ Ta[0] = 0
                /\ \A k \in 1 .. n + 1 : Ta[k] = Ta[k - 1] + a[k]
                /\ Total(a) = Ta[n + 1]
  BY <1>1, TotalIs
<1>3. PICK Tb : /\ Tb \in [0 .. n -> Int] /\ Tb[0] = 0
                /\ \A k \in 1 .. n : Tb[k] = Tb[k - 1] + b[k]
                /\ Total(b) = Tb[n]
  BY TotalIs
<1> DEFINE T == {k \in Nat : k <= n => Ta[k] = Tb[k]}
<1>4. 0 \in T
  BY <1>2, <1>3
<1>5. ASSUME NEW k \in Nat, k \in T
      PROVE  k + 1 \in T
  <2> SUFFICES ASSUME k + 1 <= n
               PROVE  Ta[k + 1] = Tb[k + 1]
    OBVIOUS
  <2>1. k + 1 \in 1 .. n /\ k + 1 \in 1 .. n + 1 /\ (k + 1) - 1 = k /\ k <= n
    BY <1>1
  <2>2. Ta[k + 1] = Ta[k] + a[k + 1] /\ Tb[k + 1] = Tb[k] + b[k + 1]
    <3>1. Ta[k + 1] = Ta[(k + 1) - 1] + a[k + 1]
      BY <1>2, <2>1
    <3>2. Tb[k + 1] = Tb[(k + 1) - 1] + b[k + 1]
      BY <1>3, <2>1
    <3>3. QED
      BY <2>1, <3>1, <3>2
  <2>3. QED
    BY <1>5, <2>1, <2>2
<1>6. Nat \subseteq T
  <2> HIDE DEF T
  <2> QED BY <1>4, <1>5, SetInduction
<1>7. Ta[n] = Tb[n] /\ n + 1 \in 1 .. n + 1 /\ (n + 1) - 1 = n /\ n \in 0 .. n
  BY <1>1, <1>6
<1>8. Total(a) = Ta[n] + a[n + 1]
  <2>1. Ta[n + 1] = Ta[(n + 1) - 1] + a[n + 1]
    BY <1>2, <1>7
  <2>2. QED
    BY <1>2, <1>7, <2>1
<1>9. QED
  BY <1>1, <1>3, <1>7, <1>8

\* The sum of the first k.
Up(a, k) == Total([j \in 1 .. k |-> a[j]])

LEMMA FunctionIsSeq ==
  ASSUME NEW S, NEW k \in Nat, NEW f \in [1 .. k -> S]
  PROVE  f \in Seq(S) /\ Len(f) = k
<1> DEFINE e(i) == f[i]
           g == [i \in 1 .. k |-> e(i)]
<1>1. \A i \in 1 .. k : e(i) \in S
  OBVIOUS
<1>2. g \in Seq(S)
  <2> HIDE DEF e
  <2> QED BY <1>1, IsASeq
<1>3. f = g
  OBVIOUS
<1>4. Len(f) \in Nat /\ DOMAIN f = 1 .. Len(f) /\ DOMAIN f = 1 .. k
  BY <1>2, <1>3, LenProperties
<1>5. Len(f) = k
  BY <1>4
<1>6. QED
  BY <1>2, <1>3, <1>5

LEMMA UpIs ==
  ASSUME NEW n \in Nat, NEW a, \A j \in 1 .. n : a[j] \in Int
  PROVE  /\ Up(a, 0) = 0
         /\ \A k \in 0 .. n : Up(a, k) \in Int
         /\ \A k \in 1 .. n : Up(a, k) = Up(a, k - 1) + a[k]
<1> DEFINE w(k) == [j \in 1 .. k |-> a[j]]
<1>1. \A k \in 0 .. n : w(k) \in [1 .. k -> Int] /\ k \in Nat
  OBVIOUS
<1>2. \A k \in 0 .. n : w(k) \in Seq(Int) /\ Len(w(k)) = k
  <2> HIDE DEF w
  <2> QED BY <1>1, FunctionIsSeq
<1>3. Up(a, 0) = 0
  <2>1. \E T \in [0 .. Len(w(0)) -> Int] : T[0] = 0 /\ Total(w(0)) = T[Len(w(0))]
    <3>1. w(0) \in Seq(Int)
      BY <1>2
    <3> HIDE DEF w
    <3>2. QED
      BY <3>1, TotalIs
  <2>2. Len(w(0)) = 0
    BY <1>2
  <2> HIDE DEF w
  <2>3. Total(w(0)) = 0
    BY <2>1, <2>2
  <2>4. QED
    BY <2>3 DEF Up, w
<1>4. ASSUME NEW k \in 1 .. n
      PROVE  Total(w(k)) = Total(w(k - 1)) + a[k] /\ Total(w(k - 1)) \in Int
  <2>1. /\ w(k) \in Seq(Int) /\ w(k - 1) \in Seq(Int)
        /\ Len(w(k)) = k /\ Len(w(k - 1)) = k - 1
    <3>1. k \in 0 .. n /\ k - 1 \in 0 .. n
      OBVIOUS
    <3> HIDE DEF w
    <3>2. QED
      BY <1>2, <3>1
  <2>2. \A i \in 1 .. k - 1 : w(k)[i] = w(k - 1)[i]
    OBVIOUS
  <2>3. w(k)[k] = a[k] /\ (k - 1) + 1 = k
    OBVIOUS
  <2> HIDE DEF w
  <2>4. Total(w(k)) = Total(w(k - 1)) + w(k)[Len(w(k))] /\ Total(w(k - 1)) \in Int
    BY <2>1, <2>2, <2>3, TotalStep
  <2>5. QED
    BY <2>1, <2>3, <2>4
<1>5. \A k \in 0 .. n : Up(a, k) = Total(w(k))
  BY DEF Up
<1>6. \A k \in 0 .. n : Total(w(k)) \in Int
  <2>1. \A k \in 1 .. n : Total(w(k)) \in Int
    <3> HIDE DEF w
    <3> QED BY <1>4
  <2>2. QED
    BY <1>3, <1>5, <2>1
<1> HIDE DEF w
<1>7. QED
  BY <1>3, <1>4, <1>5, <1>6

LEMMA UpSame ==
  ASSUME NEW n \in Nat, NEW a, NEW b, \A j \in 1 .. n : a[j] = b[j]
  PROVE  \A k \in 0 .. n : Up(a, k) = Up(b, k)
<1> SUFFICES ASSUME NEW k \in 0 .. n
             PROVE  Up(a, k) = Up(b, k)
  OBVIOUS
<1>1. \A j \in 1 .. k : a[j] = b[j]
  OBVIOUS
<1>2. [j \in 1 .. k |-> a[j]] = [j \in 1 .. k |-> b[j]]
  BY <1>1
<1>3. QED
  BY <1>2, Zenon DEF Up

LEMMA UpGrows ==
  ASSUME NEW n \in Nat, NEW a, \A j \in 1 .. n : a[j] \in Nat
  PROVE  /\ \A k \in 0 .. n : Up(a, k) \in Nat
         /\ \A k \in 0 .. n : \A j \in 0 .. k : Up(a, j) <= Up(a, k)
<1>1. /\ Up(a, 0) = 0
      /\ \A k \in 0 .. n : Up(a, k) \in Int
      /\ \A k \in 1 .. n : Up(a, k) = Up(a, k - 1) + a[k]
  <2>1. \A j \in 1 .. n : a[j] \in Int
    OBVIOUS
  <2>2. QED
    BY <2>1, UpIs
<1> DEFINE T == {k \in Nat : k <= n => \A j \in 0 .. k : Up(a, j) <= Up(a, k)}
<1>2. 0 \in T
  BY <1>1
<1>3. ASSUME NEW k \in Nat, k \in T
      PROVE  k + 1 \in T
  <2> SUFFICES ASSUME k + 1 <= n, NEW j \in 0 .. k + 1
               PROVE  Up(a, j) <= Up(a, k + 1)
    OBVIOUS
  <2>1. k + 1 \in 1 .. n /\ (k + 1) - 1 = k /\ k <= n /\ k \in 0 .. n /\ k + 1 \in 0 .. n
    OBVIOUS
  <2>2. Up(a, k + 1) = Up(a, k) + a[k + 1] /\ a[k + 1] \in Nat /\ Up(a, k) \in Int
    BY <1>1, <2>1
  <2>3. CASE j = k + 1
    BY <2>2, <2>3
  <2>4. CASE j # k + 1
    <3>1. j \in 0 .. k /\ j \in 0 .. n
      BY <2>1, <2>4
    <3>2. Up(a, j) <= Up(a, k) /\ Up(a, j) \in Int
      BY <1>1, <1>3, <2>1, <3>1
    <3>3. QED
      BY <2>2, <3>2
  <2>5. QED
    BY <2>3, <2>4
<1>4. Nat \subseteq T
  <2> HIDE DEF T
  <2> QED BY <1>2, <1>3, SetInduction
<1>5. \A k \in 0 .. n : \A j \in 0 .. k : Up(a, j) <= Up(a, k)
  BY <1>4
<1>6. \A k \in 0 .. n : 0 <= Up(a, k)
  BY <1>1, <1>5
<1>7. QED
  BY <1>1, <1>5, <1>6

LEMMA UpTimes ==
  ASSUME NEW n \in Nat, NEW w \in Nat, NEW a, \A j \in 1 .. n : a[j] = w
  PROVE  \A k \in 0 .. n : Up(a, k) = k * w
<1>1. /\ Up(a, 0) = 0
      /\ \A k \in 1 .. n : Up(a, k) = Up(a, k - 1) + a[k]
  <2>1. \A j \in 1 .. n : a[j] \in Int
    OBVIOUS
  <2>2. QED
    BY <2>1, UpIs
<1> DEFINE T == {k \in Nat : k <= n => Up(a, k) = k * w}
<1>2. 0 \in T
  BY <1>1
<1>3. ASSUME NEW k \in Nat, k \in T
      PROVE  k + 1 \in T
  <2> SUFFICES ASSUME k + 1 <= n
               PROVE  Up(a, k + 1) = (k + 1) * w
    OBVIOUS
  <2>1. k + 1 \in 1 .. n /\ (k + 1) - 1 = k /\ k <= n
    OBVIOUS
  <2>2. Up(a, k + 1) = Up(a, k) + w /\ Up(a, k) = k * w
    BY <1>1, <1>3, <2>1
  <2>3. k * w + w = (k + 1) * w
    OBVIOUS
  <2>4. QED
    BY <2>2, <2>3
<1>4. Nat \subseteq T
  <2> HIDE DEF T
  <2> QED BY <1>2, <1>3, SetInduction
<1>5. QED
  BY <1>4

\* flat has the elements of the n parts ss, which have the lengths lens, one
\* after the other.
Joined(S, n, ss, lens, flat) ==
  /\ flat \in Seq(S)
  /\ Len(flat) = Up(lens, n)
  /\ \A k \in 1 .. n : \A j \in 1 .. lens[k] : flat[Up(lens, k - 1) + j] = ss[k][j]

LEMMA FlattenIs ==
  ASSUME NEW S, NEW n \in Nat, NEW ss \in [1 .. n -> Seq(S)],
         NEW lens, \A k \in 1 .. n : lens[k] = Len(ss[k])
  PROVE  Joined(S, n, ss, lens, FlattenSeq(ss))
<1> DEFINE U(k) == Up(lens, k)
           D == 1 .. n
           V == Seq(S)
           m == [k \in D |-> k]
           Body(g, k) == IF k = 1 THEN ss[k] ELSE g[k - 1] \o ss[k]
           G == [g \in [D -> V] |-> [k \in D |-> Body(g, k)]]
           Is(f) == f = [k \in D |-> Body(f, k)]
           flatten == CHOOSE f : Is(f)
<1>1. \A k \in 1 .. n : lens[k] = Len(ss[k]) /\ lens[k] \in Nat
  BY LenProperties
<1>2. /\ U(0) = 0
      /\ \A k \in 0 .. n : U(k) \in Nat
      /\ \A k \in 1 .. n : U(k) = U(k - 1) + Len(ss[k])
      /\ \A k \in 0 .. n : \A j \in 0 .. k : U(j) <= U(k)
  <2>1. \A k \in 1 .. n : lens[k] \in Int
    BY <1>1
  <2>2. QED
    BY <1>1, <2>1, UpIs, UpGrows
<1> HIDE DEF U
<1>3. ss \in Seq(V) /\ Len(ss) = n
  BY FunctionIsSeq
<1>4. CASE n = 0
  <2>1. FlattenSeq(ss) = ss
    BY <1>3, <1>4 DEF FlattenSeq
  <2>2. ss \in [1 .. 0 -> S]
    BY <1>4
  <2>3. ss \in Seq(S)
    BY <2>2, FunctionIsSeq
  <2>4. Len(ss) = U(0)
    BY <1>2, <1>3, <1>4
  <2>5. QED
    BY <1>4, <2>1, <2>3, <2>4 DEF U, Joined
<1>5. CASE n # 0
  <2>1. \A k \in D : k # 1 => k - 1 \in D /\ m[k - 1] < m[k]
    OBVIOUS
  <2>2. ASSUME NEW g \in [D -> V], NEW k \in D
        PROVE  Body(g, k) \in V
    <3>1. k # 1 => g[k - 1] \o ss[k] \in V
      BY <2>1, ConcatProperties
    <3>2. QED
      BY <3>1
  <2>3. m \in [D -> Nat]
    OBVIOUS
  <2>4. G \in [[D -> V] -> [D -> V]]
    <3> HIDE DEF Body, D, V
    <3> QED BY <2>2
  <2>5. ASSUME NEW g \in [D -> V], NEW h \in [D -> V], NEW k \in D,
               \A j \in D : m[j] < m[k] => g[j] = h[j]
        PROVE  G[g][k] = G[h][k]
    <3>1. k # 1 => g[k - 1] = h[k - 1]
      <4> HIDE DEF D, m
      <4> QED BY <2>1, <2>5
    <3>2. Body(g, k) = Body(h, k)
      BY <3>1
    <3> HIDE DEF Body, D, V
    <3>3. QED
      BY <3>2
  <2>6. Recursive(G, D, V, m)
    <3> HIDE DEF G, m, D, V
    <3> QED BY <2>3, <2>4, <2>5 DEF Recursive
  <2>7. PICK f \in [D -> V] : f = G[f]
    <3>1. V # {}
      BY EmptySeq
    <3> HIDE DEF G, m, D, V
    <3>2. QED
      BY <2>6, <3>1, RecursionTheorem
  <2>8. Is(f)
    <3> HIDE DEF Body, D, V
    <3> QED BY <2>7
  <2>9. Is(flatten)
    <3> HIDE DEF Is
    <3> QED BY <2>8
  <2>10. FlattenSeq(ss) = flatten[n]
    BY <1>3, <1>5, Zenon DEF FlattenSeq
  <2> HIDE DEF flatten
  <2>11. \A k \in 1 .. n : flatten[k] = IF k = 1 THEN ss[k] ELSE flatten[k - 1] \o ss[k]
    BY <2>9
  <2> DEFINE Holds(i) ==
               /\ flatten[i] \in Seq(S)
               /\ Len(flatten[i]) = U(i)
               /\ \A k \in 1 .. i : \A j \in 1 .. Len(ss[k]) :
                    flatten[i][U(k - 1) + j] = ss[k][j]
             T == {i \in Nat : i + 1 <= n => Holds(i + 1)}
  <2>12. 0 \in T
    <3>1. 1 \in 1 .. n
      BY <1>5
    <3>2. flatten[1] = ss[1] /\ ss[1] \in Seq(S)
      BY <2>11, <3>1
    <3>3. U(1) = Len(ss[1]) /\ \A j \in 1 .. Len(ss[1]) : U(0) + j = j
      BY <1>1, <1>2, <3>1
    <3>4. \A k \in 1 .. 1 : k = 1 /\ k - 1 = 0
      OBVIOUS
    <3>5. Holds(1)
      BY <3>2, <3>3, <3>4
    <3>6. QED
      BY <3>5
  <2>13. ASSUME NEW i \in Nat, i \in T
         PROVE  i + 1 \in T
    <3> SUFFICES ASSUME (i + 1) + 1 <= n
                 PROVE  Holds((i + 1) + 1)
      OBVIOUS
    <3> DEFINE p == i + 1
               q == (i + 1) + 1
    <3>1. p \in 1 .. n /\ q \in 1 .. n /\ q - 1 = p /\ q # 1 /\ p \in 0 .. n
      OBVIOUS
    <3>2. Holds(p)
      BY <2>13, <3>1
    <3> HIDE DEF p
    <3>3. q = p + 1
      BY DEF p
    <3> HIDE DEF q
    <3>4. flatten[q] = flatten[p] \o ss[q] /\ ss[q] \in Seq(S)
      BY <2>11, <3>1
    <3>5. /\ flatten[q] \in Seq(S) /\ Len(flatten[q]) = U(p) + Len(ss[q])
          /\ \A j \in 1 .. U(p) + Len(ss[q]) :
               flatten[q][j] = IF j <= U(p) THEN flatten[p][j] ELSE ss[q][j - U(p)]
      <4> DEFINE x == flatten[p]
                 y == ss[q]
      <4>1. x \in Seq(S) /\ y \in Seq(S) /\ Len(x) = U(p) /\ flatten[q] = x \o y
        BY <3>2, <3>4
      <4>2. /\ x \o y \in Seq(S) /\ Len(x \o y) = Len(x) + Len(y)
            /\ \A j \in 1 .. Len(x) + Len(y) :
                 (x \o y)[j] = IF j <= Len(x) THEN x[j] ELSE y[j - Len(x)]
        <5> HIDE DEF x, y
        <5> QED BY <4>1, ConcatProperties
      <4>3. QED
        BY <4>1, <4>2
    <3>6. U(q) = U(p) + Len(ss[q]) /\ U(p) \in Nat /\ Len(ss[q]) \in Nat
      BY <1>1, <1>2, <3>1
    <3>7. ASSUME NEW k \in 1 .. q, NEW j \in 1 .. Len(ss[k])
          PROVE  flatten[q][U(k - 1) + j] = ss[k][j]
      <4>1. CASE k = q
        <5>1. U(k - 1) + j \in 1 .. U(p) + Len(ss[q]) /\ ~(U(k - 1) + j <= U(p))
              /\ (U(k - 1) + j) - U(p) = j
          BY <3>1, <3>6, <4>1
        <5>2. QED
          BY <3>5, <4>1, <5>1
      <4>2. CASE k # q
        <5>1. k \in 1 .. p /\ k \in 1 .. n /\ k \in 0 .. p /\ k - 1 \in 0 .. n
          BY <3>1, <3>3, <4>2
        <5>2. /\ U(k) = U(k - 1) + Len(ss[k]) /\ U(k) <= U(p)
              /\ U(k - 1) \in Nat /\ Len(ss[k]) \in Nat
          BY <1>1, <1>2, <3>1, <5>1
        <5>3. U(k - 1) + j \in 1 .. U(p) + Len(ss[q]) /\ U(k - 1) + j <= U(p)
          <6> DEFINE u == U(k - 1)
                     v == U(k)
                     y == U(p)
                     l == Len(ss[k])
                     z == Len(ss[q])
          <6>1. v = u + l /\ v <= y /\ u \in Nat /\ l \in Nat /\ y \in Nat /\ z \in Nat /\ j \in 1 .. l
            BY <3>6, <5>2
          <6> HIDE DEF u, v, y, l, z
          <6>2. u + j \in 1 .. y + z /\ u + j <= y
            BY <6>1
          <6>3. QED
            BY <6>2 DEF u, y, z
        <5>4. flatten[p][U(k - 1) + j] = ss[k][j]
          BY <3>2, <5>1
        <5>5. QED
          BY <3>5, <5>3, <5>4
      <4>3. QED
        BY <4>1, <4>2
    <3>8. QED
      BY <3>5, <3>6, <3>7 DEF q, p
  <2>14. Nat \subseteq T
    <3> HIDE DEF T
    <3> QED BY <2>12, <2>13, SetInduction
  <2>15. Holds(n)
    <3>1. n - 1 \in Nat /\ (n - 1) + 1 = n
      BY <1>5
    <3>2. n - 1 \in T
      BY <2>14, <3>1
    <3> HIDE DEF Holds
    <3>3. QED
      BY <3>1, <3>2
  <2>16. QED
    BY <1>1, <2>10, <2>15 DEF U, Joined
<1>6. QED
  BY <1>4, <1>5

-----------------------------------------------------------------------------
LEMMA ReachIs ==
  /\ Reach[0] = 1
  /\ \A k \in Nat : Reach[k] \in Nat \ {0} /\ Reach[k + 1] = Byte * Reach[k]
<1> DEFINE S == Nat
           V == Nat
           m == [k \in S |-> k]
           Body(g, k) == IF k = 0 THEN 1 ELSE Byte * g[k - 1]
           G == [g \in [S -> V] |-> [k \in S |-> Body(g, k)]]
           Is(f) == f = [k \in Nat |-> Body(f, k)]
<1>0. Byte \in Nat \ {0}
  BY BlobsAssumption
<1>1. \A k \in S : k # 0 => k - 1 \in S /\ m[k - 1] < m[k]
  OBVIOUS
<1>2. ASSUME NEW g \in [S -> V], NEW k \in S
      PROVE  Body(g, k) \in V
  <2>1. k # 0 => g[k - 1] \in Nat
    BY <1>1
  <2>2. QED
    BY <1>0, <2>1
<1>3. m \in [S -> Nat]
  OBVIOUS
<1>4. G \in [[S -> V] -> [S -> V]]
  <2> HIDE DEF Body, S, V
  <2> QED BY <1>2
<1>5. ASSUME NEW g \in [S -> V], NEW h \in [S -> V], NEW k \in S,
             \A j \in S : m[j] < m[k] => g[j] = h[j]
      PROVE  G[g][k] = G[h][k]
  <2>1. k # 0 => g[k - 1] = h[k - 1]
    <3> HIDE DEF S, m, V
    <3> QED BY <1>1, <1>5
  <2>2. Body(g, k) = Body(h, k)
    BY <2>1
  <2> HIDE DEF Body, S, V
  <2>3. QED
    BY <2>2
<1>6. Recursive(G, S, V, m)
  <2> HIDE DEF G, m, S, V
  <2> QED BY <1>3, <1>4, <1>5 DEF Recursive
<1>7. PICK f \in [S -> V] : f = G[f]
  <2>1. V # {}
    OBVIOUS
  <2> HIDE DEF G, m, S, V
  <2>2. QED
    BY <1>6, <2>1, RecursionTheorem
<1>8. Is(f)
  <2> HIDE DEF Body, V
  <2> QED BY <1>7
<1>9. Is(Reach)
  <2>1. Reach = CHOOSE g : Is(g)
    BY Zenon DEF Reach
  <2> HIDE DEF Is
  <2>2. QED
    BY <1>8, <2>1
<1>10. Reach[0] = 1
  BY <1>9
<1>11. \A k \in Nat : Reach[k + 1] = Byte * Reach[k]
  <2> SUFFICES ASSUME NEW k \in Nat
               PROVE  Reach[k + 1] = Byte * Reach[k]
    OBVIOUS
  <2>1. k + 1 \in Nat /\ k + 1 # 0 /\ (k + 1) - 1 = k
    OBVIOUS
  <2>2. Reach[k + 1] = Body(Reach, k + 1)
    <3> HIDE DEF Body
    <3> QED BY <1>9, <2>1
  <2>3. QED
    BY <2>1, <2>2
<1> DEFINE T == {k \in Nat : Reach[k] \in Nat \ {0}}
<1>12. 0 \in T
  BY <1>10
<1>13. ASSUME NEW k \in Nat, k \in T
       PROVE  k + 1 \in T
  <2>1. Reach[k + 1] = Byte * Reach[k] /\ Reach[k] \in Nat \ {0}
    BY <1>11, <1>13
  <2>2. Byte * Reach[k] \in Nat \ {0}
    BY <1>0, <2>1
  <2>3. QED
    BY <2>1, <2>2
<1>14. Nat \subseteq T
  <2> HIDE DEF T
  <2> QED BY <1>12, <1>13, SetInduction
<1>15. QED
  BY <1>10, <1>11, <1>14

LEMMA Quotient ==
  ASSUME NEW q \in Int, NEW b \in Nat \ {0}, NEW r \in 0 .. b - 1
  PROVE  (q * b + r) \div b = q
OBVIOUS

LEMMA Parts ==
  ASSUME NEW n \in Int, NEW b \in Nat \ {0}
  PROVE  /\ n = (n \div b) * b + (n % b)
         /\ n % b \in 0 .. b - 1
         /\ n \div b \in Int
OBVIOUS

\* One digit more: what is left of n, and how much is taken.
LEMMA OneDigit ==
  ASSUME NEW n \in Int, NEW b \in Nat \ {0}, NEW c \in Nat \ {0}
  PROVE  /\ n \div (b * c) = (n \div c) \div b
         /\ n - (n \div (b * c)) * (b * c)
              = n - (n \div c) * c + ((n \div c) % b) * c
<1> DEFINE q == n \div c
           r == n % c
           p == q \div b
           s == q % b
<1>1. n = q * c + r /\ r \in 0 .. c - 1 /\ q \in Int
  BY Parts
<1>2. q = p * b + s /\ s \in 0 .. b - 1 /\ p \in Int
  BY <1>1, Parts
<1> HIDE DEF q, r, p, s
<1>3. r \in Int /\ s \in Int /\ 0 <= r /\ r <= c - 1 /\ 0 <= s /\ s <= b - 1
  BY <1>1, <1>2
<1>4. q * c = p * (b * c) + s * c
  BY <1>2, <1>3
<1>5. s * c + r \in 0 .. b * c - 1
  <2>1. s * c <= (b - 1) * c /\ 0 <= s * c
    BY <1>3
  <2>2. (b - 1) * c = b * c - c
    OBVIOUS
  <2>3. s * c \in Int /\ b * c \in Int
    BY <1>3
  <2>4. QED
    BY <1>3, <2>1, <2>2, <2>3
<1>6. n = p * (b * c) + (s * c + r)
  <2>1. s * c \in Int /\ p * (b * c) \in Int
    BY <1>2, <1>3
  <2>2. QED
    BY <1>1, <1>3, <1>4, <2>1
<1>7. n \div (b * c) = p
  <2>1. b * c \in Nat \ {0}
    OBVIOUS
  <2>2. (p * (b * c) + (s * c + r)) \div (b * c) = p
    BY <1>2, <1>5, <2>1, Quotient
  <2>3. QED
    BY <1>6, <2>2
<1>8. n - p * (b * c) = n - q * c + s * c
  <2>1. s * c \in Int /\ p * (b * c) \in Int /\ q * c \in Int
    BY <1>1, <1>2, <1>3
  <2>2. QED
    BY <1>4, <2>1
<1>9. QED
  BY <1>7, <1>8 DEF q, p, s

\* A number that fits into w bytes is the sum of its bytes.
LEMMA IntBack ==
  ASSUME NEW w \in Nat, NEW n \in Nat, n < Reach[w]
  PROVE  FromBytes(IntBytes(n, w)) = n
<1> DEFINE bs == IntBytes(n, w)
           a == [k \in DOMAIN bs |-> bs[k] * Reach[k - 1]]
           Rest(k) == n - (n \div Reach[k]) * Reach[k]
<1>1. /\ Reach[0] = 1
      /\ \A k \in Nat : Reach[k] \in Nat \ {0} /\ Reach[k + 1] = Byte * Reach[k]
  BY ReachIs
<1>2. Byte \in Nat \ {0}
  BY BlobsAssumption
<1>3. \A k \in 1 .. w : k - 1 \in Nat /\ Reach[k - 1] \in Nat \ {0}
  BY <1>1
<1>4. \A k \in 1 .. w : (n \div Reach[k - 1]) % Byte \in 0 .. Byte - 1
  <2> SUFFICES ASSUME NEW k \in 1 .. w
               PROVE  (n \div Reach[k - 1]) % Byte \in 0 .. Byte - 1
    OBVIOUS
  <2> DEFINE c == Reach[k - 1]
             q == n \div c
  <2>1. c \in Nat \ {0}
    BY <1>3
  <2> HIDE DEF c
  <2>2. q \in Int
    BY <2>1, Parts
  <2> HIDE DEF q
  <2>3. q % Byte \in 0 .. Byte - 1
    BY <1>2, <2>2, Parts
  <2>4. QED
    BY <2>3 DEF q, c
<1>5. DOMAIN bs = 1 .. w /\ \A k \in 1 .. w : a[k] = ((n \div Reach[k - 1]) % Byte) * Reach[k - 1]
  BY DEF IntBytes
<1>6. \A k \in 1 .. w : a[k] \in Int
  BY <1>3, <1>4, <1>5
<1>7. /\ Up(a, 0) = 0
      /\ \A k \in 1 .. w : Up(a, k) = Up(a, k - 1) + a[k]
  <2> HIDE DEF a
  <2> QED BY <1>6, UpIs
<1> DEFINE T == {k \in Nat : k <= w => Up(a, k) = Rest(k)}
<1>8. 0 \in T
  <2>1. Rest(0) = 0
    BY <1>1
  <2>2. QED
    BY <1>7, <2>1
<1>9. ASSUME NEW k \in Nat, k \in T
      PROVE  k + 1 \in T
  <2> SUFFICES ASSUME k + 1 <= w
               PROVE  Up(a, k + 1) = Rest(k + 1)
    OBVIOUS
  <2>1. k + 1 \in 1 .. w /\ (k + 1) - 1 = k /\ k <= w
    OBVIOUS
  <2>2. Up(a, k + 1) = Rest(k) + ((n \div Reach[k]) % Byte) * Reach[k]
    <3>1. Up(a, k + 1) = Up(a, k) + a[k + 1] /\ Up(a, k) = Rest(k)
      BY <1>7, <1>9, <2>1
    <3>2. a[k + 1] = ((n \div Reach[k]) % Byte) * Reach[k]
      BY <1>5, <2>1
    <3> HIDE DEF a, Rest
    <3>3. QED
      BY <3>1, <3>2
  <2>3. Reach[k] \in Nat \ {0} /\ Reach[k + 1] = Byte * Reach[k]
    BY <1>1
  <2>4. n - (n \div (Byte * Reach[k])) * (Byte * Reach[k])
          = n - (n \div Reach[k]) * Reach[k] + ((n \div Reach[k]) % Byte) * Reach[k]
    <3> DEFINE c == Reach[k]
    <3>1. c \in Nat \ {0}
      BY <2>3
    <3> HIDE DEF c
    <3>2. n - (n \div (Byte * c)) * (Byte * c)
            = n - (n \div c) * c + ((n \div c) % Byte) * c
      <4> DEFINE b == Byte
      <4>1. n \in Int /\ b \in Nat \ {0} /\ c \in Nat \ {0}
        BY <1>2, <3>1
      <4> HIDE DEF b
      <4>2. n - (n \div (b * c)) * (b * c) = n - (n \div c) * c + ((n \div c) % b) * c
        BY <4>1, OneDigit, Zenon
      <4>3. QED
        BY <4>2 DEF b
    <3>3. QED
      BY <3>2 DEF c
  <2>5. QED
    BY <2>2, <2>3, <2>4
<1>10. Nat \subseteq T
  <2> HIDE DEF T
  <2> QED BY <1>8, <1>9, SetInduction
<1>11. Up(a, w) = Rest(w)
  BY <1>10
<1>12. Rest(w) = n
  <2>1. Reach[w] \in Nat \ {0}
    BY <1>1
  <2>2. (0 * Reach[w] + n) \div Reach[w] = 0
    <3>1. n \in 0 .. Reach[w] - 1
      BY <2>1
    <3>2. QED
      BY <2>1, <3>1, Quotient
  <2>3. n \div Reach[w] = 0
    BY <2>1, <2>2
  <2>4. QED
    BY <2>1, <2>3
<1>13. FromBytes(bs) = Up(a, w)
  <2>1. a = [j \in 1 .. w |-> a[j]]
    BY <1>5
  <2>2. FromBytes(bs) = Total(a)
    BY Zenon DEF FromBytes
  <2> HIDE DEF a, bs
  <2>3. QED
    BY <2>1, <2>2, Zenon DEF Up
<1>14. QED
  BY <1>11, <1>12, <1>13

-----------------------------------------------------------------------------
(* Floats                                                                  *)

LEMMA AbsIs ==
  ASSUME NEW n \in Int
  PROVE  Abs(n) \in Nat /\ (n < 0 => Abs(n) = -n) /\ (~(n < 0) => Abs(n) = n)
BY DEF Abs

LEMMA Half ==
  ASSUME NEW a \in Nat \ {0}
  PROVE  a \div 2 \in Nat /\ a \div 2 < a /\ 2 * (a \div 2) <= a
OBVIOUS

LEMMA TimesLe ==
  ASSUME NEW p \in Nat, NEW x \in Int, NEW y \in Int, x <= y
  PROVE  p * x <= p * y
<1>1. p * (y - x) >= 0 /\ y - x \in Nat
  OBVIOUS
<1>2. p * (y - x) = p * y - p * x
  OBVIOUS
<1>3. QED
  BY <1>1, <1>2

\* What Ulp is, from its definition.
LEMMA UlpDef ==
  \A a \in Nat : Ulp[a] = IF a < Precision THEN 1 ELSE 2 * Ulp[a \div 2]
<1> DEFINE S == Nat
           V == Nat
           m == [k \in S |-> k]
           Body(g, k) == IF k < Precision THEN 1 ELSE 2 * g[k \div 2]
           G == [g \in [S -> V] |-> [k \in S |-> Body(g, k)]]
           Is(f) == f = [k \in Nat |-> Body(f, k)]
<1>0. Precision \in Nat \ {0}
  BY FloatsAssumption
<1>1. ASSUME NEW k \in S, ~(k < Precision)
      PROVE  k \div 2 \in S /\ m[k \div 2] < m[k]
  <2>1. k \in Nat \ {0}
    BY <1>0, <1>1
  <2>2. k \div 2 \in S /\ k \div 2 < k
    BY <2>1, Half
  <2>3. QED
    BY <2>2
<1>2. ASSUME NEW g \in [S -> V], NEW k \in S
      PROVE  Body(g, k) \in V
  <2>1. ~(k < Precision) => g[k \div 2] \in Nat
    BY <1>1
  <2>2. QED
    BY <2>1
<1>3. m \in [S -> Nat]
  OBVIOUS
<1>4. G \in [[S -> V] -> [S -> V]]
  <2> HIDE DEF Body, S, V
  <2> QED BY <1>2
<1>5. ASSUME NEW g \in [S -> V], NEW h \in [S -> V], NEW k \in S,
             \A j \in S : m[j] < m[k] => g[j] = h[j]
      PROVE  G[g][k] = G[h][k]
  <2>1. ~(k < Precision) => g[k \div 2] = h[k \div 2]
    <3> HIDE DEF S, m, V
    <3> QED BY <1>1, <1>5
  <2>2. Body(g, k) = Body(h, k)
    BY <2>1
  <2> HIDE DEF Body, S, V
  <2>3. QED
    BY <2>2
<1>6. Recursive(G, S, V, m)
  <2> HIDE DEF G, m, S, V
  <2> QED BY <1>3, <1>4, <1>5 DEF Recursive
<1>7. PICK f \in [S -> V] : f = G[f]
  <2>1. V # {}
    OBVIOUS
  <2> HIDE DEF G, m, S, V
  <2>2. QED
    BY <1>6, <2>1, RecursionTheorem
<1>8. Is(f)
  <2> HIDE DEF Body, V
  <2> QED BY <1>7
<1>9. Is(Ulp)
  <2>1. Ulp = CHOOSE g : Is(g)
    BY Zenon DEF Ulp
  <2> HIDE DEF Is
  <2>2. QED
    BY <1>8, <2>1
<1>10. \A a \in Nat : Ulp[a] = Body(Ulp, a)
  <2> HIDE DEF Body
  <2> QED BY <1>9
<1>11. QED
  BY <1>10

\* Floats are no further apart than Precision allows, and numbers below
\* Precision are floats.
LEMMA UlpIs ==
  ASSUME NEW a \in Nat
  PROVE  Ulp[a] \in Nat \ {0} /\ (Ulp[a] # 1 => Precision * Ulp[a] <= 2 * a)
<1> DEFINE Near(k) == Ulp[k] \in Nat \ {0} /\ (Ulp[k] # 1 => Precision * Ulp[k] <= 2 * k)
           T == {n \in Nat : \A k \in 0 .. n : Near(k)}
<1>0. Precision \in Nat \ {0}
  BY FloatsAssumption
<1>1. ASSUME NEW k \in Nat, k < Precision
      PROVE  Near(k)
  BY <1>1, UlpDef
<1>2. ASSUME NEW k \in Nat, ~(k < Precision), Near(k \div 2)
      PROVE  Near(k)
  <2> DEFINE h == k \div 2
             u == Ulp[h]
             w == Ulp[k]
  <2>1. w = 2 * u
    BY <1>2, UlpDef
  <2>2. h \in Nat /\ 2 * h <= k
    BY <1>0, <1>2, Half
  <2>3. u \in Nat \ {0} /\ (u # 1 => Precision * u <= 2 * h)
    BY <1>2
  <2> HIDE DEF h, u, w
  <2>4. Precision * w = 2 * (Precision * u)
    BY <1>0, <2>1, <2>3
  <2>5. CASE u = 1
    <3>1. Precision * u = Precision
      BY <1>0, <2>5
    <3>2. Precision * w <= 2 * k
      BY <1>0, <1>2, <2>4, <3>1
    <3>3. QED
      BY <2>1, <2>3, <3>2 DEF w
  <2>6. CASE u # 1
    <3> DEFINE x == Precision * u
    <3>1. x \in Int /\ x <= 2 * h
      BY <1>0, <2>3, <2>6
    <3> HIDE DEF x
    <3>2. 2 * x <= 2 * k
      BY <2>2, <3>1
    <3>3. Precision * w <= 2 * k
      BY <2>4, <3>2 DEF x
    <3>4. QED
      BY <2>1, <2>3, <3>3 DEF w
  <2>7. QED
    BY <2>5, <2>6
<1> HIDE DEF Near
<1>3. 0 \in T
  BY <1>0, <1>1
<1>4. ASSUME NEW n \in Nat, n \in T
      PROVE  n + 1 \in T
  <2>1. CASE n + 1 < Precision
    BY <1>1, <1>4, <2>1
  <2>2. CASE ~(n + 1 < Precision)
    <3>1. (n + 1) \div 2 \in 0 .. n
      BY Half
    <3>2. Near(n + 1)
      BY <1>2, <1>4, <2>2, <3>1
    <3>3. QED
      BY <1>4, <3>2
  <2>3. QED
    BY <2>1, <2>2
<1>5. Nat \subseteq T
  <2> HIDE DEF T
  <2> QED BY <1>3, <1>4, SetInduction
<1>6. Near(a)
  BY <1>5
<1>7. QED
  BY <1>6 DEF Near

\* (float) moves a number by less than Precision allows.
LEMMA RoundedIs ==
  ASSUME NEW n \in Int
  PROVE  Rounded(n) \in Int /\ Precision * Abs(Rounded(n) - n) <= Abs(n)
<1> DEFINE a == Abs(n)
           u == Ulp[a]
           q == a \div u
           r == a % u
           up == 2 * r > u \/ (2 * r = u /\ q % 2 = 1)
           x == u * (IF up THEN q + 1 ELSE q)
           d == Abs(x - a)
<1>0. Precision \in Nat \ {0}
  BY FloatsAssumption
<1>1. a \in Nat /\ u \in Nat \ {0} /\ (u # 1 => Precision * u <= 2 * a)
  BY AbsIs, UlpIs
<1>2. Rounded(n) = IF n < 0 THEN -x ELSE x
  BY DEF Rounded
<1> HIDE DEF a, u
<1>3. a = q * u + r /\ r \in 0 .. u - 1 /\ q \in Int
  <2>1. a \in Int /\ u \in Nat \ {0}
    BY <1>1
  <2>2. a = (a \div u) * u + (a % u) /\ a % u \in 0 .. u - 1 /\ a \div u \in Int
    BY <2>1, Parts, Zenon
  <2>3. QED
    BY <2>2, Zenon
<1>4. ~up => ~(2 * r > u)
  OBVIOUS
<1>5. up => 2 * r >= u
  <2>1. r \in Int /\ u \in Int
    BY <1>1, <1>3
  <2> HIDE DEF r, q
  <2>2. QED
    BY <2>1
<1>6. x = u * q \/ x = u * (q + 1)
  OBVIOUS
<1> HIDE DEF q, r
<1>7. x \in Int /\ (up => x = u * (q + 1)) /\ (~up => x = u * q)
  BY <1>1, <1>3
<1> HIDE DEF up, x
<1>8. (up => x - a = u - r) /\ (~up => x - a = -r)
  <2>1. u * q = q * u /\ u * (q + 1) = q * u + u /\ q * u \in Int
    BY <1>1, <1>3
  <2>2. QED
    BY <1>1, <1>3, <1>7, <2>1
<1>9. d \in Nat /\ 2 * d <= u /\ (u = 1 => d = 0)
  <2>1. CASE up
    <3>1. x - a = u - r /\ u - r \in Nat /\ 2 * r >= u
      BY <1>1, <1>3, <1>5, <1>8, <2>1
    <3>2. d = u - r
      BY <3>1 DEF Abs
    <3>3. QED
      BY <1>1, <1>3, <3>1, <3>2
  <2>2. CASE ~up
    <3>1. x - a = -r /\ r \in Nat /\ ~(2 * r > u)
      BY <1>1, <1>3, <1>4, <1>8, <2>2
    <3>2. d = r
      BY <3>1 DEF Abs
    <3>3. QED
      BY <1>1, <1>3, <3>1, <3>2
  <2>3. QED
    BY <2>1, <2>2
<1>10. Precision * d <= a
  <2> HIDE DEF d
  <2>1. CASE u = 1
    BY <1>0, <1>1, <1>9, <2>1
  <2>2. CASE u # 1
    <3>1. Precision * (2 * d) <= Precision * u
      BY <1>0, <1>1, <1>9, TimesLe
    <3>2. Precision * (2 * d) = 2 * (Precision * d)
      BY <1>0, <1>9
    <3> DEFINE y == Precision * d
               z == Precision * u
    <3>3. y \in Int /\ z \in Int /\ 2 * y <= z /\ z <= 2 * a
      BY <1>0, <1>1, <1>9, <2>2, <3>1, <3>2
    <3> HIDE DEF y, z
    <3>4. y <= a
      BY <1>1, <3>3
    <3>5. QED
      BY <3>4 DEF y
  <2>3. QED
    BY <2>1, <2>2
<1>11. Abs(Rounded(n) - n) = d
  <2>1. CASE n < 0
    <3>1. Rounded(n) - n = -(x - a) /\ x - a \in Int
      BY <1>1, <1>2, <1>7, <2>1, AbsIs DEF a
    <3>2. Abs(-(x - a)) = Abs(x - a)
      BY <3>1 DEF Abs
    <3>3. QED
      BY <3>1, <3>2
  <2>2. CASE ~(n < 0)
    BY <1>2, <2>2, AbsIs DEF a
  <2>3. QED
    BY <2>1, <2>2
<1>12. QED
  BY <1>2, <1>7, <1>10, <1>11 DEF a

\* What is read where n has been written as a float or a double.
LEMMA FloatBack ==
  ASSUME NEW n \in Packable, NEW w \in {4, 8}, w = 4 => Abs(n) <= LargestFloat
  PROVE  FromFloat(FloatBytes(n, w)) = <<IF w = 4 THEN Rounded(n) ELSE n>>
<1> DEFINE bytes == FloatBytes(n, w)
           written == IF w = 4 THEN Rounded(n) ELSE n
           Of(k) == IF w = 4 THEN Single[k] ELSE Double[k]
           ns == {k \in Readable(w) : bytes = Of(k)}
<1>1. bytes = Of(written)
  BY DEF FloatBytes
<1>2. Len(bytes) = w
  BY FloatsAssumption
<1>3. written \in Readable(w)
  BY DEF Readable
<1>4. \A k \in Readable(w) : Of(k) = Of(written) => k = written
  BY <1>3, FloatsAssumption
<1> HIDE DEF bytes, written
<1>5. ns = {written}
  <2> HIDE DEF Of
  <2> QED BY <1>1, <1>3, <1>4
<1>6. Meant(bytes) = ns
  <2>1. \A k : (bytes = IF Len(bytes) = 4 THEN Single[k] ELSE Double[k]) <=> (bytes = Of(k))
    BY <1>2
  <2> HIDE DEF Of
  <2>2. QED
    BY <1>2, <2>1 DEF Meant
<1> HIDE DEF ns
<1>7. (CHOOSE k \in Meant(bytes) : TRUE) = written
  <2>1. Meant(bytes) # {} /\ \A k \in Meant(bytes) : k = written
    BY <1>5, <1>6
  <2>2. QED
    BY <2>1
<1>8. FromFloat(bytes) = <<written>>
  BY <1>5, <1>6, <1>7 DEF FromFloat
<1>9. QED
  BY <1>8 DEF bytes, written

-----------------------------------------------------------------------------
(* Formats and their items                                                 *)

LEMMA ItemsAre ==
  ASSUME NEW f, Len(f) \in Nat
  PROVE  \E C : Items(f) \in Seq([c : C, n : Nat])
<1> DEFINE len == Len(f)
           C == {f[k] : k \in 1 .. len}
           R == [c : C, n : Nat]
           V == [items : Seq(R), rest : Nat]
           base == [items |-> <<>>, rest |-> 0]
           F == [k \in 1 .. len |-> [acc \in V |-> Parse(acc, f[k])]]
           Is(g) == g = [k \in 0 .. len |-> IF k = 0 THEN base ELSE Parse(g[k - 1], f[k])]
           upTo == CHOOSE g : Is(g)
<1>1. base \in V
  BY EmptySeq
<1>2. ASSUME NEW acc \in V, NEW k \in 1 .. len
      PROVE  Parse(acc, f[k]) \in V
  <2>1. acc.items \in Seq(R) /\ acc.rest \in Nat
    OBVIOUS
  <2>2. CASE f[k] \in DOMAIN Digit
    <3>1. Digit[f[k]] \in Nat
      BY <2>2 DEF Digit
    <3>2. Parse(acc, f[k]) = [acc EXCEPT !.rest = @ * 10 + Digit[f[k]]]
      BY <2>2 DEF Parse
    <3>3. acc.rest * 10 + Digit[f[k]] \in Nat
      BY <2>1, <3>1
    <3> HIDE DEF R
    <3>4. QED
      BY <3>2, <3>3
  <2>3. CASE f[k] \notin DOMAIN Digit
    <3>1. [c |-> f[k], n |-> acc.rest] \in R
      BY <2>1
    <3> HIDE DEF R
    <3>2. Append(acc.items, [c |-> f[k], n |-> acc.rest]) \in Seq(R)
      BY <2>1, <3>1, AppendProperties
    <3>3. QED
      BY <2>3, <3>2 DEF Parse
  <2>4. QED
    BY <2>2, <2>3
<1>3. Steps(F, len, V)
  <2>1. F \in [1 .. len -> [V -> V]]
    <3> HIDE DEF V
    <3> QED BY <1>2
  <2>2. QED
    BY <2>1 DEF Steps
<1> HIDE DEF V, base
<1>4. PICK g \in [0 .. len -> V] : Iterates(g, F, base, len)
  <2> HIDE DEF F, len
  <2> QED BY <1>1, <1>3, IterationExists
<1>5. g[0] = base /\ \A k \in 1 .. len : g[k] = F[k][g[k - 1]]
  BY <1>4, Zenon DEF Iterates
<1>6. \A k \in 1 .. len : g[k - 1] \in V
  BY <1>4
<1>7. \A k \in 1 .. len : g[k] = Parse(g[k - 1], f[k])
  BY <1>5, <1>6
<1>8. Is(g)
  <2>1. \A k \in 0 .. len : g[k] = IF k = 0 THEN base ELSE Parse(g[k - 1], f[k])
    BY <1>5, <1>7
  <2> HIDE DEF F, len
  <2>2. QED
    BY <1>4, <2>1
<1>9. Is(upTo)
  <2> HIDE DEF Is
  <2> QED BY <1>8
<1>10. Parsed(f) = upTo[len]
  BY Zenon DEF Parsed, base
<1> HIDE DEF upTo
<1>11. upTo[0] = base /\ \A k \in 1 .. len : upTo[k] = Parse(upTo[k - 1], f[k])
  BY <1>9
<1> DEFINE T == {k \in Nat : k <= len => upTo[k] \in V}
<1>12. 0 \in T
  BY <1>1, <1>11
<1>13. ASSUME NEW k \in Nat, k \in T
       PROVE  k + 1 \in T
  <2> SUFFICES ASSUME k + 1 <= len
               PROVE  upTo[k + 1] \in V
    OBVIOUS
  <2>1. k + 1 \in 1 .. len /\ (k + 1) - 1 = k /\ upTo[k] \in V
    BY <1>13
  <2>2. upTo[k + 1] = Parse(upTo[k], f[k + 1])
    BY <1>11, <2>1
  <2>3. QED
    BY <1>2, <2>1, <2>2
<1>14. Nat \subseteq T
  <2> HIDE DEF T
  <2> QED BY <1>12, <1>13, SetInduction
<1>15. upTo[len] \in V
  BY <1>14
<1>16. Items(f) \in Seq(R)
  BY <1>10, <1>15 DEF Items, V
<1>17. QED
  BY <1>16

\* A letter that blobFmtCalc has let pass, with its number.
Item(item) ==
  /\ item.c \in Letters
  /\ item.n \in Nat
  /\ item.c \in Texts => item.n # 0

Size(item) == Times(item) * Width(item.c)

LEMMA ItemIs ==
  ASSUME NEW item, Item(item)
  PROVE  /\ Times(item) \in Nat \ {0}
         /\ Width(item.c) \in {1, 2, 4, 8}
         /\ Taken(item) \in Nat /\ Size(item) \in Nat
         /\ item.c = "x" => /\ Taken(item) = 0 /\ Width(item.c) = 1
                            /\ item.c \notin Integral \cup Floating \cup Texts
         /\ item.c \in Texts => /\ Taken(item) = 1 /\ Width(item.c) = 1
                                /\ Times(item) = item.n /\ item.c # "x"
         /\ item.c \in Integral \cup Floating => /\ Taken(item) = Times(item)
                                                 /\ item.c # "x" /\ item.c \notin Texts
         /\ item.c \in Integral => item.c \notin Floating
         /\ item.c = "x" \/ item.c \in Texts \/ item.c \in Integral \/ item.c \in Floating
<1> DEFINE c == item.c
<1>1. Times(item) \in Nat \ {0}
  BY DEF Item, Times
<1>2. c = "x" \/ c \in Texts \/ c \in Integral \/ c \in Floating
  BY DEF Item, Letters
<1>3. c = "x" => c \notin Integral \cup Floating \cup Texts
  BY DEF Integral, Floating, Texts
<1>4. c \in Integral => c \notin Floating /\ c \notin Texts /\ c # "x"
  BY DEF Integral, Floating, Texts
<1>5. c \in Floating => c \notin Texts /\ c # "x"
  BY DEF Floating, Texts
<1>6. Width(c) \in {1, 2, 4, 8}
  BY DEF Width
<1>7. c \in Texts => c # "x" /\ c \notin {"h", "H"} /\ c \notin {"i", "I", "f"} /\ c # "d"
  BY DEF Texts
<1>8. c = "x" \/ c \in Texts => Width(c) = 1
  BY <1>7 DEF Width
<1>9. c \in Texts => Times(item) = item.n
  BY DEF Item, Times
<1>10. /\ c = "x" => Taken(item) = 0
       /\ c \in Texts => Taken(item) = 1
       /\ c \in Integral \cup Floating => Taken(item) = Times(item)
  BY <1>3, <1>4, <1>5, <1>7 DEF Taken
<1>11. Taken(item) \in Nat
  BY <1>1 DEF Taken
<1>12. Size(item) \in Nat
  BY <1>1, <1>6 DEF Size
<1> HIDE DEF c
<1>13. QED
  BY <1>1, <1>2, <1>3, <1>4, <1>5, <1>6, <1>7, <1>8, <1>9, <1>10, <1>11, <1>12 DEF c

LEMMA FittedIs ==
  ASSUME NEW v \in Seq(Int), NEW n \in Nat
  PROVE  /\ Fitted(v, n) \in Seq(Int) /\ Len(Fitted(v, n)) = n
         /\ \A j \in 1 .. n : Fitted(v, n)[j] = IF j <= Len(v) THEN v[j] ELSE 0
<1> DEFINE z == Zeros(n)
           u == v \o z
<1>1. z \in Seq(Int) /\ Len(z) = n /\ Len(v) \in Nat
  <2>1. z \in [1 .. n -> Int]
    BY DEF Zeros
  <2> HIDE DEF z
  <2>2. QED
    BY <2>1, FunctionIsSeq, LenProperties
<1>2. \A j \in 1 .. n : z[j] = 0
  BY DEF Zeros
<1> HIDE DEF z
<1>3. /\ u \in Seq(Int) /\ Len(u) = Len(v) + n
      /\ \A j \in 1 .. Len(v) + n : u[j] = IF j <= Len(v) THEN v[j] ELSE z[j - Len(v)]
  BY <1>1, ConcatProperties
<1>4. \A j \in 1 .. n : u[j] = IF j <= Len(v) THEN v[j] ELSE 0
  <2> SUFFICES ASSUME NEW j \in 1 .. n
               PROVE  u[j] = IF j <= Len(v) THEN v[j] ELSE 0
    OBVIOUS
  <2>1. j \in 1 .. Len(v) + n
    BY <1>1
  <2>2. ~(j <= Len(v)) => j - Len(v) \in 1 .. n
    BY <1>1
  <2> HIDE DEF u
  <2>3. QED
    BY <1>2, <1>3, <2>1, <2>2
<1>5. \A j \in 1 .. n : u[j] \in Int
  <2>1. \A j \in 1 .. n : j \in 1 .. Len(u)
    BY <1>1, <1>3
  <2> HIDE DEF u
  <2>2. QED
    BY <1>3, <2>1, ElementOfSeq
<1> HIDE DEF u
<1>6. /\ SubSeq(u, 1, n) \in Seq(Int)
      /\ Len(SubSeq(u, 1, n)) = IF 1 <= n THEN n - 1 + 1 ELSE 0
      /\ \A i \in 1 .. n - 1 + 1 : SubSeq(u, 1, n)[i] = u[1 + i - 1]
  BY <1>5, SubSeqProperties
<1>7. Fitted(v, n) = SubSeq(u, 1, n)
  BY DEF Fitted, u, z
<1>8. \A j \in 1 .. n : j \in 1 .. n - 1 + 1 /\ 1 + j - 1 = j
  OBVIOUS
<1>9. Len(SubSeq(u, 1, n)) = n
  BY <1>6
<1>10. \A j \in 1 .. n : SubSeq(u, 1, n)[j] = u[j]
  BY <1>6, <1>8
<1>11. QED
  BY <1>4, <1>6, <1>7, <1>9, <1>10

\* The characters of a string come back up to its end or to the size.
LEMMA CharsBack ==
  ASSUME NEW v \in Seq(Int), \A j \in 1 .. Len(v) : v[j] # 0, NEW n \in Nat
  PROVE  Chars(Fitted(v, n)) = SubSeq(v, 1, IF Len(v) < n THEN Len(v) ELSE n)
<1> DEFINE bs == Fitted(v, n)
           len == IF Len(v) < n THEN Len(v) ELSE n
           ends == {k \in DOMAIN bs : bs[k] = 0}
           s == SubSeq(v, 1, len)
<1>1. /\ bs \in Seq(Int) /\ Len(bs) = n
      /\ \A j \in 1 .. n : bs[j] = IF j <= Len(v) THEN v[j] ELSE 0
  BY FittedIs
<1>2. DOMAIN bs = 1 .. n /\ Len(v) \in Nat /\ len \in Nat /\ len <= n /\ len <= Len(v)
  BY <1>1, LenProperties
<1> HIDE DEF bs
<1>3. \A k : k \in ends <=> k \in 1 .. n /\ Len(v) < k
  BY <1>1, <1>2
<1>4. \A i \in 1 .. len : v[i] \in Int
  <2>1. \A i \in 1 .. len : i \in 1 .. Len(v)
    BY <1>2
  <2>2. QED
    BY <2>1, ElementOfSeq
<1>5. /\ s \in Seq(Int) /\ Len(s) = len
      /\ \A i \in 1 .. len : s[i] = v[i]
  <2> HIDE DEF len
  <2>1. /\ s \in Seq(Int)
        /\ Len(s) = IF 1 <= len THEN len - 1 + 1 ELSE 0
        /\ \A i \in 1 .. len - 1 + 1 : s[i] = v[1 + i - 1]
    BY <1>2, <1>4, SubSeqProperties
  <2>2. \A i \in 1 .. len : i \in 1 .. len - 1 + 1 /\ 1 + i - 1 = i
    BY <1>2
  <2> HIDE DEF s
  <2>3. QED
    BY <1>2, <2>1, <2>2
<1>6. CASE n <= Len(v)
  <2>1. ends = {} /\ len = n
    BY <1>2, <1>3, <1>6
  <2>2. \A i \in 1 .. n : bs[i] = s[i]
    BY <1>1, <1>2, <1>5, <1>6, <2>1
  <2>3. bs = s
    <3> HIDE DEF s, len
    <3> QED BY <1>1, <1>5, <2>1, <2>2, SeqEqual
  <2>4. Chars(bs) = bs
    BY <2>1 DEF Chars
  <2>5. QED
    BY <2>3, <2>4 DEF bs
<1>7. CASE Len(v) < n
  <2> DEFINE least == CHOOSE k \in ends : \A j \in ends : k <= j
  <2>1. len = Len(v) /\ Len(v) + 1 \in ends
    BY <1>2, <1>3, <1>7
  <2>2. \A k \in ends : k \in Int /\ Len(v) + 1 <= k
    BY <1>2, <1>3
  <2>3. least \in ends /\ \A j \in ends : least <= j
    <3>1. \E k \in ends : \A j \in ends : k <= j
      BY <2>1, <2>2
    <3> HIDE DEF ends
    <3>2. QED
      BY <3>1
  <2> HIDE DEF least, ends
  <2>4. least = Len(v) + 1
    BY <1>2, <2>1, <2>2, <2>3
  <2>5. Chars(bs) = SubSeq(bs, 1, least - 1)
    <3>1. ends # {}
      BY <2>1
    <3>2. QED
      BY <3>1, Zenon DEF Chars, ends, least
  <2>6. least - 1 = len
    BY <1>2, <2>1, <2>4
  <2>7. \A i \in 1 .. len : bs[i] = v[i] /\ bs[i] \in Int
    BY <1>1, <1>2, <1>4, <2>1
  <2> DEFINE r == SubSeq(bs, 1, len)
  <2> HIDE DEF len
  <2>8. /\ r \in Seq(Int)
        /\ Len(r) = IF 1 <= len THEN len - 1 + 1 ELSE 0
        /\ \A i \in 1 .. len - 1 + 1 : r[i] = bs[1 + i - 1]
    BY <1>2, <2>7, SubSeqProperties
  <2>9. \A i \in 1 .. len : i \in 1 .. len - 1 + 1 /\ 1 + i - 1 = i
    BY <1>2
  <2> HIDE DEF r, s
  <2>10. Len(r) = len /\ \A i \in 1 .. len : r[i] = s[i]
    <3>1. Len(r) = len
      BY <1>2, <2>8
    <3>2. \A i \in 1 .. len : r[i] = bs[i]
      BY <2>8, <2>9
    <3>3. \A i \in 1 .. len : bs[i] = s[i]
      BY <1>5, <2>7
    <3>4. QED
      BY <3>1, <3>2, <3>3
  <2>11. r = s
    BY <1>5, <2>8, <2>10, SeqEqual
  <2>12. QED
    BY <2>5, <2>6, <2>11 DEF r, s, len, bs
<1>8. QED
  BY <1>2, <1>6, <1>7

-----------------------------------------------------------------------------
(* The bytes of an item                                                    *)

\* e is block k of the bytes p, in blocks of w.
BlockOf(p, k, w, e) == \A j \in 1 .. w : p[(k - 1) * w + j] = e[j]

\* flat has the m blocks bs, of one length w, one after the other.
Blocks(S, m, w, bs, flat) ==
  /\ flat \in Seq(S) /\ Len(flat) = m * w
  /\ \A k \in 1 .. m : BlockOf(flat, k, w, bs[k])

LEMMA BlocksIs ==
  ASSUME NEW S, NEW m \in Nat, NEW w \in Nat, NEW bs \in [1 .. m -> Seq(S)],
         \A k \in 1 .. m : Len(bs[k]) = w
  PROVE  Blocks(S, m, w, bs, FlattenSeq(bs))
<1> DEFINE lens == [k \in 1 .. m |-> Len(bs[k])]
           flat == FlattenSeq(bs)
<1>1. /\ flat \in Seq(S)
      /\ Len(flat) = Up(lens, m)
      /\ \A k \in 1 .. m : \A j \in 1 .. w : flat[Up(lens, k - 1) + j] = bs[k][j]
  <2>1. \A k \in 1 .. m : lens[k] = Len(bs[k]) /\ lens[k] = w
    OBVIOUS
  <2> HIDE DEF lens
  <2>2. Joined(S, m, bs, lens, flat)
    BY <2>1, FlattenIs
  <2>3. QED
    BY <2>1, <2>2 DEF Joined
<1>2. \A k \in 1 .. m : lens[k] = w
  OBVIOUS
<1> HIDE DEF lens, flat
<1>3. \A k \in 0 .. m : Up(lens, k) = k * w
  BY <1>2, UpTimes
<1>4. \A k \in 1 .. m : Up(lens, k - 1) = (k - 1) * w
  <2>1. \A k \in 1 .. m : k - 1 \in 0 .. m
    OBVIOUS
  <2>2. QED
    BY <1>3, <2>1
<1>5. Len(flat) = m * w
  BY <1>1, <1>3
<1>6. ASSUME NEW k \in 1 .. m, NEW j \in 1 .. w
      PROVE  flat[(k - 1) * w + j] = bs[k][j]
  <2>1. flat[Up(lens, k - 1) + j] = bs[k][j]
    BY <1>1
  <2>2. Up(lens, k - 1) = (k - 1) * w
    BY <1>4
  <2>3. QED
    BY <2>1, <2>2
<1>7. QED
  BY <1>1, <1>5, <1>6 DEF flat, Blocks, BlockOf

\* What TLC checks of the operands, of one of them.
Proper(v) ==
  /\ v.t = "number" => Len(v.v) = 1 /\ v.v[1] \in Packable
  /\ v.t = "string" => \A j \in DOMAIN v.v : v.v[j] # 0

\* us are the values an item takes.
Suits(item, us) ==
  /\ us \in Seq(Operand) /\ Len(us) = Taken(item)
  /\ \A j \in 1 .. Len(us) : us[j].t = TypeOf(item.c) /\ Proper(us[j])

LEMMA NumbersAre ==
  ASSUME NEW item, Item(item), item.c \in Integral \cup Floating, NEW us, Suits(item, us),
         NEW j \in 1 .. Taken(item)
  PROVE  us[j].v[1] \in Packable /\ us[j].v[1] \in Int /\ us[j] = Value("number", <<us[j].v[1]>>)
<1>1. us[j] \in Operand /\ us[j].t = TypeOf(item.c) /\ Proper(us[j])
  <2>1. us \in Seq(Operand) /\ j \in 1 .. Len(us)
    BY DEF Suits
  <2>2. us[j] \in Operand
    BY <2>1, ElementOfSeq
  <2>3. QED
    BY <2>1, <2>2 DEF Suits
<1>2. TypeOf(item.c) = "number"
  <2>1. item.c # "s" /\ item.c # "S"
    BY DEF Integral, Floating
  <2>2. QED
    BY <2>1 DEF TypeOf
<1> DEFINE v == us[j].v
<1>3. us[j] = [t |-> "number", v |-> v] /\ v \in Seq(Int) /\ Len(v) = 1 /\ v[1] \in Packable
  BY <1>1, <1>2 DEF Operand, Proper
<1> HIDE DEF v
<1>4. v[1] \in Int
  <2>1. 1 \in 1 .. Len(v)
    BY <1>3
  <2>2. QED
    BY <1>3, <2>1, ElementOfSeq
<1>5. v = <<v[1]>>
  <2>1. <<v[1]>> \in Seq(Int) /\ Len(<<v[1]>>) = 1 /\ <<v[1]>>[1] = v[1]
    BY <1>4
  <2>2. \A i \in 1 .. 1 : v[i] = <<v[1]>>[i]
    BY <2>1
  <2>3. QED
    BY <1>3, <2>1, <2>2, SeqEqual
<1>6. QED
  BY <1>3, <1>4, <1>5 DEF v, Value

LEMMA BytesAre ==
  ASSUME NEW n \in Int, NEW w \in Nat
  PROVE  IntBytes(n, w) \in Seq(Int) /\ Len(IntBytes(n, w)) = w
<1> DEFINE f == IntBytes(n, w)
<1>1. Byte \in Nat \ {0}
  BY BlobsAssumption
<1>2. \A j \in 1 .. w : (n \div Reach[j - 1]) % Byte \in Int
  <2> SUFFICES ASSUME NEW j \in 1 .. w
               PROVE  (n \div Reach[j - 1]) % Byte \in Int
    OBVIOUS
  <2> DEFINE r == Reach[j - 1]
             q == n \div r
  <2>1. r \in Nat \ {0}
    BY ReachIs
  <2> HIDE DEF r
  <2>2. q \in Int
    BY <2>1, Parts
  <2> HIDE DEF q
  <2>3. q % Byte \in 0 .. Byte - 1
    BY <1>1, <2>2, Parts
  <2>4. q % Byte \in Int
    BY <1>1, <2>3
  <2>5. QED
    BY <2>4 DEF q, r
<1>3. f \in [1 .. w -> Int]
  BY <1>1, <1>2 DEF IntBytes
<1> HIDE DEF f
<1>4. f \in Seq(Int) /\ Len(f) = w
  BY <1>3, FunctionIsSeq
<1>5. QED
  BY <1>4 DEF f

LEMMA FloatBytesAre ==
  ASSUME NEW n \in Packable, NEW w \in {4, 8}
  PROVE  FloatBytes(n, w) \in Seq(Int) /\ Len(FloatBytes(n, w)) = w
<1> DEFINE f == FloatBytes(n, w)
           D == 0 .. Byte - 1
<1>1. f \in Seq(D) /\ Len(f) = w
  BY FloatsAssumption
<1>2. D \subseteq Int
  BY BlobsAssumption
<1> HIDE DEF f, D
<1>3. DOMAIN f = 1 .. w /\ \A j \in 1 .. w : f[j] \in D
  BY <1>1, LenProperties, ElementOfSeq
<1>4. f = [j \in 1 .. w |-> f[j]]
  BY <1>1, <1>3, LenProperties
<1>5. f \in [1 .. w -> Int]
  BY <1>2, <1>3, <1>4
<1>6. f \in Seq(Int)
  BY <1>5, FunctionIsSeq
<1>7. QED
  BY <1>1, <1>6 DEF f

LEMMA FloatingIs ==
  ASSUME NEW c \in Floating
  PROVE  Width(c) \in {4, 8} /\ (Width(c) = 4 <=> c = "f")
BY DEF Floating, Width

LEMMA PackedIs ==
  ASSUME NEW item, Item(item), NEW us, Suits(item, us)
  PROVE  LET w == Width(item.c)
         IN  /\ Packed(item, us) \in Seq(Int)
             /\ Len(Packed(item, us)) = Size(item)
             /\ item.c \in Texts => /\ us[1].v \in Seq(Int)
                                    /\ Packed(item, us) = Fitted(us[1].v, Times(item))
             /\ item.c \in Integral =>
                  \A k \in 1 .. Times(item) :
                    BlockOf(Packed(item, us), k, w, IntBytes(us[k].v[1], w))
             /\ item.c \in Floating =>
                  \A k \in 1 .. Times(item) :
                    BlockOf(Packed(item, us), k, w, FloatBytes(us[k].v[1], w))
<1> DEFINE c == item.c
           w == Width(c)
           m == Times(item)
           ints == [k \in DOMAIN us |-> IntBytes(us[k].v[1], w)]
           floats == [k \in DOMAIN us |-> FloatBytes(us[k].v[1], w)]
<1>1. /\ m \in Nat \ {0} /\ w \in Nat \ {0} /\ Taken(item) \in Nat
      /\ Size(item) = m * w
      /\ c = "x" => w = 1 /\ c \notin Integral \cup Floating \cup Texts
      /\ c \in Texts => Taken(item) = 1 /\ w = 1 /\ c # "x"
      /\ c \in Integral \cup Floating => Taken(item) = m /\ c # "x" /\ c \notin Texts
      /\ c \in Integral => c \notin Floating
      /\ c = "x" \/ c \in Texts \/ c \in Integral \/ c \in Floating
  <2>1. w \in {1, 2, 4, 8} => w \in Nat \ {0}
    OBVIOUS
  <2> HIDE DEF w, c, m
  <2>2. QED
    BY <2>1, ItemIs DEF Size, w, c, m
<1>2. us \in Seq(Operand) /\ Len(us) = Taken(item) /\ DOMAIN us = 1 .. Taken(item)
  BY LenProperties DEF Suits
<1> HIDE DEF w, m, c
<1>3. CASE c = "x"
  <2>1. Packed(item, us) = Zeros(m)
    <3>1. c \notin Texts /\ c \notin Integral /\ c \notin Floating
      BY <1>1, <1>3
    <3>2. QED
      BY <1>3, <3>1 DEF Packed, c, m
  <2>2. Zeros(m) \in [1 .. m -> Int]
    BY DEF Zeros
  <2>3. Zeros(m) \in Seq(Int) /\ Len(Zeros(m)) = m
    BY <1>1, <2>2, FunctionIsSeq
  <2>4. m * w = m
    BY <1>1, <1>3
  <2>5. QED
    BY <1>1, <1>3, <2>1, <2>3, <2>4 DEF c
<1>4. CASE c \in Texts
  <2>1. us[1].v \in Seq(Int)
    <3>1. us[1] \in Operand
      BY <1>1, <1>2, <1>4, ElementOfSeq
    <3>2. QED
      BY <3>1 DEF Operand
  <2>2. Packed(item, us) = Fitted(us[1].v, m)
    BY <1>1, <1>4 DEF Packed, c, m
  <2>3. Packed(item, us) \in Seq(Int) /\ Len(Packed(item, us)) = m
    BY <1>1, <2>1, <2>2, FittedIs
  <2>4. m * w = m
    BY <1>1, <1>4
  <2>5. c \notin Integral /\ c \notin Floating
    BY <1>1, <1>4
  <2>6. QED
    BY <1>1, <2>1, <2>2, <2>3, <2>4, <2>5 DEF c, m
<1>5. CASE c \in Integral
  <2>1. Packed(item, us) = FlattenSeq(ints)
    BY <1>1, <1>5 DEF Packed, c, w
  <2>2. \A k \in 1 .. m : ints[k] = IntBytes(us[k].v[1], w)
    BY <1>1, <1>2, <1>5
  <2>3. \A k \in 1 .. m : ints[k] \in Seq(Int) /\ Len(ints[k]) = w
    <3> SUFFICES ASSUME NEW k \in 1 .. m
                 PROVE  ints[k] \in Seq(Int) /\ Len(ints[k]) = w
      OBVIOUS
    <3> DEFINE n == us[k].v[1]
    <3>1. n \in Int
      BY <1>1, <1>5, NumbersAre DEF c
    <3> HIDE DEF n
    <3>2. QED
      BY <1>1, <2>2, <3>1, BytesAre DEF n
  <2>4. ints \in [1 .. m -> Seq(Int)]
    <3>1. DOMAIN us = 1 .. m
      BY <1>1, <1>2, <1>5
    <3>2. ints = [k \in 1 .. m |-> ints[k]]
      BY <3>1
    <3> HIDE DEF ints
    <3>3. QED
      BY <2>3, <3>2
  <2> HIDE DEF ints
  <2>5. Blocks(Int, m, w, ints, FlattenSeq(ints))
    <3> DEFINE V == Int
    <3>1. ints \in [1 .. m -> Seq(V)]
      BY <2>4
    <3> HIDE DEF V
    <3>2. Blocks(V, m, w, ints, FlattenSeq(ints))
      BY <1>1, <2>3, <3>1, BlocksIs
    <3>3. QED
      BY <3>2 DEF V
  <2>6. /\ FlattenSeq(ints) \in Seq(Int) /\ Len(FlattenSeq(ints)) = m * w
        /\ \A k \in 1 .. m : BlockOf(FlattenSeq(ints), k, w, IntBytes(us[k].v[1], w))
    BY <2>2, <2>5 DEF Blocks
  <2>7. QED
    BY <1>1, <1>5, <2>1, <2>6 DEF c, m, w
<1>6. CASE c \in Floating
  <2>0. c \notin Integral
    BY <1>1, <1>6
  <2>1. Packed(item, us) = FlattenSeq(floats)
    BY <1>1, <1>6, <2>0 DEF Packed, c, w
  <2>2. \A k \in 1 .. m : floats[k] = FloatBytes(us[k].v[1], w)
    BY <1>1, <1>2, <1>6
  <2>3. \A k \in 1 .. m : floats[k] \in Seq(Int) /\ Len(floats[k]) = w
    <3> SUFFICES ASSUME NEW k \in 1 .. m
                 PROVE  floats[k] \in Seq(Int) /\ Len(floats[k]) = w
      OBVIOUS
    <3> DEFINE n == us[k].v[1]
    <3>1. n \in Packable
      BY <1>1, <1>6, NumbersAre DEF c
    <3>2. w \in {4, 8}
      BY <1>6, FloatingIs DEF w
    <3> HIDE DEF n
    <3>3. QED
      BY <2>2, <3>1, <3>2, FloatBytesAre DEF n
  <2>4. floats \in [1 .. m -> Seq(Int)]
    <3>1. DOMAIN us = 1 .. m
      BY <1>1, <1>2, <1>6
    <3>2. floats = [k \in 1 .. m |-> floats[k]]
      BY <3>1
    <3> HIDE DEF floats
    <3>3. QED
      BY <2>3, <3>2
  <2> HIDE DEF floats
  <2>5. Blocks(Int, m, w, floats, FlattenSeq(floats))
    <3> DEFINE V == Int
    <3>1. floats \in [1 .. m -> Seq(V)]
      BY <2>4
    <3> HIDE DEF V
    <3>2. Blocks(V, m, w, floats, FlattenSeq(floats))
      BY <1>1, <2>3, <3>1, BlocksIs
    <3>3. QED
      BY <3>2 DEF V
  <2>6. /\ FlattenSeq(floats) \in Seq(Int) /\ Len(FlattenSeq(floats)) = m * w
        /\ \A k \in 1 .. m : BlockOf(FlattenSeq(floats), k, w, FloatBytes(us[k].v[1], w))
    BY <2>2, <2>5 DEF Blocks
  <2>7. QED
    BY <1>1, <1>6, <2>0, <2>1, <2>6 DEF c, m, w
<1>7. QED
  BY <1>1, <1>3, <1>4, <1>5, <1>6

-----------------------------------------------------------------------------
(* The values of an item                                                   *)

LEMMA SliceIs ==
  ASSUME NEW data \in Seq(Int), NEW from \in Nat, NEW e \in Seq(Int), NEW to \in Int,
         to = from + Len(e), to <= Len(data), \A j \in 1 .. Len(e) : data[from + j] = e[j]
  PROVE  SubSeq(data, from + 1, to) = e
<1> DEFINE m == from + 1
           s == SubSeq(data, m, to)
<1>1. Len(e) \in Nat /\ Len(data) \in Nat /\ m \in Int
  BY LenProperties
<1>2. \A i \in m .. to : data[i] \in Int
  <2>1. \A i \in m .. to : i \in 1 .. Len(data)
    BY <1>1
  <2>2. QED
    BY <2>1, ElementOfSeq
<1> HIDE DEF m
<1>3. /\ s \in Seq(Int)
      /\ Len(s) = IF m <= to THEN to - m + 1 ELSE 0
      /\ \A i \in 1 .. to - m + 1 : s[i] = data[m + i - 1]
  BY <1>1, <1>2, SubSeqProperties
<1> HIDE DEF s
<1>4. to - m + 1 = Len(e) /\ Len(s) = Len(e)
  BY <1>1, <1>3 DEF m
<1>5. \A i \in 1 .. Len(e) : s[i] = e[i]
  <2>1. \A i \in 1 .. Len(e) : m + i - 1 = from + i
    BY <1>1 DEF m
  <2>2. QED
    BY <1>3, <1>4, <2>1
<1>6. s = e
  BY <1>3, <1>4, <1>5, SeqEqual
<1>7. QED
  BY <1>6 DEF s, m

\* The m blocks of w bytes of p are in data from head on.
Within(data, head, m, w, p) ==
  head + m * w <= Len(data) /\ \A j \in 1 .. m * w : data[head + j] = p[j]

\* What blobdec reads as block k.
Slice(data, head, k, w) == SubSeq(data, head + (k - 1) * w + 1, head + ((k - 1) + 1) * w)

LEMMA BlockAt ==
  ASSUME NEW data \in Seq(Int), NEW head \in Nat, NEW m \in Nat, NEW w \in Nat,
         NEW p, Within(data, head, m, w, p),
         NEW k \in 1 .. m, NEW e \in Seq(Int), Len(e) = w, BlockOf(p, k, w, e)
  PROVE  Slice(data, head, k, w) = e
<1> DEFINE b == (k - 1) * w
           from == head + b
           to == head + ((k - 1) + 1) * w
<1>1. b \in Nat /\ ((k - 1) + 1) * w = b + w /\ b + w <= m * w /\ m * w \in Nat
  <2>1. k \in Nat /\ k - 1 \in Nat /\ k <= m
    OBVIOUS
  <2>2. b \in Nat
    BY <2>1
  <2>3. ((k - 1) + 1) * w = b + w
    BY <2>1
  <2>4. ((k - 1) + 1) * w = k * w /\ k * w <= m * w /\ m * w \in Nat
    BY <2>1
  <2>5. QED
    BY <2>2, <2>3, <2>4
<1> HIDE DEF b
<1>2. from \in Nat /\ to \in Int /\ to = from + w /\ to <= Len(data)
  <2>1. Len(data) \in Nat /\ head + m * w <= Len(data)
    BY LenProperties DEF Within
  <2>2. QED
    BY <1>1, <2>1
<1>3. \A j \in 1 .. w : data[from + j] = e[j]
  <2> SUFFICES ASSUME NEW j \in 1 .. w
               PROVE  data[from + j] = e[j]
    OBVIOUS
  <2>1. b + j \in 1 .. m * w /\ head + (b + j) = from + j
    BY <1>1
  <2>2. data[head + (b + j)] = p[b + j]
    BY <2>1 DEF Within
  <2>3. p[b + j] = e[j]
    BY DEF b, BlockOf
  <2>4. QED
    BY <2>1, <2>2, <2>3
<1> HIDE DEF to, from
<1>4. SubSeq(data, from + 1, to) = e
  BY <1>2, <1>3, SliceIs
<1>5. QED
  BY <1>4 DEF from, to, b, Slice

\* What blobdec reads where blobenc has put the bytes of an item.
LEMMA UnpackedIs ==
  ASSUME NEW item, Item(item), NEW us, Suits(item, us), InRange(item, us),
         NEW data \in Seq(Int), NEW head \in Nat, head + Size(item) <= Len(data),
         \A j \in 1 .. Size(item) : data[head + j] = Packed(item, us)[j]
  PROVE  \A j \in 1 .. Taken(item) : Restores(item, us[j], Unpacked(item, head, data)[j])
<1> DEFINE c == item.c
           n == Times(item)
           w == Width(c)
           p == Packed(item, us)
           bytes == SubSeq(data, head + 1, head + n)
           at(k) == Slice(data, head, k, w)
           read == Unpacked(item, head, data)
<1>1. /\ n \in Nat \ {0} /\ w \in Nat \ {0}
      /\ Size(item) = n * w
      /\ c = "x" => Taken(item) = 0
      /\ c \in Texts => Taken(item) = 1 /\ w = 1 /\ c # "x" /\ n = item.n
      /\ c \in Integral \cup Floating => Taken(item) = n /\ c # "x" /\ c \notin Texts
      /\ c \in Integral => c \notin Floating
      /\ c = "x" \/ c \in Texts \/ c \in Integral \/ c \in Floating
  <2>1. w \in {1, 2, 4, 8} => w \in Nat \ {0}
    OBVIOUS
  <2> HIDE DEF w, c, n
  <2>2. QED
    BY <2>1, ItemIs DEF Size, w, c, n
<1>2. /\ p \in Seq(Int) /\ Len(p) = n * w
      /\ c \in Texts => us[1].v \in Seq(Int) /\ p = Fitted(us[1].v, n)
      /\ c \in Integral => \A k \in 1 .. n : BlockOf(p, k, w, IntBytes(us[k].v[1], w))
      /\ c \in Floating => \A k \in 1 .. n : BlockOf(p, k, w, FloatBytes(us[k].v[1], w))
  <2> HIDE DEF w, c, n, p
  <2> QED BY <1>1, PackedIs DEF w, c, n, p
<1>3. head + n * w <= Len(data) /\ \A j \in 1 .. n * w : data[head + j] = p[j]
  BY <1>1
<1>4. \A k \in 1 .. Taken(item) : us[k] \in Operand /\ us[k].t = TypeOf(c) /\ Proper(us[k])
  <2>1. us \in Seq(Operand) /\ Len(us) = Taken(item)
    BY DEF Suits
  <2>2. \A k \in 1 .. Taken(item) : us[k] \in Operand
    BY <2>1, ElementOfSeq
  <2>3. QED
    BY <2>1, <2>2 DEF Suits
<1>5. ASSUME c \in Texts
      PROVE  bytes = Fitted(us[1].v, n)
  <2>1. n * w = n /\ head + n \in Int
    BY <1>1, <1>5
  <2> HIDE DEF n, w, p
  <2>2. p = SubSeq(data, head + 1, head + n)
    BY <1>2, <1>3, <2>1, SliceIs
  <2>3. QED
    BY <1>2, <1>5, <2>2
<1>6. ASSUME c \in Integral \cup Floating, NEW k \in 1 .. n
      PROVE  /\ us[k].v[1] \in Int /\ us[k].v[1] \in Packable
             /\ us[k] = Value("number", <<us[k].v[1]>>)
             /\ c \in Integral => at(k) = IntBytes(us[k].v[1], w)
             /\ c \in Floating => at(k) = FloatBytes(us[k].v[1], w)
  <2>1. /\ us[k].v[1] \in Int /\ us[k].v[1] \in Packable
        /\ us[k] = Value("number", <<us[k].v[1]>>)
    BY <1>1, <1>6, NumbersAre
  <2> DEFINE x == us[k].v[1]
             e == IntBytes(x, w)
             f == FloatBytes(x, w)
  <2>2. e \in Seq(Int) /\ Len(e) = w
    <3> HIDE DEF x, w
    <3> QED BY <1>1, <2>1, BytesAre DEF x
  <2>3. ASSUME c \in Integral
        PROVE  at(k) = e
    <3>1. BlockOf(p, k, w, e) /\ Within(data, head, n, w, p)
      BY <1>2, <1>3, <2>3 DEF Within
    <3> HIDE DEF c, n, w, p, e
    <3>2. QED
      BY <1>1, <2>2, <3>1, BlockAt
  <2>4. ASSUME c \in Floating
        PROVE  at(k) = f
    <3>1. BlockOf(p, k, w, f) /\ Within(data, head, n, w, p)
      BY <1>2, <1>3, <2>4 DEF Within
    <3>2. w \in {4, 8}
      BY <2>4, FloatingIs
    <3>3. f \in Seq(Int) /\ Len(f) = w
      <4> HIDE DEF x, w
      <4> QED BY <2>1, <3>2, FloatBytesAre DEF x
    <3> HIDE DEF c, n, w, p, f
    <3>4. QED
      BY <1>1, <3>1, <3>3, BlockAt
  <2> HIDE DEF c, at
  <2>5. QED
    BY <2>1, <2>3, <2>4
<1>7. CASE c = "x"
  BY <1>1, <1>7
<1>8. CASE c \in Texts
  <2>1. /\ Taken(item) = 1 /\ c # "x" /\ n = item.n
        /\ bytes = Fitted(us[1].v, n) /\ us[1].v \in Seq(Int)
    BY <1>1, <1>2, <1>5, <1>8
  <2>2. us[1].t = TypeOf(c) /\ Proper(us[1])
    BY <1>4, <2>1
  <2> DEFINE v == us[1].v
  <2>3. CASE c = "s"
    <3>1. read = <<Value("string", Chars(bytes))>>
      <4>1. /\ c # "x" /\ c # "S" /\ c \notin {"b", "h", "i"} /\ c \notin {"B", "H", "I"}
            /\ c \notin Floating
        BY <2>3 DEF Floating
      <4>2. QED
        BY <2>3, <4>1 DEF Unpacked
    <3>2. us[1].t = "string"
      BY <2>2, <2>3 DEF TypeOf
    <3>3. \A j \in 1 .. Len(v) : v[j] # 0
      <4>1. DOMAIN v = 1 .. Len(v)
        BY <2>1, LenProperties
      <4>2. QED
        BY <2>2, <3>2, <4>1 DEF Proper
    <3>4. Chars(bytes) = SubSeq(v, 1, IF Len(v) < n THEN Len(v) ELSE n)
      <4> HIDE DEF v, n, bytes
      <4> QED BY <1>1, <2>1, <3>3, CharsBack DEF v
    <3>5. read[1] = Value("string", SubSeq(v, 1, IF Len(v) < n THEN Len(v) ELSE n))
      <4> HIDE DEF read, bytes, v, n
      <4> QED BY <3>1, <3>4
    <3>6. Restores(item, us[1], read[1])
      <4> HIDE DEF read
      <4> QED BY <2>1, <2>3, <3>5 DEF Restores
    <3> HIDE DEF read
    <3>7. QED
      BY <2>1, <3>6 DEF read
  <2>4. CASE c = "S"
    <3>1. read = <<Value("blob", bytes)>>
      <4>1. /\ c # "x" /\ c # "s" /\ c \notin {"b", "h", "i"} /\ c \notin {"B", "H", "I"}
            /\ c \notin Floating
        BY <2>4 DEF Floating
      <4>2. QED
        BY <2>4, <4>1 DEF Unpacked
    <3> HIDE DEF read, bytes
    <3>2. read[1] = Value("blob", Fitted(v, n))
      BY <2>1, <3>1
    <3>3. Restores(item, us[1], read[1])
      BY <2>1, <2>4, <3>2 DEF Restores
    <3>4. QED
      BY <2>1, <3>3 DEF read
  <2>5. QED
    BY <1>8, <2>3, <2>4 DEF Texts
<1>9. CASE c \in Integral
  <2>1. Taken(item) = n /\ c # "x" /\ c # "s" /\ c # "S" /\ c # "f"
    BY <1>1, <1>9 DEF Texts, Integral
  <2>2. \A k \in 1 .. n : /\ FromBytes(at(k)) = us[k].v[1]
                          /\ Signed(FromBytes(at(k)), w) = us[k].v[1]
    <3> SUFFICES ASSUME NEW k \in 1 .. n
                 PROVE  /\ FromBytes(at(k)) = us[k].v[1]
                        /\ Signed(FromBytes(at(k)), w) = us[k].v[1]
      OBVIOUS
    <3> DEFINE x == us[k].v[1]
    <3>1. x \in Int /\ at(k) = IntBytes(x, w)
      BY <1>6, <1>9
    <3>2. k \in DOMAIN us
      <4>1. us \in Seq(Operand) /\ Len(us) = n
        BY <2>1 DEF Suits
      <4>2. QED
        BY <4>1, LenProperties
    <3>3. 0 <= x /\ 2 * x < Reach[w]
      BY <1>9, <3>2 DEF InRange
    <3>4. Reach[w] \in Nat \ {0}
      BY <1>1, ReachIs
    <3> HIDE DEF x, w
    <3>5. x \in Nat /\ x < Reach[w]
      BY <3>1, <3>3, <3>4
    <3>6. FromBytes(IntBytes(x, w)) = x
      BY <1>1, <3>5, IntBack
    <3>7. ~(2 * x >= Reach[w])
      BY <3>1, <3>3, <3>4
    <3>8. Signed(x, w) = x
      BY <3>7 DEF Signed
    <3>9. QED
      BY <3>1, <3>6, <3>8 DEF x
  <2>3. CASE c \in {"b", "h", "i"}
    <3>1. read = [k \in 1 .. n |-> Value("number", <<FromBytes(at(k))>>)]
      <4>1. c \notin {"B", "H", "I"} /\ c \notin Floating
        BY <2>3 DEF Floating
      <4>2. QED
        BY <2>1, <2>3, <4>1 DEF Unpacked, Slice
    <3> HIDE DEF at, n, c, read
    <3>2. \A k \in 1 .. n : read[k] = us[k]
      BY <1>6, <1>9, <2>2, <3>1
    <3>3. \A k \in 1 .. Taken(item) : Restores(item, us[k], read[k])
      BY <2>1, <3>2 DEF Restores, c
    <3>4. QED
      BY <3>3 DEF read
  <2>4. CASE c \in {"B", "H", "I"}
    <3>1. read = [k \in 1 .. n |-> Value("number", <<Signed(FromBytes(at(k)), w)>>)]
      <4>1. c \notin {"b", "h", "i"} /\ c \notin Floating
        BY <2>4 DEF Floating
      <4>2. QED
        BY <2>1, <2>4, <4>1 DEF Unpacked, Slice
    <3> HIDE DEF at, n, c, w, read
    <3>2. \A k \in 1 .. n : read[k] = us[k]
      BY <1>6, <1>9, <2>2, <3>1
    <3>3. \A k \in 1 .. Taken(item) : Restores(item, us[k], read[k])
      BY <2>1, <3>2 DEF Restores, c
    <3>4. QED
      BY <3>3 DEF read
  <2>5. QED
    BY <1>9, <2>3, <2>4 DEF Integral
<1>10. CASE c \in Floating
  <2>1. Taken(item) = n /\ c # "x" /\ c # "s" /\ c # "S" /\ w \in {4, 8} /\ (w = 4 <=> c = "f")
    BY <1>1, <1>10, FloatingIs DEF Texts
  <2>2. read = [k \in 1 .. n |-> Value("number", FromFloat(at(k)))]
    <3>1. c \notin {"b", "h", "i"} /\ c \notin {"B", "H", "I"}
      BY <1>10 DEF Floating
    <3>2. QED
      BY <1>10, <2>1, <3>1 DEF Unpacked, Slice
  <2>3. ASSUME NEW k \in 1 .. n
        PROVE  Restores(item, us[k], read[k])
    <3> DEFINE x == us[k].v[1]
               y == IF w = 4 THEN Rounded(x) ELSE x
    <3>1. /\ x \in Int /\ x \in Packable /\ us[k] = Value("number", <<x>>)
          /\ at(k) = FloatBytes(x, w)
      BY <1>6, <1>10
    <3>2. w = 4 => Abs(x) <= LargestFloat
      <4>1. us \in Seq(Operand) /\ Len(us) = n
        BY <2>1 DEF Suits
      <4>2. k \in DOMAIN us
        BY <4>1, LenProperties
      <4>3. QED
        BY <2>1, <4>2 DEF InRange
    <3> HIDE DEF read, at, n, c
    <3>3. read[k] = Value("number", FromFloat(at(k)))
      BY <2>2
    <3> HIDE DEF x, w
    <3>4. FromFloat(at(k)) = <<y>>
      BY <2>1, <3>1, <3>2, FloatBack
    <3>5. read[k] = Value("number", <<y>>)
      BY <3>3, <3>4
    <3>6. CASE c = "f"
      <4>1. y = Rounded(x) /\ Precision * Abs(Rounded(x) - x) <= Abs(x)
        BY <2>1, <3>1, <3>6, RoundedIs
      <4> HIDE DEF y
      <4>2. read[k].t = "number" /\ Len(read[k].v) = 1 /\ read[k].v[1] = y
        BY <3>5 DEF Value
      <4>3. QED
        BY <3>6, <4>1, <4>2 DEF Restores, c, x
    <3>7. CASE c # "f"
      <4>1. read[k] = us[k]
        BY <2>1, <3>1, <3>5, <3>7
      <4>2. QED
        BY <2>1, <3>7, <4>1 DEF Restores, c
    <3>8. QED
      BY <3>6, <3>7
  <2> HIDE DEF read
  <2>4. QED
    BY <2>1, <2>3 DEF read
<1>11. QED
  BY <1>1, <1>7, <1>8, <1>9, <1>10

\* Wherever blobdec reads, an item gives as many values as it has taken.
LEMMA UnpackedAre ==
  ASSUME NEW item, Item(item), NEW head, NEW data
  PROVE  Unpacked(item, head, data)
           = [j \in 1 .. Taken(item) |-> Unpacked(item, head, data)[j]]
<1> DEFINE c == item.c
           n == Times(item)
           read == Unpacked(item, head, data)
<1>1. /\ n \in Nat
      /\ c = "x" => Taken(item) = 0
      /\ c \in Texts => Taken(item) = 1 /\ c # "x"
      /\ c \in Integral \cup Floating => Taken(item) = n /\ c # "x" /\ c \notin Texts
      /\ c = "x" \/ c \in Texts \/ c \in Integral \/ c \in Floating
  BY ItemIs
<1>2. CASE c = "x"
  <2>1. read = <<>>
    <3>1. /\ c # "s" /\ c # "S" /\ c \notin {"b", "h", "i"} /\ c \notin {"B", "H", "I"}
          /\ c \notin Floating
      BY <1>2 DEF Floating
    <3>2. QED
      BY <1>2, <3>1 DEF Unpacked
  <2> HIDE DEF read
  <2>2. QED
    BY <1>1, <1>2, <2>1 DEF read
<1>3. CASE c \in Texts
  <2>1. \E v : read = <<v>>
    <3>1. CASE c = "s"
      <4>1. /\ c # "x" /\ c # "S" /\ c \notin {"b", "h", "i"} /\ c \notin {"B", "H", "I"}
            /\ c \notin Floating
        BY <3>1 DEF Floating
      <4>2. QED
        BY <3>1, <4>1 DEF Unpacked
    <3>2. CASE c = "S"
      <4>1. /\ c # "x" /\ c # "s" /\ c \notin {"b", "h", "i"} /\ c \notin {"B", "H", "I"}
            /\ c \notin Floating
        BY <3>2 DEF Floating
      <4>2. QED
        BY <3>2, <4>1 DEF Unpacked
    <3>3. QED
      BY <1>3, <3>1, <3>2 DEF Texts
  <2> HIDE DEF read
  <2>2. QED
    BY <1>1, <1>3, <2>1 DEF read
<1>4. CASE c \in Integral \cup Floating
  <2>1. c # "x" /\ c # "s" /\ c # "S"
    BY <1>1, <1>4 DEF Texts
  <2>2. DOMAIN read = 1 .. n /\ read = [j \in 1 .. n |-> read[j]]
    <3>1. CASE c \in {"b", "h", "i"}
      <4>1. c \notin {"B", "H", "I"} /\ c \notin Floating
        BY <3>1 DEF Floating
      <4>2. QED
        BY <2>1, <3>1, <4>1 DEF Unpacked
    <3>2. CASE c \in {"B", "H", "I"}
      <4>1. c \notin {"b", "h", "i"} /\ c \notin Floating
        BY <3>2 DEF Floating
      <4>2. QED
        BY <2>1, <3>2, <4>1 DEF Unpacked
    <3>3. CASE c \in Floating
      <4>1. c \notin {"b", "h", "i"} /\ c \notin {"B", "H", "I"}
        BY <3>3 DEF Floating
      <4>2. QED
        BY <2>1, <3>3, <4>1 DEF Unpacked
    <3>4. QED
      BY <1>4, <3>1, <3>2, <3>3 DEF Integral
  <2> HIDE DEF read
  <2>3. QED
    BY <1>1, <1>4, <2>2 DEF read
<1>5. QED
  BY <1>1, <1>2, <1>3, <1>4

-----------------------------------------------------------------------------
(* Formats and the values they take                                        *)

\* The items of a format that blobFmtCalc has let pass.
Good(items) ==
  /\ \E R : items \in Seq(R)
  /\ \A k \in 1 .. Len(items) : Item(items[k])

\* A stack that TLC may check.
Stack(vs) == vs \in Seq(Operand) /\ \A k \in 1 .. Len(vs) : Proper(vs[k])

TakenOf(items) == [k \in 1 .. Len(items) |-> Taken(items[k])]
SizesOf(items) == [k \in 1 .. Len(items) |-> Size(items[k])]

LEMMA StackSlice ==
  ASSUME NEW vs, Stack(vs), NEW from \in Nat, NEW to \in Int, from <= to, to <= Len(vs)
  PROVE  Stack(SubSeq(vs, from + 1, to)) /\ Len(SubSeq(vs, from + 1, to)) = to - from
<1> DEFINE m == from + 1
           s == SubSeq(vs, m, to)
<1>1. vs \in Seq(Operand) /\ Len(vs) \in Nat /\ m \in Int
  BY LenProperties DEF Stack
<1>2. \A i \in m .. to : i \in 1 .. Len(vs) /\ vs[i] \in Operand
  <2>1. \A i \in m .. to : i \in 1 .. Len(vs)
    BY <1>1
  <2>2. QED
    BY <1>1, <2>1, ElementOfSeq
<1>3. to - m + 1 = to - from /\ (m <= to \/ to - from = 0)
  OBVIOUS
<1>4. \A i \in 1 .. to - from : m + i - 1 \in m .. to
  OBVIOUS
<1> HIDE DEF m
<1>5. /\ s \in Seq(Operand)
      /\ Len(s) = IF m <= to THEN to - m + 1 ELSE 0
      /\ \A i \in 1 .. to - m + 1 : s[i] = vs[m + i - 1]
  BY <1>1, <1>2, SubSeqProperties
<1> HIDE DEF s
<1>6. Len(s) = to - from
  BY <1>1, <1>3, <1>5
<1>7. \A i \in 1 .. to - from : Proper(s[i])
  <2>1. \A i \in 1 .. to - from : s[i] = vs[m + i - 1]
    BY <1>3, <1>5
  <2>2. QED
    BY <1>2, <1>4, <2>1 DEF Stack
<1>8. QED
  BY <1>5, <1>6, <1>7 DEF Stack, s, m

LEMMA SumsAre ==
  ASSUME NEW items, Good(items)
  PROVE  /\ Offsets(items) = Up(TakenOf(items), Len(items))
         /\ Sizes(items) = Up(SizesOf(items), Len(items))
         /\ \A k \in 1 .. Len(items) :
              Offsets(SubSeq(items, 1, k - 1)) = Up(TakenOf(items), k - 1)
<1> DEFINE n == Len(items)
<1>1. PICK R : items \in Seq(R)
  BY DEF Good
<1>2. n \in Nat /\ DOMAIN items = 1 .. n
  BY <1>1, LenProperties
<1>3. Offsets(items) = Up(TakenOf(items), n)
  <2>1. [k \in DOMAIN items |-> Taken(items[k])] = [k \in 1 .. n |-> TakenOf(items)[k]]
    BY <1>2 DEF TakenOf
  <2>2. QED
    BY <2>1, Zenon DEF Offsets, Up
<1>4. Sizes(items) = Up(SizesOf(items), n)
  <2>1. [k \in DOMAIN items |-> Times(items[k]) * Width(items[k].c)]
          = [k \in 1 .. n |-> SizesOf(items)[k]]
    BY <1>2 DEF SizesOf, Size
  <2>2. QED
    BY <2>1, Zenon DEF Sizes, Up
<1>5. ASSUME NEW k \in 1 .. n
      PROVE  Offsets(SubSeq(items, 1, k - 1)) = Up(TakenOf(items), k - 1)
  <2> DEFINE h == k - 1
             s == SubSeq(items, 1, h)
  <2>1. h \in Nat /\ h <= n
    BY <1>2
  <2> HIDE DEF h
  <2>2. \A i \in 1 .. h : i \in 1 .. n /\ items[i] \in R
    <3>1. \A i \in 1 .. h : i \in 1 .. n
      BY <1>2, <2>1
    <3>2. QED
      BY <1>1, <3>1, ElementOfSeq
  <2>3. /\ s \in Seq(R)
        /\ Len(s) = IF 1 <= h THEN h - 1 + 1 ELSE 0
        /\ \A i \in 1 .. h - 1 + 1 : s[i] = items[1 + i - 1]
    BY <2>1, <2>2, SubSeqProperties
  <2>4. \A i \in 1 .. h : i \in 1 .. h - 1 + 1 /\ 1 + i - 1 = i
    BY <2>1
  <2> HIDE DEF s
  <2>5. DOMAIN s = 1 .. h /\ \A i \in 1 .. h : s[i] = items[i]
    <3>1. Len(s) = h
      BY <2>1, <2>3
    <3>2. QED
      BY <2>3, <2>4, <3>1, LenProperties
  <2>6. [i \in DOMAIN s |-> Taken(s[i])] = [i \in 1 .. h |-> TakenOf(items)[i]]
    BY <2>2, <2>5 DEF TakenOf
  <2>7. Offsets(s) = Up(TakenOf(items), h)
    BY <2>6, Zenon DEF Offsets, Up
  <2>8. QED
    BY <2>7 DEF s, h
<1>6. QED
  BY <1>3, <1>4, <1>5

\* What blobenc finds of the types.
Typed(items, vs) ==
  \A k \in DOMAIN items : \A j \in DOMAIN Share(items, k, vs) :
    Share(items, k, vs)[j].t = TypeOf(items[k].c)

LEMMA ShareIs ==
  ASSUME NEW items, Good(items), NEW vs, Stack(vs), Len(vs) = Offsets(items),
         Typed(items, vs), NEW k \in 1 .. Len(items)
  PROVE  Suits(items[k], Share(items, k, vs))
<1> DEFINE n == Len(items)
           taken == TakenOf(items)
           from == Up(taken, k - 1)
           us == Share(items, k, vs)
           s == SubSeq(vs, from + 1, from + Taken(items[k]))
<1>1. n \in Nat /\ DOMAIN items = 1 .. n
  BY LenProperties DEF Good
<1>2. \A j \in 1 .. n : taken[j] = Taken(items[j]) /\ taken[j] \in Nat
  <2>1. \A j \in 1 .. n : Taken(items[j]) \in Nat
    BY ItemIs DEF Good
  <2>2. QED
    BY <2>1 DEF TakenOf
<1>3. /\ Len(vs) = Up(taken, n)
      /\ us = s
  <2>1. /\ Offsets(items) = Up(taken, n)
        /\ Offsets(SubSeq(items, 1, k - 1)) = from
    BY SumsAre
  <2>2. QED
    BY <2>1, Zenon DEF Share
<1> HIDE DEF taken, n
<1>4. /\ k \in 1 .. n /\ k \in 0 .. n /\ n \in 0 .. n /\ k - 1 \in 0 .. n
  BY <1>1 DEF n
<1>5. /\ Up(taken, k) = from + Taken(items[k]) /\ from \in Nat /\ Up(taken, k) \in Nat
      /\ Up(taken, k) <= Up(taken, n) /\ Taken(items[k]) \in Nat
  <2>1. /\ \A j \in 1 .. n : Up(taken, j) = Up(taken, j - 1) + taken[j]
    <3>1. \A j \in 1 .. n : taken[j] \in Int
      BY <1>2
    <3>2. QED
      BY <1>1, <3>1, UpIs
  <2>2. /\ \A j \in 0 .. n : Up(taken, j) \in Nat
        /\ \A j \in 0 .. n : \A i \in 0 .. j : Up(taken, i) <= Up(taken, j)
    BY <1>1, <1>2, UpGrows
  <2>3. QED
    BY <1>2, <1>4, <2>1, <2>2
<1> HIDE DEF from
<1>6. Stack(s) /\ Len(s) = Taken(items[k])
  <2> DEFINE to == from + Taken(items[k])
  <2>1. to \in Int /\ from <= to /\ to <= Len(vs) /\ to - from = Taken(items[k])
    BY <1>3, <1>5
  <2> HIDE DEF to
  <2>2. Stack(SubSeq(vs, from + 1, to)) /\ Len(SubSeq(vs, from + 1, to)) = to - from
    BY <1>5, <2>1, StackSlice
  <2>3. QED
    BY <2>1, <2>2 DEF to
<1> HIDE DEF s
<1>7. us \in Seq(Operand) /\ DOMAIN us = 1 .. Len(us)
  BY <1>3, <1>6, LenProperties DEF Stack
<1>8. \A j \in 1 .. Len(us) : us[j].t = TypeOf(items[k].c)
  BY <1>1, <1>4, <1>7 DEF Typed
<1>9. QED
  BY <1>3, <1>6, <1>7, <1>8 DEF Suits, Stack

\* The bytes blobenc makes, and where it puts the bytes of each item.
Encoding(items, vs) ==
  FlattenSeq([k \in DOMAIN items |-> Packed(items[k], Share(items, k, vs))])

LEMMA EncodingIs ==
  ASSUME NEW items, Good(items), NEW vs, Stack(vs), Len(vs) = Offsets(items),
         Typed(items, vs)
  PROVE  Joined(Int, Len(items),
                [k \in 1 .. Len(items) |-> Packed(items[k], Share(items, k, vs))],
                SizesOf(items), Encoding(items, vs))
<1> DEFINE n == Len(items)
           ss == [k \in 1 .. n |-> Packed(items[k], Share(items, k, vs))]
           lens == SizesOf(items)
           V == Int
<1>1. n \in Nat /\ DOMAIN items = 1 .. n
  BY LenProperties DEF Good
<1>2. \A k \in 1 .. n : ss[k] \in Seq(V) /\ lens[k] = Len(ss[k])
  <2> SUFFICES ASSUME NEW k \in 1 .. n
               PROVE  ss[k] \in Seq(V) /\ lens[k] = Len(ss[k])
    OBVIOUS
  <2> DEFINE item == items[k]
             us == Share(items, k, vs)
  <2>1. Item(item) /\ Suits(item, us)
    BY ShareIs DEF Good
  <2> HIDE DEF item, us
  <2>2. Packed(item, us) \in Seq(V) /\ Len(Packed(item, us)) = Size(item)
    BY <2>1, PackedIs
  <2>3. ss[k] = Packed(item, us) /\ lens[k] = Size(item)
    BY DEF item, us, SizesOf
  <2>4. QED
    BY <2>2, <2>3
<1>3. Encoding(items, vs) = FlattenSeq(ss)
  BY <1>1 DEF Encoding
<1>4. ss \in [1 .. n -> Seq(V)]
  <2>1. ss = [k \in 1 .. n |-> ss[k]]
    OBVIOUS
  <2> HIDE DEF ss, V
  <2>2. QED
    BY <1>2, <2>1
<1> HIDE DEF ss, lens, V, n
<1>5. Joined(V, n, ss, lens, FlattenSeq(ss))
  BY <1>1, <1>2, <1>4, FlattenIs
<1>6. QED
  BY <1>3, <1>5 DEF ss, lens, V, n

\* Where blobdec looks for item k.
HeadOf(items, k) == Total([j \in 1 .. k - 1 |-> Advance(items[j])])

LEMMA HeadIs ==
  ASSUME NEW items, Good(items), NEW k \in 1 .. Len(items),
         \A i \in 1 .. k - 1 : items[i].c # "d"
  PROVE  HeadOf(items, k) = Up(SizesOf(items), k - 1)
<1> DEFINE n == Len(items)
           h == k - 1
           sizes == SizesOf(items)
<1>1. n \in Nat /\ h \in Nat /\ h <= n - 1
  BY LenProperties DEF Good
<1>2. \A j \in 1 .. h : Advance(items[j]) = sizes[j]
  <2> SUFFICES ASSUME NEW j \in 1 .. h
               PROVE  Advance(items[j]) = sizes[j]
    OBVIOUS
  <2>1. j \in 1 .. n /\ j \in 1 .. k - 1
    BY <1>1
  <2>2. items[j].c \in Letters /\ items[j].c # "d"
    BY <2>1 DEF Good, Item
  <2>3. Advance(items[j]) = Times(items[j]) * Width(items[j].c)
    BY <2>2 DEF Advance
  <2>4. QED
    BY <2>1, <2>3 DEF SizesOf, Size
<1> HIDE DEF sizes, h
<1>3. [j \in 1 .. h |-> Advance(items[j])] = [j \in 1 .. h |-> sizes[j]]
  BY <1>2
<1>4. HeadOf(items, k) = Total([j \in 1 .. h |-> Advance(items[j])])
  BY Zenon DEF HeadOf, h
<1>5. QED
  BY <1>3, <1>4, Zenon DEF Up, sizes, h

\* The values blobdec pushes, and where it puts the values of each item.
Reading(items, data) ==
  FlattenSeq([k \in DOMAIN items |-> Unpacked(items[k], HeadOf(items, k), data)])

LEMMA ReadingIs ==
  ASSUME NEW items, Good(items), NEW data
  PROVE  /\ Len(Reading(items, data)) = Offsets(items)
         /\ \A k \in 1 .. Len(items) : \A j \in 1 .. Taken(items[k]) :
              Share(items, k, Reading(items, data))[j]
                = Unpacked(items[k], HeadOf(items, k), data)[j]
<1> DEFINE n == Len(items)
           read(k) == Unpacked(items[k], HeadOf(items, k), data)
           ss == [k \in 1 .. n |-> read(k)]
           lens == TakenOf(items)
           flat == Reading(items, data)
           S == UNION {{read(k)[j] : j \in 1 .. Taken(items[k])} : k \in 1 .. n}
<1>1. n \in Nat /\ DOMAIN items = 1 .. n
  BY LenProperties DEF Good
<1>2. \A k \in 1 .. n : lens[k] = Taken(items[k]) /\ lens[k] \in Nat
  <2>1. \A k \in 1 .. n : Taken(items[k]) \in Nat
    BY ItemIs DEF Good
  <2>2. QED
    BY <2>1 DEF TakenOf
<1>3. ASSUME NEW k \in 1 .. n
      PROVE  ss[k] \in Seq(S) /\ lens[k] = Len(ss[k])
  <2> DEFINE m == Taken(items[k])
  <2>1. read(k) = [j \in 1 .. m |-> read(k)[j]]
    <3> DEFINE item == items[k]
               head == HeadOf(items, k)
    <3>1. Item(item)
      BY DEF Good
    <3> HIDE DEF item, head
    <3>2. Unpacked(item, head, data) = [j \in 1 .. Taken(item) |-> Unpacked(item, head, data)[j]]
      BY <3>1, UnpackedAre
    <3>3. QED
      BY <3>2, Zenon DEF item, head
  <2>2. \A j \in 1 .. m : read(k)[j] \in S
    OBVIOUS
  <2>3. ss[k] = read(k)
    OBVIOUS
  <2>4. m \in Nat /\ lens[k] = m
    BY <1>2
  <2> HIDE DEF read, S, m, ss, lens
  <2>5. read(k) \in [1 .. m -> S]
    BY <2>1, <2>2
  <2>6. read(k) \in Seq(S) /\ Len(read(k)) = m
    BY <2>4, <2>5, FunctionIsSeq
  <2>7. QED
    BY <2>3, <2>4, <2>6
<1>4. flat = FlattenSeq(ss)
  BY <1>1, Zenon DEF Reading
<1>5. Joined(S, n, ss, lens, flat)
  <2>1. ss = [k \in 1 .. n |-> ss[k]]
    OBVIOUS
  <2> HIDE DEF ss, S, lens, flat, n
  <2>2. ss \in [1 .. n -> Seq(S)]
    BY <1>3, <2>1
  <2>3. QED
    BY <1>1, <1>3, <1>4, <2>2, FlattenIs
<1>6. /\ flat \in Seq(S) /\ Len(flat) = Up(lens, n)
      /\ \A k \in 1 .. n : \A j \in 1 .. lens[k] : flat[Up(lens, k - 1) + j] = ss[k][j]
  <2> HIDE DEF ss, S, lens, flat, n
  <2> QED BY <1>5 DEF Joined
<1>7. /\ Offsets(items) = Up(lens, n)
      /\ \A k \in 1 .. n : Offsets(SubSeq(items, 1, k - 1)) = Up(lens, k - 1)
  BY SumsAre
<1>8. ASSUME NEW k \in 1 .. n, NEW j \in 1 .. Taken(items[k])
      PROVE  Share(items, k, flat)[j] = read(k)[j]
  <2> DEFINE from == Up(lens, k - 1)
             m == from + 1
             to == from + Taken(items[k])
             us == SubSeq(flat, m, to)
  <2>1. Share(items, k, flat) = us
    BY <1>7, Zenon DEF Share
  <2>2. from \in Nat /\ Taken(items[k]) \in Nat /\ to <= Len(flat)
    <3> HIDE DEF lens, n, flat, S, ss
    <3>1. \A i \in 1 .. n : Up(lens, i) = Up(lens, i - 1) + lens[i]
      <4>1. \A i \in 1 .. n : lens[i] \in Int
        BY <1>2
      <4>2. QED
        BY <1>1, <4>1, UpIs
    <3>2. /\ \A i \in 0 .. n : Up(lens, i) \in Nat
          /\ \A i \in 0 .. n : \A h \in 0 .. i : Up(lens, h) <= Up(lens, i)
      BY <1>1, <1>2, UpGrows
    <3>3. k \in 0 .. n /\ n \in 0 .. n /\ k - 1 \in 0 .. n
      BY <1>1
    <3>4. QED
      BY <1>2, <1>6, <3>1, <3>2, <3>3
  <2>3. flat[from + j] = read(k)[j]
    BY <1>2, <1>6
  <2> HIDE DEF lens, n, flat, S, ss, read, from
  <2>4. m \in Int /\ to \in Int /\ m <= to /\ j \in 1 .. to - m + 1 /\ m + j - 1 = from + j
    BY <2>2
  <2>5. Len(flat) \in Nat
    BY <1>6, LenProperties
  <2>6. \A i \in m .. to : flat[i] \in S
    <3>1. \A i \in m .. to : i \in 1 .. Len(flat)
      BY <2>2, <2>5
    <3>2. QED
      BY <1>6, <3>1, ElementOfSeq
  <2> HIDE DEF m, to
  <2>7. us[j] = flat[m + j - 1]
    BY <2>4, <2>6, SubSeqProperties
  <2>8. QED
    BY <2>1, <2>3, <2>4, <2>7
<1>9. QED
  BY <1>6, <1>7, <1>8

\* What a round trip makes of the values that the item took, when no item before
\* it is a double.
LEMMA DecodingIs ==
  ASSUME NEW items, Good(items), NEW vs, Stack(vs), Len(vs) = Offsets(items),
         Typed(items, vs), NEW k \in 1 .. Len(items),
         \A i \in 1 .. k - 1 : items[i].c # "d",
         InRange(items[k], Share(items, k, vs))
  PROVE  \A j \in 1 .. Taken(items[k]) :
           Restores(items[k], Share(items, k, vs)[j],
                    Unpacked(items[k], HeadOf(items, k), Encoding(items, vs))[j])
<1> DEFINE n == Len(items)
           ss == [i \in 1 .. n |-> Packed(items[i], Share(items, i, vs))]
           sizes == SizesOf(items)
           data == Encoding(items, vs)
<1>1. n \in Nat /\ DOMAIN items = 1 .. n
  BY LenProperties DEF Good
<1>2. /\ data \in Seq(Int)
      /\ Len(data) = Up(sizes, n)
      /\ \A i \in 1 .. n : \A j \in 1 .. sizes[i] : data[Up(sizes, i - 1) + j] = ss[i][j]
  <2>1. Joined(Int, n, ss, sizes, data)
    BY EncodingIs
  <2> HIDE DEF n, ss, sizes, data
  <2>2. QED
    BY <2>1 DEF Joined
<1> DEFINE item == items[k]
           us == Share(items, k, vs)
           head == Up(sizes, k - 1)
<1>3. \A i \in 1 .. n : sizes[i] = Size(items[i]) /\ sizes[i] \in Nat
  <2>1. \A i \in 1 .. n : Size(items[i]) \in Nat
    BY ItemIs DEF Good
  <2>2. QED
    BY <2>1 DEF SizesOf
<1>4. Item(item) /\ Suits(item, us) /\ InRange(item, us)
  BY ShareIs DEF Good
<1>5. HeadOf(items, k) = head
  BY HeadIs
<1> HIDE DEF data, sizes
<1>6. head \in Nat /\ head + Size(item) <= Len(data)
  <2>1. \A i \in 1 .. n : Up(sizes, i) = Up(sizes, i - 1) + sizes[i]
    <3>1. \A i \in 1 .. n : sizes[i] \in Int
      BY <1>3
    <3> HIDE DEF n
    <3>2. QED
      BY <1>1, <3>1, UpIs
  <2>2. /\ \A i \in 0 .. n : Up(sizes, i) \in Nat
        /\ \A i \in 0 .. n : \A h \in 0 .. i : Up(sizes, h) <= Up(sizes, i)
    <3> HIDE DEF n
    <3> QED BY <1>1, <1>3, UpGrows
  <2>3. k \in 0 .. n /\ n \in 0 .. n /\ k - 1 \in 0 .. n
    BY <1>1
  <2>4. QED
    BY <1>2, <1>3, <2>1, <2>2, <2>3
<1>7. \A j \in 1 .. Size(item) : data[head + j] = Packed(item, us)[j]
  BY <1>2, <1>3
<1> HIDE DEF item, us, head, ss
<1>8. \A j \in 1 .. Taken(item) : Restores(item, us[j], Unpacked(item, head, data)[j])
  BY <1>2, <1>4, <1>6, <1>7, UnpackedIs
<1>9. QED
  BY <1>5, <1>8, Zenon DEF item, us, data

LEMMA ValidIsGood ==
  ASSUME NEW f, Len(f) \in Nat, ~Invalid(f)
  PROVE  Good(Items(f))
<1> DEFINE items == Items(f)
<1>1. PICK C : items \in Seq([c : C, n : Nat])
  BY ItemsAre
<1>2. \A k \in 1 .. Len(items) : items[k] \in [c : C, n : Nat]
  <2> DEFINE R == [c : C, n : Nat]
  <2> HIDE DEF R, items
  <2> QED BY <1>1, ElementOfSeq DEF R
<1>3. DOMAIN items = 1 .. Len(items)
  BY <1>1, LenProperties
<1>4. \A k \in 1 .. Len(items) : Item(items[k])
  BY <1>2, <1>3 DEF Invalid, Item
<1>5. QED
  BY <1>1, <1>4 DEF Good

-----------------------------------------------------------------------------
(* The invariant                                                           *)

\* What blobenc has checked, and that packed is what it made.
Encoded(items) ==
  /\ ~Invalid(fmt)
  /\ Offsets(items) <= Len(given)
  /\ Typed(items, Top(items))
  /\ packed = Encoding(items, Top(items))

Decoded(items) == result = Reading(items, packed)

BlobInvariant ==
  /\ fmt \in Formats /\ given \in Operands
  /\ phase \in {"encode", "decode", "done", "raised"}
  /\ phase \in {"decode", "done"} => Encoded(Items(fmt))
  /\ phase = "done" => Decoded(Items(fmt))

LEMMA EncodedIs ==
  ASSUME fmt \in Formats, given \in Operands, Encoded(Items(fmt))
  PROVE  /\ Good(Items(fmt)) /\ Stack(Top(Items(fmt)))
         /\ Len(Top(Items(fmt))) = Offsets(Items(fmt))
         /\ Typed(Items(fmt), Top(Items(fmt)))
<1> DEFINE items == Items(fmt)
           n == Len(items)
           taken == TakenOf(items)
           offs == Offsets(items)
<1>1. Good(items)
  BY BlobsAssumption, ValidIsGood DEF Encoded
<1>2. Stack(given) /\ Len(given) \in Nat
  <2>1. given \in Seq(Operand) /\ \A k \in DOMAIN given : Proper(given[k])
    BY BlobsAssumption DEF Proper
  <2>2. QED
    BY <2>1, LenProperties DEF Stack
<1>3. offs \in Nat
  <2>1. n \in Nat
    BY <1>1, LenProperties DEF Good
  <2>2. \A j \in 1 .. n : taken[j] \in Nat
    <3>1. \A j \in 1 .. n : Taken(items[j]) \in Nat
      BY <1>1, ItemIs DEF Good
    <3>2. QED
      BY <3>1 DEF TakenOf
  <2>3. offs = Up(taken, n)
    BY <1>1, SumsAre
  <2> HIDE DEF taken, n, offs
  <2>4. \A k \in 0 .. n : Up(taken, k) \in Nat
    BY <2>1, <2>2, UpGrows
  <2>5. QED
    BY <2>1, <2>3, <2>4
<1> DEFINE from == Len(given) - offs
<1>4. from \in Nat /\ from <= Len(given) /\ Len(given) - from = offs
  BY <1>2, <1>3 DEF Encoded
<1> HIDE DEF offs, from
<1>5. /\ Stack(SubSeq(given, from + 1, Len(given)))
      /\ Len(SubSeq(given, from + 1, Len(given))) = Len(given) - from
  BY <1>2, <1>4, StackSlice
<1>6. Top(items) = SubSeq(given, from + 1, Len(given))
  BY Zenon DEF Top, from, offs
<1>7. QED
  BY <1>1, <1>4, <1>5, <1>6 DEF Encoded, offs

LEMMA BlobsInitInvariant == BlobsInit => BlobInvariant
BY DEF BlobsInit, BlobInvariant

LEMMA BlobsNextInvariant == BlobInvariant /\ BlobsNext => BlobInvariant'
<1> SUFFICES ASSUME BlobInvariant, BlobsNext
             PROVE  BlobInvariant'
  OBVIOUS
<1> DEFINE items == Items(fmt)
<1>1. CASE blobenc
  <2>1. fmt' = fmt /\ given' = given /\ result' = result
    BY <1>1 DEF blobenc
  <2>2. CASE phase' = "raised"
    BY <2>1, <2>2 DEF BlobInvariant
  <2>3. CASE phase' # "raised"
    <3>1. phase' = "decode" /\ Encoded(items)'
      <4>1. /\ blobFmtCalc(fmt).ok /\ blobFmtCalc(fmt).offs <= Len(given)
            /\ LET vs == SubSeq(given, Len(given) - blobFmtCalc(fmt).offs + 1, Len(given))
               IN /\ Typed(items, vs)
                  /\ packed' = Encoding(items, vs)
            /\ phase' = "decode"
        BY <1>1, <2>3 DEF blobenc, Typed, Encoding
      <4>2. ~Invalid(fmt) /\ blobFmtCalc(fmt).offs = Offsets(items)
        BY <4>1 DEF blobFmtCalc
      <4>3. Top(items)' = Top(items) /\ fmt' = fmt /\ items' = items
        BY <2>1 DEF Top
      <4>4. Typed(items, Top(items)) /\ packed' = Encoding(items, Top(items))
        BY <4>1, <4>2 DEF Top
      <4>5. Typed(items, Top(items))'
        BY <4>3, <4>4 DEF Typed, Top
      <4>6. Encoding(items, Top(items))' = Encoding(items, Top(items))
        BY <2>1 DEF Top
      <4>7. ~Invalid(fmt)' /\ (Offsets(items) <= Len(given))'
        BY <2>1, <4>1, <4>2
      <4>8. QED
        BY <4>1, <4>4, <4>5, <4>6, <4>7 DEF Encoded
    <3>2. QED
      BY <2>1, <3>1 DEF BlobInvariant
  <2>4. QED
    BY <2>2, <2>3
<1>2. CASE blobdec
  <2>1. fmt' = fmt /\ given' = given /\ packed' = packed /\ phase = "decode"
    BY <1>2 DEF blobdec
  <2>2. CASE phase' = "raised"
    BY <2>1, <2>2 DEF BlobInvariant
  <2>3. CASE phase' # "raised"
    <3>1. phase' = "done" /\ Decoded(items)'
      BY <1>2, <2>1, <2>3 DEF blobdec, Decoded, Reading, HeadOf
    <3>2. Encoded(items)'
      BY <2>1 DEF BlobInvariant, Encoded, Top
    <3>3. QED
      BY <2>1, <3>1, <3>2 DEF BlobInvariant
  <2>4. QED
    BY <2>2, <2>3
<1>3. QED
  BY <1>1, <1>2 DEF BlobsNext

LEMMA BlobsUnchanged == BlobInvariant /\ UNCHANGED bvars => BlobInvariant'
<1> SUFFICES ASSUME BlobInvariant, UNCHANGED bvars
             PROVE  BlobInvariant'
  OBVIOUS
<1>1. /\ fmt' = fmt /\ given' = given /\ packed' = packed /\ result' = result
      /\ phase' = phase
  BY DEF bvars
<1>2. QED
  BY <1>1 DEF BlobInvariant, Encoded, Decoded, Top

LEMMA InvariantRoundTrip == BlobInvariant => BlobsRoundTrip
<1> SUFFICES ASSUME BlobInvariant
             PROVE  BlobsRoundTrip
  OBVIOUS
<1> DEFINE items == Items(fmt)
           n == Len(items)
           vs == Top(items)
<1>1. ASSUME phase \in {"decode", "done"}
      PROVE  /\ Good(items) /\ Stack(vs) /\ Len(vs) = Offsets(items) /\ Typed(items, vs)
             /\ ~Invalid(fmt) /\ packed = Encoding(items, vs)
  <2>1. fmt \in Formats /\ given \in Operands /\ Encoded(items)
    BY <1>1 DEF BlobInvariant
  <2>2. QED
    BY <2>1, EncodedIs DEF Encoded
<1>2. ASSUME phase = "decode"
      PROVE  Len(packed) = blobFmtCalc(fmt).size
  <2>1. blobFmtCalc(fmt).size = Sizes(items)
    BY <1>1, <1>2 DEF blobFmtCalc
  <2>2. Len(packed) = Up(SizesOf(items), n)
    BY <1>1, <1>2, EncodingIs DEF Joined
  <2>3. QED
    BY <1>1, <1>2, <2>1, <2>2, SumsAre
<1>3. ASSUME phase = "done"
      PROVE  /\ Len(result) = Offsets(items)
             /\ \A k \in DOMAIN items :
                  (\A i \in 1 .. k - 1 : items[i].c # "d") => ComesBack(items, k)
  <2>1. result = Reading(items, packed)
    BY <1>3 DEF BlobInvariant, Decoded
  <2>2. /\ Good(items) /\ Stack(vs) /\ Len(vs) = Offsets(items) /\ Typed(items, vs)
        /\ packed = Encoding(items, vs)
    BY <1>1, <1>3
  <2>3. DOMAIN items = 1 .. n
    BY <2>2, LenProperties DEF Good
  <2> HIDE DEF items
  <2>4. /\ Len(result) = Offsets(items)
        /\ \A k \in 1 .. n : \A j \in 1 .. Taken(items[k]) :
             Share(items, k, result)[j] = Unpacked(items[k], HeadOf(items, k), packed)[j]
    BY <2>1, <2>2, ReadingIs
  <2>5. ASSUME NEW k \in 1 .. n, \A i \in 1 .. k - 1 : items[i].c # "d",
               InRange(items[k], Share(items, k, vs)), NEW j \in 1 .. Taken(items[k])
        PROVE  Restores(items[k], Share(items, k, vs)[j], Share(items, k, result)[j])
    <3> HIDE DEF vs
    <3>1. Restores(items[k], Share(items, k, vs)[j],
                   Unpacked(items[k], HeadOf(items, k), packed)[j])
      BY <2>2, <2>5, DecodingIs
    <3>2. QED
      BY <2>4, <3>1
  <2>6. QED
    BY <2>3, <2>4, <2>5 DEF ComesBack
<1>4. QED
  BY <1>2, <1>3, Zenon DEF BlobsRoundTrip

\* blobenc makes as many bytes as blobFmtCalc computes, and blobdec gets from
\* them as many values as went in, each at its place up to the first double of
\* the format: a string or a blob cut or filled up to its size, an integer below
\* the sign bit and a double as they were, and a float within one part in
\* Precision of the number.  For every format and every stack, and floats and
\* doubles of any size.
THEOREM BlobsReadBack == Spec => []BlobsRoundTrip
<1>1. Init => BlobInvariant
  BY BlobsInitInvariant DEF Init
<1>2. BlobInvariant /\ [Next]_vars => BlobInvariant'
  <2> SUFFICES ASSUME BlobInvariant, [Next]_vars
               PROVE  BlobInvariant'
    OBVIOUS
  <2>1. CASE BlobsNext
    BY <2>1, BlobsNextInvariant
  <2>2. CASE UNCHANGED bvars
    BY <2>2, BlobsUnchanged
  <2>3. BlobsNext \/ UNCHANGED bvars
    BY DEF Next, vars
  <2>4. QED
    BY <2>1, <2>2, <2>3
<1>3. BlobInvariant => BlobsRoundTrip
  BY InvariantRoundTrip
<1>4. QED
  BY <1>1, <1>2, <1>3, PTL DEF Spec
=============================================================================

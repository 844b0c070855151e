--------------------------- MODULE ModulesProofs ---------------------------
(***************************************************************************)
(* Proofs about the module loader, for any set of files, any import graph  *)
(* and any interleaving of nested loads and failures.                      *)
(*                                                                         *)
(* Three kinds of step change the table and the loads in progress: one     *)
(* pushes a load (and its entry), one changes the innermost load in place  *)
(* (and its entry's value), one pops it (and closes its entry).  There is  *)
(* one lemma for each, about a table M of m entries and d loads L.         *)
(***************************************************************************)
EXTENDS Modules, SequenceTheorems, TLAPS

OwnEntry(M, m, L, d) ==
  \A j \in 1 .. d :
    IF L[j].entry = 0 THEN j = 1 /\ L[j].path = MainFile
    ELSE L[j].entry \in 1 .. m /\ M[L[j].entry].path = L[j].path

Once(M, m, L, d) ==
  /\ \A j, k \in 1 .. m : M[j].path = M[k].path => j = k
  /\ \A j, k \in 1 .. d : L[j].entry = L[k].entry => j = k

Filled(v) == v.of \in {"context", "export"}

\* An entry is loading exactly as long as a load works on it; only the
\* innermost load has not opened its file yet; and a load that has keeps the
\* value of its entry set.
Progressing(M, m, L, d) ==
  /\ \A j \in 1 .. d : L[j].entry # 0 => M[L[j].entry].progress = "loading"
  /\ \A k \in 1 .. m : M[k].progress = "loading" =>
       \E j \in 1 .. d :
         L[j].entry = k /\ (L[j].phase # "open" => Filled(M[k].value))
  /\ \A j \in 1 .. d : j < d => L[j].phase # "open"
  /\ \A j \in 1 .. d : L[j].phase # "open" => Filled(L[j].value)

Table(M, m, L, d) ==
  OwnEntry(M, m, L, d) /\ Once(M, m, L, d) /\ Progressing(M, m, L, d)
-----------------------------------------------------------------------------
(* The three kinds of step                                                 *)

\* A load of p is pushed: its entry n, if it has one, is new.
Pushed(M, m, L, d, M2, m2, L2, p, n) ==
  /\ d > 0 => L[d].phase # "open"
  /\ \A j \in 1 .. d : L2[j] = L[j]
  /\ L2[d + 1].path = p /\ L2[d + 1].entry = n /\ L2[d + 1].phase = "open"
  /\ \A k \in 1 .. m : M2[k] = M[k]
  /\ \/ n = 0 /\ d = 0 /\ p = MainFile /\ m2 = m
     \/ /\ n = m + 1 /\ m2 = m + 1
        /\ M2[n].path = p /\ M2[n].progress = "loading"
        /\ \A k \in 1 .. m : M[k].path # p

\* The innermost load goes on: it stores v in its entry.
Stayed(M, m, L, d, M2, L2, v) ==
  /\ \A j \in 1 .. d - 1 : L2[j] = L[j]
  /\ L2[d].path = L[d].path /\ L2[d].entry = L[d].entry
  /\ L2[d].phase # "open" /\ L2[d].value = v /\ Filled(v)
  /\ \A k \in 1 .. m : /\ M2[k].path = M[k].path
                        /\ M2[k].progress = M[k].progress
                        /\ M2[k].value = IF k = L[d].entry THEN v ELSE M[k].value

\* The innermost load is over: its entry is closed.
Popped(M, m, L, d, M2, L2) ==
  /\ \A j \in 1 .. d - 1 : L2[j] = L[j]
  /\ \A k \in 1 .. m : k # L[d].entry => M2[k] = M[k]
  /\ L[d].entry # 0 => /\ M2[L[d].entry].path = M[L[d].entry].path
                       /\ M2[L[d].entry].progress # "loading"

LEMMA PushKeeps ==
  ASSUME NEW m \in Nat, NEW d \in Nat, NEW M, NEW L, Table(M, m, L, d),
         NEW p, NEW n \in Nat, NEW m2 \in Nat, NEW M2, NEW L2,
         Pushed(M, m, L, d, M2, m2, L2, p, n)
  PROVE  Table(M2, m2, L2, d + 1)
<1> USE DEF Pushed
<1>1. OwnEntry(M2, m2, L2, d + 1)
  BY DEF Table, OwnEntry
<1>2. Once(M2, m2, L2, d + 1)
  <2>1. \A j \in 1 .. d : L[j].entry # n
    BY DEF Table, OwnEntry
  <2>2. ASSUME NEW j \in 1 .. m2, NEW k \in 1 .. m2, M2[j].path = M2[k].path
        PROVE  j = k
    BY <2>2 DEF Table, Once
  <2>3. ASSUME NEW j \in 1 .. d + 1, NEW k \in 1 .. d + 1, L2[j].entry = L2[k].entry
        PROVE  j = k
    BY <2>1, <2>3 DEF Table, Once
  <2> QED BY <2>2, <2>3 DEF Once
<1>3. Progressing(M2, m2, L2, d + 1)
  <2>1. \A j \in 1 .. d : L[j].phase # "open"
    BY DEF Table, Progressing
  <2>2. \A j \in 1 .. d + 1 : L2[j].entry # 0 => M2[L2[j].entry].progress = "loading"
    BY DEF Table, Progressing, OwnEntry
  <2>3. ASSUME NEW k \in 1 .. m2, M2[k].progress = "loading"
        PROVE  \E j \in 1 .. d + 1 :
                 L2[j].entry = k /\ (L2[j].phase # "open" => Filled(M2[k].value))
    <3>1. CASE k \in 1 .. m
      <4>1. PICK j \in 1 .. d :
              L[j].entry = k /\ (L[j].phase # "open" => Filled(M[k].value))
        BY <2>3, <3>1 DEF Table, Progressing
      <4>2. j \in 1 .. d + 1 /\ L2[j] = L[j] /\ M2[k] = M[k]
        BY <3>1
      <4> QED BY <4>1, <4>2
    <3>2. CASE k = n /\ n # 0
      <4>1. d + 1 \in 1 .. d + 1
        OBVIOUS
      <4> QED BY <3>2, <4>1
    <3> QED BY <3>1, <3>2
  <2>4. \A j \in 1 .. d + 1 : j < d + 1 => L2[j].phase # "open"
    BY <2>1
  <2>5. \A j \in 1 .. d + 1 : L2[j].phase # "open" => Filled(L2[j].value)
    BY DEF Table, Progressing
  <2> QED BY <2>2, <2>3, <2>4, <2>5 DEF Progressing
<1> QED BY <1>1, <1>2, <1>3 DEF Table

LEMMA StayKeeps ==
  ASSUME NEW m \in Nat, NEW d \in Nat \ {0}, NEW M, NEW L, Table(M, m, L, d),
         NEW M2, NEW L2, NEW v, Stayed(M, m, L, d, M2, L2, v)
  PROVE  Table(M2, m, L2, d)
<1> USE DEF Stayed
<1>1. \A j \in 1 .. d : L2[j].entry = L[j].entry /\ L2[j].path = L[j].path
  BY SMT
<1>2. OwnEntry(M2, m, L2, d)
  BY <1>1 DEF Table, OwnEntry
<1>3. Once(M2, m, L2, d)
  BY <1>1 DEF Table, Once
<1>4. Progressing(M2, m, L2, d)
  <2>1. \A j \in 1 .. d : L2[j].entry # 0 => M2[L2[j].entry].progress = "loading"
    BY <1>1 DEF Table, Progressing, OwnEntry
  <2>2. ASSUME NEW k \in 1 .. m, M2[k].progress = "loading"
        PROVE  \E j \in 1 .. d :
                 L2[j].entry = k /\ (L2[j].phase # "open" => Filled(M2[k].value))
    <3>1. PICK j \in 1 .. d :
            L[j].entry = k /\ (L[j].phase # "open" => Filled(M[k].value))
      BY <2>2 DEF Table, Progressing
    <3>2. CASE k = L[d].entry
      <4>1. M2[k].value = v /\ L2[j].entry = k
        BY <1>1, <3>1, <3>2
      <4> QED BY <4>1
    <3>3. CASE k # L[d].entry
      <4>1. j \in 1 .. d - 1 /\ M2[k].value = M[k].value
        BY <3>1, <3>3
      <4> QED BY <3>1, <4>1
    <3> QED BY <3>2, <3>3
  <2>3. \A j \in 1 .. d : j < d => L2[j].phase # "open"
    BY DEF Table, Progressing
  <2>4. \A j \in 1 .. d : L2[j].phase # "open" => Filled(L2[j].value)
    BY DEF Table, Progressing
  <2> QED BY <2>1, <2>2, <2>3, <2>4 DEF Progressing
<1> QED BY <1>2, <1>3, <1>4 DEF Table

LEMMA PopKeeps ==
  ASSUME NEW m \in Nat, NEW d \in Nat \ {0}, NEW M, NEW L, Table(M, m, L, d),
         NEW M2, NEW L2, Popped(M, m, L, d, M2, L2)
  PROVE  Table(M2, m, L2, d - 1)
<1> USE DEF Popped
<1>1. \A k \in 1 .. m : M2[k].path = M[k].path
  BY DEF Table, OwnEntry
<1>2. \A j \in 1 .. d - 1 : L[j].entry # L[d].entry
  BY DEF Table, Once
<1>4. OwnEntry(M2, m, L2, d - 1)
  BY <1>1 DEF Table, OwnEntry
<1>5. Once(M2, m, L2, d - 1)
  BY <1>1 DEF Table, Once
<1>6. Progressing(M2, m, L2, d - 1)
  <2>1. \A j \in 1 .. d - 1 : L2[j].entry # 0 => M2[L2[j].entry].progress = "loading"
    BY <1>2 DEF Table, Progressing, OwnEntry
  <2>2. ASSUME NEW k \in 1 .. m, M2[k].progress = "loading"
        PROVE  \E j \in 1 .. d - 1 :
                 L2[j].entry = k /\ (L2[j].phase # "open" => Filled(M2[k].value))
    <3>1. k # L[d].entry /\ M2[k] = M[k]
      BY <2>2
    <3>2. PICK j \in 1 .. d :
            L[j].entry = k /\ (L[j].phase # "open" => Filled(M[k].value))
      BY <2>2, <3>1 DEF Table, Progressing
    <3>3. j \in 1 .. d - 1
      BY <3>1, <3>2
    <3> QED BY <3>1, <3>2, <3>3
  <2>3. \A j \in 1 .. d - 1 : j < d - 1 => L2[j].phase # "open"
    BY DEF Table, Progressing
  <2>4. \A j \in 1 .. d - 1 : L2[j].phase # "open" => Filled(L2[j].value)
    BY DEF Table, Progressing
  <2> QED BY <2>1, <2>2, <2>3, <2>4 DEF Progressing
<1> QED BY <1>4, <1>5, <1>6 DEF Table
-----------------------------------------------------------------------------
(* Sequences                                                               *)

LEMMA AppendFacts ==
  ASSUME NEW S, NEW s \in Seq(S), NEW x \in S
  PROVE  /\ Append(s, x) \in Seq(S)
         /\ Len(Append(s, x)) = Len(s) + 1
         /\ Append(s, x)[Len(s) + 1] = x
         /\ \A j \in 1 .. Len(s) : Append(s, x)[j] = s[j]
BY AppendProperties

LEMMA FrontFacts ==
  ASSUME NEW S, NEW s \in Seq(S), s # <<>>
  PROVE  /\ Len(s) \in Nat \ {0}
         /\ s[Len(s)] \in S
         /\ SubSeq(s, 1, Len(s) - 1) \in Seq(S)
         /\ Len(SubSeq(s, 1, Len(s) - 1)) = Len(s) - 1
         /\ \A j \in 1 .. Len(s) - 1 : SubSeq(s, 1, Len(s) - 1)[j] = s[j]
<1>1. PICK n \in Nat : n + 1 = Len(s)
  <2>1. Len(s) \in Nat \ {0}
    BY EmptySeq
  <2> QED BY <2>1
<1>2. \A i \in 1 .. n + 1 : s[i] \in S
  BY <1>1, ElementOfSeq
<1>3. /\ SubSeq(s, 1, n) \in Seq(S)
      /\ Len(SubSeq(s, 1, n)) = IF 1 <= n THEN n - 1 + 1 ELSE 0
      /\ \A i \in 1 .. n - 1 + 1 : SubSeq(s, 1, n)[i] = s[1 + i - 1]
  <2>1. \A i \in 1 .. n : s[i] \in S
    BY <1>2
  <2> QED BY <2>1, SubSeqProperties
<1>4. Len(SubSeq(s, 1, n)) = n
  BY <1>3
<1>5. ASSUME NEW j \in 1 .. n PROVE SubSeq(s, 1, n)[j] = s[j]
  <2>1. j \in 1 .. n - 1 + 1 /\ 1 + j - 1 = j
    OBVIOUS
  <2> QED BY <2>1, <1>3
<1>6. Len(s) - 1 = n
  BY <1>1
<1> QED BY <1>1, <1>2, <1>3, <1>4, <1>5, <1>6
-----------------------------------------------------------------------------
(* The inductive invariant                                                 *)

Typed ==
  /\ modules \in Seq(Entry)
  /\ loads \in Seq(Load)
  /\ started \in Nat
  /\ parsed \subseteq Dir
  /\ ranMain \in BOOLEAN
  /\ last \in Result

Tables == Table(modules, Len(modules), loads, Len(loads))

IInv == Typed /\ Tables /\ CycleGetsContext

\* The invariant says what the properties say.
LEMMA Implies ==
  IInv => TypeOK /\ LoadedOnce /\ CycleGetsContext
<1> SUFFICES ASSUME IInv PROVE TypeOK /\ LoadedOnce /\ CycleGetsContext
  OBVIOUS
<1>1. DOMAIN modules = 1 .. Len(modules) /\ DOMAIN loads = 1 .. Len(loads)
  BY LenProperties DEF IInv, Typed
<1>2. TypeOK
  BY <1>1 DEF IInv, Typed, Tables, Table, OwnEntry, TypeOK
<1>3. LoadedOnce
  BY <1>1 DEF IInv, Tables, Table, Once, LoadedOnce
<1> QED BY <1>2, <1>3 DEF IInv

LEMMA Initially == Init => IInv
<1> SUFFICES ASSUME Init PROVE IInv
  OBVIOUS
<1>1. Typed
  BY EmptySeq, ModulesAssumption
     DEF Init, Typed, Result, Zero, Values, Progress
<1>2. Tables
  <2>1. Len(modules) = 0 /\ Len(loads) = 0
    BY DEF Init
  <2> QED BY <2>1 DEF Tables, Table, OwnEntry, Once, Progressing
<1>3. CycleGetsContext
  BY DEF Init, CycleGetsContext
<1> QED BY <1>1, <1>2, <1>3 DEF IInv

\* The innermost load, and what is below it.
LEMMA InnerFacts ==
  ASSUME Typed, Tables, loads # <<>>
  PROVE  /\ Len(loads) \in Nat \ {0}
         /\ Inner \in Load /\ Inner = loads[Len(loads)]
         /\ Outer \in Seq(Load) /\ Len(Outer) = Len(loads) - 1
         /\ \A j \in 1 .. Len(loads) - 1 : Outer[j] = loads[j]
         /\ Len(modules) \in Nat
         /\ Inner.entry # 0 => /\ Inner.entry \in 1 .. Len(modules)
                               /\ modules[Inner.entry] \in Entry
         /\ Inner.phase # "open" => Filled(Inner.value)
<1>1. /\ Len(loads) \in Nat \ {0}
      /\ Inner \in Load /\ Inner = loads[Len(loads)]
      /\ Outer \in Seq(Load) /\ Len(Outer) = Len(loads) - 1
      /\ \A j \in 1 .. Len(loads) - 1 : Outer[j] = loads[j]
  BY FrontFacts DEF Typed, Inner, Outer
<1>2. Len(modules) \in Nat
  BY LenProperties DEF Typed
<1>3. Inner.entry # 0 => Inner.entry \in 1 .. Len(modules)
  BY <1>1 DEF Tables, Table, OwnEntry
<1>4. Inner.entry # 0 => modules[Inner.entry] \in Entry
  BY <1>3, ElementOfSeq DEF Typed
<1>5. Inner.phase # "open" => Filled(Inner.value)
  BY <1>1 DEF Tables, Table, Progressing
<1> QED BY <1>1, <1>2, <1>3, <1>4, <1>5

\* A load that has its value stored, as StartBody and EndBody do.
LEMMA Stay ==
  ASSUME Typed, Tables, loads # <<>>, NEW v \in Values, Filled(v),
         NEW ph \in {"body", "delay"},
         loads' = Append(Outer, [Inner EXCEPT !.phase = ph, !.value = v]),
         modules' = SetValue(v)
  PROVE  /\ loads' \in Seq(Load) /\ modules' \in Seq(Entry) /\ Tables'
         /\ Len(modules') = Len(modules)
         /\ \A k \in 1 .. Len(modules) :
              modules[k].progress # "loading" => modules'[k] = modules[k]
<1> DEFINE d == Len(loads)
           m == Len(modules)
           l == [Inner EXCEPT !.phase = ph, !.value = v]
           e == [modules[Inner.entry] EXCEPT !.value = v]
<1>1. l \in Load /\ l.path = Inner.path /\ l.entry = Inner.entry
      /\ l.phase = ph /\ l.value = v
  BY InnerFacts DEF Load
<1>2. Inner.entry # 0 => /\ e \in Entry /\ e.value = v
                        /\ e.path = modules[Inner.entry].path
                        /\ e.progress = modules[Inner.entry].progress
  BY InnerFacts DEF Entry
<1>3. loads' = Append(Outer, l)
  OBVIOUS
<1>4. modules' = IF Inner.entry = 0 THEN modules ELSE [modules EXCEPT ![Inner.entry] = e]
  BY DEF SetValue
<1> HIDE DEF l, e
<1>5. /\ loads' \in Seq(Load) /\ Len(loads') = d /\ loads'[d] = l
      /\ \A j \in 1 .. d - 1 : loads'[j] = loads[j]
  <2>1. Len(Outer) + 1 = d
    BY InnerFacts
  <2>2. \A j \in 1 .. d - 1 : Append(Outer, l)[j] = Outer[j]
    BY <1>1, <2>1, AppendFacts, InnerFacts
  <2>3. Append(Outer, l) \in Seq(Load) /\ Len(Append(Outer, l)) = d /\ Append(Outer, l)[d] = l
    BY <1>1, <2>1, AppendFacts, InnerFacts
  <2> QED BY <1>3, <2>2, <2>3, InnerFacts
<1>6. /\ modules' \in Seq(Entry) /\ Len(modules') = m
      /\ Inner.entry # 0 => modules'[Inner.entry] = e
      /\ \A k \in 1 .. m : k # Inner.entry => modules'[k] = modules[k]
  <2>1. CASE Inner.entry = 0
    BY <2>1, <1>4 DEF Typed
  <2>2. CASE Inner.entry # 0
    <3>1. Inner.entry \in 1 .. m
      BY <2>2, InnerFacts
    <3> QED BY <2>2, <3>1, <1>2, <1>4, ExceptSeq DEF Typed
  <2> QED BY <2>1, <2>2
<1>7. \A k \in 1 .. m : /\ modules'[k].path = modules[k].path
                         /\ modules'[k].progress = modules[k].progress
                         /\ modules'[k].value = IF k = Inner.entry THEN v
                                                ELSE modules[k].value
  <2> SUFFICES ASSUME NEW k \in 1 .. m
               PROVE  /\ modules'[k].path = modules[k].path
                      /\ modules'[k].progress = modules[k].progress
                      /\ modules'[k].value = IF k = Inner.entry THEN v ELSE modules[k].value
    OBVIOUS
  <2>1. CASE k = Inner.entry
    BY <2>1, <1>2, <1>6
  <2>2. CASE k # Inner.entry
    BY <2>2, <1>6
  <2> QED BY <2>1, <2>2
<1>8. Tables'
  <2>1. m \in Nat /\ d \in Nat \ {0} /\ Inner = loads[d]
    BY InnerFacts
  <2>2. Table(modules, m, loads, d)
    BY DEF Tables
  <2>a. /\ loads'[d].path = loads[d].path /\ loads'[d].entry = loads[d].entry
        /\ loads'[d].phase # "open" /\ loads'[d].value = v
    BY <2>1, <1>1, <1>5
  <2>b. \A k \in 1 .. m : /\ modules'[k].path = modules[k].path
                           /\ modules'[k].progress = modules[k].progress
                           /\ modules'[k].value = IF k = loads[d].entry THEN v
                                                  ELSE modules[k].value
    BY <2>1, <1>7
  <2>c. \A j \in 1 .. d - 1 : loads'[j] = loads[j]
    BY <1>5
  <2>d. Stayed(modules, m, loads, d, modules', loads', v)
    BY <2>a, <2>b, <2>c DEF Stayed
  <2>3. Table(modules', m, loads', d)
    BY <2>1, <2>2, <2>d, StayKeeps
  <2> QED BY <2>3, <1>5, <1>6 DEF Tables
<1>9. \A k \in 1 .. m : modules[k].progress # "loading" => modules'[k] = modules[k]
  BY <1>6, InnerFacts DEF Tables, Table, Progressing
<1> QED BY <1>5, <1>6, <1>8, <1>9

\* A load that is over.
LEMMA Pop ==
  ASSUME Typed, Tables, loads # <<>>, NEW v \in Values, NEW pr \in {"loaded", "failed"},
         loads' = Outer,
         modules' = IF Inner.entry = 0 THEN modules
                    ELSE [modules EXCEPT ![Inner.entry].value = v,
                                         ![Inner.entry].progress = pr]
  PROVE  /\ loads' \in Seq(Load) /\ modules' \in Seq(Entry) /\ Tables'
         /\ Len(modules') = Len(modules)
         /\ \A k \in 1 .. Len(modules) :
              modules[k].progress # "loading" => modules'[k] = modules[k]
<1> DEFINE d == Len(loads)
           m == Len(modules)
           e == [modules[Inner.entry] EXCEPT !.value = v, !.progress = pr]
<1>1. Inner.entry # 0 => /\ e \in Entry /\ e.path = modules[Inner.entry].path
                        /\ e.progress = pr
  BY InnerFacts DEF Entry, Progress
<1>2. modules' = IF Inner.entry = 0 THEN modules ELSE [modules EXCEPT ![Inner.entry] = e]
  OBVIOUS
<1> HIDE DEF e
<1>3. /\ modules' \in Seq(Entry) /\ Len(modules') = m
      /\ Inner.entry # 0 => modules'[Inner.entry] = e
      /\ \A k \in 1 .. m : k # Inner.entry => modules'[k] = modules[k]
  <2>1. CASE Inner.entry = 0
    BY <2>1, <1>2 DEF Typed
  <2>2. CASE Inner.entry # 0
    <3>1. Inner.entry \in 1 .. m
      BY <2>2, InnerFacts
    <3>2. e \in Entry /\ modules \in Seq(Entry)
      BY <2>2, <1>1 DEF Typed
    <3>3. modules' = [modules EXCEPT ![Inner.entry] = e]
      BY <2>2, <1>2
    <3>4. PICK i \in 1 .. Len(modules) : i = Inner.entry
      BY <3>1
    <3>5. /\ [modules EXCEPT ![i] = e] \in Seq(Entry)
          /\ Len([modules EXCEPT ![i] = e]) = Len(modules)
          /\ \A k \in 1 .. Len(modules) :
               [modules EXCEPT ![i] = e][k] = IF k = i THEN e ELSE modules[k]
      BY <3>2, ExceptSeq
    <3> QED BY <3>3, <3>4, <3>5
  <2> QED BY <2>1, <2>2
<1>4. m \in Nat /\ d \in Nat \ {0} /\ Inner = loads[d]
      /\ loads' \in Seq(Load) /\ Len(loads') = d - 1
      /\ \A j \in 1 .. d - 1 : loads'[j] = loads[j]
  BY InnerFacts
<1>5. Table(modules, m, loads, d)
  BY DEF Tables
<1>6. /\ Table(modules', m, loads', d - 1)
      /\ \A k \in 1 .. m : modules[k].progress # "loading" => modules'[k] = modules[k]
  <2>1. loads[d].entry # 0 => /\ modules'[loads[d].entry].path = modules[loads[d].entry].path
                              /\ modules'[loads[d].entry].progress # "loading"
    BY <1>1, <1>3, <1>4
  <2>2. \A k \in 1 .. m : k # loads[d].entry => modules'[k] = modules[k]
    BY <1>3, <1>4
  <2>3. \A j \in 1 .. d - 1 : loads'[j] = loads[j]
    BY <1>4
  <2>4. Popped(modules, m, loads, d, modules', loads')
    BY <2>1, <2>2, <2>3 DEF Popped
  <2>5. Table(modules', m, loads', d - 1)
    BY <2>4, <1>4, <1>5, PopKeeps
  <2>6. loads[d].entry # 0 => modules[loads[d].entry].progress = "loading"
    BY <1>4, <1>5 DEF Table, Progressing
  <2>7. 0 \notin 1 .. m
    OBVIOUS
  <2> QED BY <2>2, <2>5, <2>6, <2>7
<1> QED BY <1>3, <1>4, <1>6 DEF Tables

\* A load that begins.
LEMMA Push ==
  ASSUME Typed, Tables, Importing, NEW p \in Path, NEW dir \in Dir, NEW n \in Nat,
         loads' = Append(loads, [path |-> p, entry |-> n, phase |-> "open",
                                 value |-> Zero, dir |-> dir]),
         \/ n = 0 /\ loads = <<>> /\ p = MainFile /\ modules' = modules
         \/ /\ n = Len(modules) + 1 /\ ~Cached(p)
            /\ modules' = Append(modules, [path |-> p, value |-> Zero,
                                           progress |-> "loading"])
  PROVE  /\ loads' \in Seq(Load) /\ modules' \in Seq(Entry) /\ Tables'
         /\ Len(modules') >= Len(modules)
         /\ \A k \in 1 .. Len(modules) : modules'[k] = modules[k]
<1> DEFINE d == Len(loads)
           m == Len(modules)
           l == [path |-> p, entry |-> n, phase |-> "open", value |-> Zero, dir |-> dir]
           e == [path |-> p, value |-> Zero, progress |-> "loading"]
<1>1. /\ l \in Load /\ l.path = p /\ l.entry = n /\ l.phase = "open"
      /\ e \in Entry /\ e.path = p /\ e.progress = "loading"
  BY DEF Load, Entry, Values, Zero, Progress
<1>2. /\ loads' = Append(loads, l)
      /\ \/ n = 0 /\ loads = <<>> /\ p = MainFile /\ modules' = modules
         \/ n = m + 1 /\ ~Cached(p) /\ modules' = Append(modules, e)
  OBVIOUS
<1> HIDE DEF l, e
<1>3. /\ m \in Nat /\ d \in Nat /\ DOMAIN modules = 1 .. m
      /\ loads \in Seq(Load) /\ modules \in Seq(Entry)
      /\ d = 0 <=> loads = <<>>
  BY LenProperties, EmptySeq DEF Typed
<1>4. /\ loads' \in Seq(Load) /\ Len(loads') = d + 1 /\ loads'[d + 1] = l
      /\ \A j \in 1 .. d : loads'[j] = loads[j]
  BY <1>1, <1>2, <1>3, AppendFacts
<1>5. d > 0 => loads[d].phase # "open"
  BY <1>3 DEF Importing, Inner
<1>8. /\ loads'[d + 1].path = p /\ loads'[d + 1].entry = n
      /\ loads'[d + 1].phase = "open"
  BY <1>1, <1>4
<1>9. Table(modules, m, loads, d)
  BY DEF Tables
<1>6. CASE n = 0 /\ loads = <<>> /\ p = MainFile /\ modules' = modules
  <2>1. \A k \in 1 .. m : modules'[k] = modules[k]
    BY <1>6
  <2>2. n = 0 /\ d = 0 /\ p = MainFile /\ m = m
    BY <1>3, <1>6
  <2>3. Table(modules', m, loads', d + 1)
    <3>1. Pushed(modules, m, loads, d, modules', m, loads', p, n)
      BY <2>1, <2>2, <1>4, <1>5, <1>8 DEF Pushed
    <3> QED BY <3>1, <1>3, <1>9, PushKeeps
  <2> QED BY <2>3, <1>3, <1>4, <1>6 DEF Tables
<1>7. CASE n = m + 1 /\ ~Cached(p) /\ modules' = Append(modules, e)
  <2>1. /\ modules' \in Seq(Entry) /\ Len(modules') = m + 1 /\ modules'[n] = e
        /\ \A k \in 1 .. m : modules'[k] = modules[k]
    <3> HIDE DEF m
    <3>1. /\ Append(modules, e) \in Seq(Entry) /\ Len(Append(modules, e)) = Len(modules) + 1
          /\ Append(modules, e)[Len(modules) + 1] = e
          /\ \A k \in 1 .. Len(modules) : Append(modules, e)[k] = modules[k]
      BY <1>1, <1>3, AppendFacts
    <3> QED BY <3>1, <1>3, <1>7 DEF m
  <2>2. \A k \in 1 .. m : modules[k].path # p
    BY <1>3, <1>7 DEF Cached
  <2>4. n = m + 1 /\ m + 1 \in Nat /\ modules'[n].path = p /\ modules'[n].progress = "loading"
    BY <1>1, <1>3, <1>7, <2>1
  <2>3. Table(modules', m + 1, loads', d + 1)
    <3>1. Pushed(modules, m, loads, d, modules', m + 1, loads', p, n)
      BY <2>1, <2>2, <2>4, <1>4, <1>5, <1>8 DEF Pushed
    <3> QED BY <3>1, <2>4, <1>3, <1>9, PushKeeps
  <2> QED BY <2>1, <2>3, <1>3, <1>4 DEF Tables
<1> QED BY <1>2, <1>6, <1>7
-----------------------------------------------------------------------------
(* Steps                                                                   *)

\* What every step keeps: the invariant, and the entries that are closed.
Good == /\ IInv'
        /\ Len(modules') >= Len(modules)
        /\ \A k \in 1 .. Len(modules) :
             modules[k].progress # "loading" => modules'[k] = modules[k]

\* Finish, with which most loads end.
LEMMA FinishKeeps ==
  ASSUME IInv, loads # <<>>, NEW res \in {"ok", "failed"}, NEW v \in Values,
         Finish(res, v), parsed' \subseteq Dir, started' \in Nat
  PROVE  Good
<1> DEFINE pr == IF res = "ok" THEN "loaded" ELSE "failed"
<1>1. pr \in {"loaded", "failed"} /\ pr \in Progress
  BY DEF Progress
<1>2. /\ loads' = Outer
      /\ modules' = IF Inner.entry = 0 THEN modules
                    ELSE [modules EXCEPT ![Inner.entry].value = v,
                                         ![Inner.entry].progress = pr]
      /\ last' = [res |-> res, path |-> Inner.path, value |-> v, relative |-> FALSE,
                  progress |-> pr]
      /\ ranMain' = ranMain
  BY DEF Finish
<1> HIDE DEF pr
<1>3. /\ loads' \in Seq(Load) /\ modules' \in Seq(Entry) /\ Tables'
      /\ Len(modules') = Len(modules)
      /\ \A k \in 1 .. Len(modules) :
           modules[k].progress # "loading" => modules'[k] = modules[k]
  BY <1>1, <1>2, Pop DEF IInv
<1>4. Inner.path \in Path
  BY InnerFacts DEF IInv, Load
<1>5. last' \in Result /\ last'.progress # "loading"
  BY <1>1, <1>2, <1>4 DEF Result
<1>6. Len(modules') >= Len(modules)
  <2>1. Len(modules) \in Nat
    BY LenProperties DEF IInv, Typed
  <2> QED BY <2>1, <1>3
<1> QED BY <1>2, <1>3, <1>5, <1>6 DEF Good, IInv, Typed, CycleGetsContext

LEMMA EntryFacts ==
  ASSUME IInv, Importing, NEW p \in Path, Cached(p)
  PROVE  /\ At(p) \in 1 .. Len(modules)
         /\ modules[At(p)] \in Entry
         /\ modules[At(p)].progress = "loading" => Filled(modules[At(p)].value)
<1>1. Len(modules) \in Nat /\ Len(loads) \in Nat /\ DOMAIN modules = 1 .. Len(modules)
  BY LenProperties DEF IInv, Typed
<1>2. At(p) \in 1 .. Len(modules)
  BY <1>1 DEF At, Cached
<1>3. modules[At(p)] \in Entry
  BY <1>2, ElementOfSeq DEF IInv, Typed
<1>4. ASSUME modules[At(p)].progress = "loading"
      PROVE  Filled(modules[At(p)].value)
  <2>1. PICK j \in 1 .. Len(loads) :
          /\ loads[j].entry = At(p)
          /\ loads[j].phase # "open" => Filled(modules[At(p)].value)
    BY <1>2, <1>4 DEF IInv, Tables, Table, Progressing
  <2>2. loads[j].phase # "open"
    <3>1. CASE j < Len(loads)
      BY <3>1 DEF IInv, Tables, Table, Progressing
    <3>2. CASE j = Len(loads)
      <4>1. loads # <<>>
        BY <2>1, EmptySeq
      <4> QED BY <3>2, <4>1 DEF Importing, Inner
    <3> QED BY <2>1, <3>1, <3>2, <1>1
  <2> QED BY <2>1, <2>2
<1> QED BY <1>2, <1>3, <1>4

LEMMA ImportCachedKeeps ==
  ASSUME IInv, Importing, NEW p \in Path, NEW relative \in BOOLEAN,
         ImportCached(p, relative)
  PROVE  Good
<1>1. /\ Cached(p)
      /\ last' = [res |-> "ok", path |-> p, value |-> modules[At(p)].value,
                  progress |-> modules[At(p)].progress, relative |-> relative]
      /\ UNCHANGED <<modules, loads, started, parsed, ranMain>>
  BY DEF ImportCached
<1>2. last' \in Result
  BY <1>1, EntryFacts DEF Result, Entry
<1>3. CycleGetsContext'
  BY <1>1, EntryFacts DEF CycleGetsContext, Filled
<1>4. Typed' /\ Tables'
  BY <1>1, <1>2 DEF IInv, Typed, Tables
<1>5. Len(modules) \in Nat
  BY LenProperties DEF IInv, Typed
<1> QED BY <1>1, <1>3, <1>4, <1>5 DEF Good, IInv

LEMMA ImportNewKeeps ==
  ASSUME IInv, Importing, NEW p \in Path, NEW dir \in Dir, ImportNew(p, dir)
  PROVE  Good
<1>1. Recorded(dir) \in Dir
  BY DEF Recorded, Dir
<1>2. Len(modules) \in Nat /\ Len(modules) + 1 \in Nat
  BY LenProperties DEF IInv, Typed
<1>3. /\ loads' \in Seq(Load) /\ modules' \in Seq(Entry) /\ Tables'
      /\ Len(modules') >= Len(modules)
      /\ \A k \in 1 .. Len(modules) : modules'[k] = modules[k]
  BY <1>1, <1>2, Push DEF IInv, ImportNew
<1> QED BY <1>3 DEF Good, IInv, Typed, ImportNew, CycleGetsContext

\* Every step keeps the invariant and leaves closed entries alone.
LEMMA StepKeeps ==
  ASSUME IInv, [Next]_vars
  PROVE  Good
<1>a. Len(modules) \in Nat
  BY LenProperties DEF IInv, Typed
<1>1. ASSUME NEW p \in Path, NEW from \in Dir, Module_importRel(p, from) PROVE Good
  <2>1. CASE ImportCached(p, TRUE)
    BY <1>1, <2>1, ImportCachedKeeps DEF Module_importRel
  <2>2. CASE ImportNew(p, from)
    BY <1>1, <2>2, ImportNewKeeps DEF Module_importRel
  <2>3. CASE /\ last' = [res |-> "not found", path |-> p, value |-> Zero,
                         progress |-> "failed", relative |-> TRUE]
             /\ UNCHANGED <<modules, loads, started, parsed, ranMain>>
    <3>1. last' \in Result /\ CycleGetsContext'
      BY <2>3 DEF Result, Values, Zero, Progress, CycleGetsContext
    <3>2. modules' = modules /\ loads' = loads
      BY <2>3
    <3>3. Typed' /\ Tables'
      BY <3>1, <3>2, <2>3 DEF IInv, Typed, Tables
    <3> QED BY <3>1, <3>2, <3>3, <1>a DEF Good, IInv
  <2> QED BY <1>1, <2>1, <2>2, <2>3 DEF Module_importRel
<1>2. ASSUME NEW p \in Path, NEW dir \in Dir, Module_import(p, dir) PROVE Good
  BY <1>2, ImportCachedKeeps, ImportNewKeeps DEF Module_import
<1>3. ASSUME NEW dir \in Dir, Module_fromFile(dir) PROVE Good
  <2>1. /\ loads = <<>> /\ Append(loads, [path |-> MainFile, entry |-> 0, phase |-> "open",
                                          value |-> Zero, dir |-> dir]) = loads'
        /\ modules' = modules
    BY <1>3 DEF Module_fromFile
  <2>2. MainFile \in Path /\ 0 \in Nat /\ Importing
    BY <2>1, ModulesAssumption DEF Importing
  <2>3. loads' \in Seq(Load) /\ modules' \in Seq(Entry) /\ Tables'
    BY <2>1, <2>2, Push DEF IInv
  <2> QED BY <2>1, <2>3, <1>3, <1>a
          DEF Good, IInv, Typed, Module_fromFile, CycleGetsContext
<1>4. ASSUME OpenFails PROVE Good
  <2>1. Zero \in Values /\ loads # <<>> /\ Finish("failed", Zero)
    BY <1>4 DEF OpenFails, Active, Values, Zero
  <2> QED BY <2>1, FinishKeeps DEF IInv, Typed, Finish
<1>5. ASSUME StartBody PROVE Good
  <2>1. /\ Own(started + 1) \in Values /\ Filled(Own(started + 1))
        /\ "body" \in {"body", "delay"} /\ loads # <<>>
    BY <1>5 DEF StartBody, Active, Own, Values, Filled, IInv, Typed
  <2>2. /\ loads' \in Seq(Load) /\ modules' \in Seq(Entry) /\ Tables'
        /\ Len(modules') = Len(modules)
        /\ \A k \in 1 .. Len(modules) :
             modules[k].progress # "loading" => modules'[k] = modules[k]
    BY <1>5, <2>1, Stay DEF StartBody, IInv
  <2>3. Inner.dir \in Dir
    BY <2>1, InnerFacts DEF IInv, Load
  <2> QED BY <2>2, <2>3, <1>5, <1>a DEF StartBody, Good, IInv, Typed, CycleGetsContext
<1>6. ASSUME NEW export \in BOOLEAN, NEW delay \in BOOLEAN, EndBody(export, delay)
      PROVE  Good
  <2> DEFINE v == IF export THEN Exported(Inner.value.load) ELSE Inner.value
  <2>1. loads # <<>> /\ Inner.phase = "body"
    BY <1>6 DEF EndBody, Active
  <2>2. v \in Values /\ Filled(v)
    BY <2>1, InnerFacts DEF IInv, Load, Values, Exported, Filled
  <2>3. CASE delay
    <3>1. /\ modules' = SetValue(v)
          /\ loads' = Append(Outer, [Inner EXCEPT !.phase = "delay", !.value = v])
          /\ UNCHANGED <<started, parsed, ranMain, last>>
      BY <1>6, <2>3 DEF EndBody
    <3> HIDE DEF v
    <3>2. /\ loads' \in Seq(Load) /\ modules' \in Seq(Entry) /\ Tables'
          /\ Len(modules') = Len(modules)
          /\ \A k \in 1 .. Len(modules) :
               modules[k].progress # "loading" => modules'[k] = modules[k]
      BY <2>1, <2>2, <3>1, Stay DEF IInv
    <3> QED BY <3>1, <3>2, <1>a DEF Good, IInv, Typed, CycleGetsContext
  <2>4. CASE ~delay
    <3>1. Finish("ok", v)
      BY <1>6, <2>4 DEF EndBody
    <3> HIDE DEF v
    <3>2. parsed' \subseteq Dir /\ started' \in Nat
      BY <3>1 DEF IInv, Typed, Finish
    <3>3. "ok" \in {"ok", "failed"}
      OBVIOUS
    <3> QED BY <2>1, <2>2, <3>1, <3>2, <3>3, FinishKeeps
  <2> QED BY <2>3, <2>4
<1>7. ASSUME EndDelay PROVE Good
  <2>1. loads # <<>> /\ Finish("ok", Inner.value)
    BY <1>7 DEF EndDelay, Active
  <2>2. Inner.value \in Values
    BY <2>1, InnerFacts DEF IInv, Load
  <2> QED BY <2>1, <2>2, FinishKeeps DEF IInv, Typed, Finish
<1>8. ASSUME BodyFails PROVE Good
  <2>1. loads # <<>> /\ Finish("failed", Inner.value)
    BY <1>8 DEF BodyFails, Active
  <2>2. Inner.value \in Values
    BY <2>1, InnerFacts DEF IInv, Load
  <2> QED BY <2>1, <2>2, FinishKeeps DEF IInv, Typed, Finish
<1>9. ASSUME NEW ok \in BOOLEAN, LoadNative(ok) PROVE Good
  <2> DEFINE v == IF ok THEN Own(started + 1) ELSE Nil
             pr == IF ok THEN "loaded" ELSE "failed"
  <2>1. loads # <<>> /\ Inner.path \in Native /\ started' = started + 1
    BY <1>9 DEF LoadNative, Active
  <2>2. v \in Values /\ pr \in {"loaded", "failed"}
    BY DEF Own, Nil, Values, IInv, Typed
  <2>3. Inner.entry # 0
    <3>1. Inner.entry = 0 => Inner.path = MainFile
      BY <2>1, InnerFacts DEF IInv, Tables, Table, OwnEntry
    <3> QED BY <3>1, <2>1, ModulesAssumption
  <2>4. /\ loads' = Outer /\ parsed' = parsed /\ ranMain' = ranMain
        /\ modules' = [modules EXCEPT ![Inner.entry].value = v,
                                      ![Inner.entry].progress = pr]
        /\ last' = [res |-> IF ok THEN "ok" ELSE "failed", path |-> Inner.path,
                    value |-> v, relative |-> FALSE, progress |-> pr]
    BY <1>9 DEF LoadNative
  <2> HIDE DEF v, pr
  <2>5. /\ loads' \in Seq(Load) /\ modules' \in Seq(Entry) /\ Tables'
        /\ Len(modules') = Len(modules)
        /\ \A k \in 1 .. Len(modules) :
             modules[k].progress # "loading" => modules'[k] = modules[k]
    BY <2>1, <2>2, <2>3, <2>4, Pop DEF IInv
  <2>6. Inner.path \in Path
    BY <2>1, InnerFacts DEF IInv, Load
  <2>7. last' \in Result /\ last'.progress # "loading"
    BY <2>2, <2>4, <2>6 DEF Result, Progress
  <2> QED BY <2>1, <2>4, <2>5, <2>7, <1>a DEF Good, IInv, Typed, CycleGetsContext
<1>10. CASE UNCHANGED vars
  BY <1>10, <1>a DEF vars, Good, IInv, Typed, Tables, CycleGetsContext
<1> QED BY <1>1, <1>2, <1>3, <1>4, <1>5, <1>6, <1>7, <1>8, <1>9, <1>10 DEF Next
-----------------------------------------------------------------------------
(* The theorems                                                            *)

LEMMA Invariant == Spec => []IInv
<1>1. IInv /\ [Next]_vars => IInv'
  BY StepKeeps DEF Good
<1> QED BY Initially, <1>1, PTL DEF Spec

\* Every reachable state of the loader is well formed, and every load but the
\* command line's works on the entry of its own path.
THEOREM TypeCorrect == Spec => []TypeOK
BY Invariant, Implies, PTL

\* No import graph, failure or retry makes two copies of a module: a file has
\* at most one entry, and an entry is being loaded by at most one load.
THEOREM NeverLoadedTwice == Spec => []LoadedOnce
BY Invariant, Implies, PTL

\* An import that runs into a module that is still being loaded gets the
\* context the module is filling, or what it exports.
THEOREM CyclesFilled == Spec => []CycleGetsContext
BY Invariant, Implies, PTL

\* Once a load is over, successfully or not, its entry keeps its value.
THEOREM EntriesKept == Spec => ValueStable
<1>1. IInv /\ [Next]_vars =>
        [\A k \in DOMAIN modules :
           modules[k].progress # "loading" => modules'[k] = modules[k]]_vars
  <2> SUFFICES ASSUME IInv, [Next]_vars
               PROVE  \A k \in DOMAIN modules :
                        modules[k].progress # "loading" => modules'[k] = modules[k]
    OBVIOUS
  <2>1. DOMAIN modules = 1 .. Len(modules)
    BY LenProperties DEF IInv, Typed
  <2> QED BY <2>1, StepKeeps DEF Good
<1> QED BY Invariant, <1>1, PTL DEF Spec, ValueStable
=============================================================================

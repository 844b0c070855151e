------------------------------ MODULE Builtins ------------------------------
(***************************************************************************)
(* Lists, Sorting, Blobs and PatternMatch side by side.  They share        *)
(* nothing: `part` says which of them a behaviour is about, and the        *)
(* variables of the others keep their values.                              *)
(***************************************************************************)
EXTENDS Lists, Sorting, Blobs, PatternMatch

VARIABLE part

vars == <<part, lvars, svars, bvars, mvars>>

Init ==
  /\ part \in {"lists", "sorting", "blobs", "match"}
  /\ ListsInit /\ SortingInit /\ BlobsInit /\ MatchInit
  /\ part # "sorting" => stack = <<>>
  /\ part # "blobs" => fmt = <<>> /\ given = <<>>

Next ==
  \/ part = "lists" /\ ListsNext /\ UNCHANGED <<part, svars, bvars, mvars>>
  \/ part = "sorting" /\ SortingNext /\ UNCHANGED <<part, lvars, bvars, mvars>>
  \/ part = "blobs" /\ BlobsNext /\ UNCHANGED <<part, lvars, svars, mvars>>
  \/ part = "match" /\ MatchNext /\ UNCHANGED <<part, lvars, svars, bvars>>

Spec == Init /\ [][Next]_vars /\ MatchFairness
=============================================================================

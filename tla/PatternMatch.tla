---------------------------- MODULE PatternMatch ----------------------------
(***************************************************************************)
(* match and match_all of src/src/modules/modpcre2.c: match_all asks       *)
(* pcre2_match for one match after the other, and re_match decides where   *)
(* the next search starts and whether it may find the empty string there.  *)
(*                                                                         *)
(* The library is external: pcre2_match may find anything its documentation*)
(* allows, which covers every pattern.  (A pattern cannot use \K in a      *)
(* lookaround: PCRE2 refuses it since 10.38.  Before, a match could start  *)
(* after its end or before the offset.)                                    *)
(***************************************************************************)
EXTENDS Integers, Sequences

CONSTANT Length  \* of the subject

ASSUME PatternMatchAssumption == Length \in Nat

VARIABLES
  offset,        \* where the next search starts
  prevWasEmpty,  \* it must not find the empty string there
  found,         \* the last match, as start and end
  all,           \* whether match_all was called, not match
  step           \* "idle", then what the function does next: "search" or "push",
                 \* until it is "done" or has "raised"

mvars == <<offset, prevWasEmpty, found, all, step>>

MatchInit ==
  /\ offset = 0
  /\ prevWasEmpty = FALSE
  /\ found = <<>>
  /\ all = FALSE
  /\ step = "idle"

\* match or match_all is called (re is all zeros); re_prepare refuses what is
\* not a pattern.
Call(a) ==
  /\ step = "idle"
  /\ all' = a
  /\ step' \in {"search", "raised"}
  /\ UNCHANGED <<offset, prevWasEmpty, found>>

\* What pcre2_match may find: where the attempt that succeeds starts (which \K
\* may put before the start of the match), the start and the end.
pcre2_match(from, notEmptyAtStart) ==
  {m \in [char : from .. Length, start : from .. Length, end : from .. Length] :
     /\ m.char <= m.start /\ m.start <= m.end
     /\ notEmptyAtStart => ~(m.start = from /\ m.end = from)}

\* An empty match does not forbid the next search the same one.
re_matchAgain(m) ==
  /\ offset' = m.end
  /\ prevWasEmpty' = FALSE

re_match(m) ==
  LET stuck == m.start # m.end /\ m.end <= m.char /\ m.char < Length
  IN /\ offset' = IF stuck THEN m.end + 1 ELSE m.end
     /\ prevWasEmpty' = (m.start = m.end)

Search(m) ==
  /\ step = "search"
  /\ m \in pcre2_match(offset, prevWasEmpty)
  /\ re_match(m)
  /\ found' = <<m.start, m.end>>
  /\ step' = "push"
  /\ UNCHANGED all

\* The positions are pushed one by one by match, as a list by match_all, which
\* goes on.
PushFound ==
  /\ step = "push"
  /\ step' = IF all THEN "search" ELSE "done"
  /\ UNCHANGED <<offset, prevWasEmpty, found, all>>

NoMatch ==
  /\ step = "search"
  /\ step' = "done"
  /\ UNCHANGED <<offset, prevWasEmpty, found, all>>

\* The library gives up, on a limit for example.
MatchError ==
  /\ step = "search"
  /\ step' = "raised"
  /\ UNCHANGED <<offset, prevWasEmpty, found, all>>

Matches ==
  [char : 0 .. Length, start : 0 .. Length, end : 0 .. Length]

Loop ==
  \/ \E m \in Matches : Search(m)
  \/ PushFound
  \/ NoMatch
  \/ MatchError

MatchNext == (\E a \in BOOLEAN : Call(a)) \/ Loop

\* A loop in C: it takes its next step as long as there is one.
MatchFairness == WF_mvars(Loop)
-----------------------------------------------------------------------------
(* Properties                                                              *)

\* match_all ends for every pattern and every subject, also when it finds empty
\* matches, which leave the search where it was.
MatchAllEnds == step = "search" ~> step \in {"done", "raised"}
=============================================================================

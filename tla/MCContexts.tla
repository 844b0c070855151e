------------------------------ MODULE MCContexts ------------------------------
EXTENDS ContextsRefinement, Bitwise, TLC

\* HASH(k) == k ^ 0xF93A, and 0xF93A = 63802.
MCHash == [k \in Key |-> k ^^ 63802]

\* Sound for safety: no definition tells two contexts, or two values, apart.
Symmetry == Permutations(Ctx) \cup Permutations(Value)
=============================================================================

SPECIFICATION Spec
CONSTANTS
  Ctx = {c1, c2, c3}
  NoCtx = NoCtx
  Key = {1}
  Value = {v, w}
  NoValue = NoValue
  StartCap = 2
  Hash <- MCHash
INVARIANTS
  ParentsAcyclic
PROPERTIES
  LockedFrozen
  ImplementsScopes
SYMMETRY Symmetry

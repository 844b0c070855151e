SPECIFICATION FairSpec
CONSTANTS
  Ctx = {c1}
  NoCtx = NoCtx
  Key = {1, 2, 5, 9}
  Value = {v, w}
  NoValue = NoValue
  StartCap = 2
  Hash <- MCHash
INVARIANTS
  TypeOK
  ProbeFindsKey
  CountBelowCapacity
PROPERTIES
  CallsReturn
  ImplementsScopes

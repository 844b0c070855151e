SPECIFICATION PSpec
CONSTANTS
  Ctx = {c1}
  NoCtx = NoCtx
  Key = {1, 2, 5}
  Value = {v, w}
  NoValue = NoValue
  StartCap = 2
  MaxFrames = 2
  Hash <- MCHash
INVARIANTS
  HeldSlotKeepsKey
  CalleeWasBound
PROPERTIES
  LockedFrozen
SYMMETRY Symmetry

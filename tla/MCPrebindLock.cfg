SPECIFICATION PSpec
CONSTANTS
  Ctx = {c1}
  NoCtx = NoCtx
  Key = {1}
  Value = {v}
  NoValue = NoValue
  StartCap = 2
  MaxFrames = 1
  Hash <- MCHash
INVARIANTS
  BindNeverLocked

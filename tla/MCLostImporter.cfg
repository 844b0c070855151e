CONSTANTS
  Stack = {1, 2, 3, 4}
  NoStack = 0
  Value = {v}
  PooledMax = 1
  Context = {1, 2, 3, 4}
  NoContext = 0
  MaxFrames = 5
  MaxValues = 1
SPECIFICATION Spec
VIEW View
INVARIANT DotsReachEnclosing

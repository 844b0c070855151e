CONSTANTS
  Stack = {1, 2, 3, 4}
  NoStack = 0
  Value = {v, w}
  PooledMax = 1
  Context = {1, 2, 3, 4}
  NoContext = 0
  MaxFrames = 4
  MaxValues = 3
SPECIFICATION Spec
VIEW View
SYMMETRY Symmetry
CONSTRAINT Deep
INVARIANTS TypeOK PoolSound PreviousIsEnclosing BodyContext
PROPERTIES OnlyCatchSwallows IteratedStackKept ImplementsStackOfStacks

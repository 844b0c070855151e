CONSTANTS
  Path = {main, a, n}
  Native = {n}
  MainFile = main
SPECIFICATION Spec
INVARIANTS TypeOK LoadedOnce CycleGetsContext
PROPERTY ValueStable

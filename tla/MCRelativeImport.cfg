CONSTANTS
  Path = {main, a, n}
  Native = {n}
  MainFile = main
SPECIFICATION Spec
INVARIANT RelativeFound

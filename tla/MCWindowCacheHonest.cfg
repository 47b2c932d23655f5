SPECIFICATION Spec
CONSTANTS
  p1 = p1
  p2 = p2
  None = None
  Procs <- MCProcs
  MaxCrashes = 1
SYMMETRY Alike
INVARIANTS
  CacheIsHonest

SPECIFICATION Spec
CONSTANTS
  p1 = p1
  p2 = p2
  None = None
  Procs <- MCProcs
  Quota = 2
  Window = 1
  RotateEvery = 2
  MaxTime = 3
  MaxCalls = 4
SYMMETRY Alike
INVARIANTS
  QuotaAcrossRestarts
  NothingForgotten
PROPERTIES
  PacedChildHasRoom

SPECIFICATION CallSpec
CONSTANTS
  t1 = t1
  t2 = t2
  None = None
  Threads <- MCThreads
  Callers <- MCThreads
  MaxCalls = 2
  BudgetWindow = 2
  Threshold = 2
  HitWindow = 2
  BaseCooldown = 2
  MaxCooldown = 4
  MaxRetries = 3
INVARIANTS
  LeakBounded
  OverdraftBounded
PROPERTIES
  BreakerCloses

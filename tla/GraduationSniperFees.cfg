SPECIFICATION Spec
CONSTANTS
  m1 = m1
  m2 = m2
  Mints = {m1, m2}
  Levels <- FourLevels
  MaxConcurrent = 1
  MaxTracked = 2
  MaxOrders = 2
  MaxCrashes = 0
INVARIANTS FeesReachBalance

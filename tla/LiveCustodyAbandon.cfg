SPECIFICATION Spec
CONSTANTS
  e1 = e1
  e2 = e2
  Endpoints = {e1, e2}
  Lot = 4
  Fills = {4}
  LegPct = 50
  MaxAttempts = 2
  ConfirmWait = 1
  Fresh = 2
  Life = 3
  MaxBuys = 1
  MaxTxs = 4
  MaxFaults = 0
  MaxCrashes = 0
SYMMETRY Swap
PROPERTIES AbandonedOnlyWhenDead
CHECK_DEADLOCK FALSE

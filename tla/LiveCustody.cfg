SPECIFICATION Spec
CONSTANTS
  e1 = e1
  e2 = e2
  Endpoints = {e1, e2}
  Lot = 10
  Fills = {9, 11}
  LegPct = 90
  MaxAttempts = 2
  ConfirmWait = 1
  Fresh = 2
  Life = 3
  MaxBuys = 1
  MaxTxs = 4
  MaxFaults = 1
  MaxCrashes = 1
SYMMETRY Swap
INVARIANTS TypeOK BookBacked BuyTraced
PROPERTIES ExitSellsAll
CHECK_DEADLOCK FALSE

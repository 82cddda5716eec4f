SPECIFICATION Spec
CONSTANTS
  m1 = m1
  m2 = m2
  s1 = s1
  s2 = s2
  Mints = {m1, m2}
  Symbols = {s1}
  SymbolOf <- OneSymbol
  NoMint = NoMint
  Monitor = monitor
  Clicks = {}
  MaxOpenPositions = 1
  MaxTotalExposure = 10
  SymbolCap = 14
  MinViable = 4
  Tick = 4
  BaseSizes = {12}
  BoughtTokens = 2
  TakeProfit <- HalfLegs
  MaxForceSellAttempts = 2
  MaxBuys = 2
  MaxCrashes = 1
INVARIANT LifetimeCapSurvives

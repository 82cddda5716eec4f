SPECIFICATION FairSpec
CONSTANTS
  m1 = m1
  m2 = m2
  s1 = s1
  s2 = s2
  Mints = {m1, m2}
  Symbols = {s1, s2}
  SymbolOf <- TwoSymbols
  NoMint = NoMint
  Monitor = monitor
  Clicks = {click}
  MaxOpenPositions = 2
  MaxTotalExposure = 19
  SymbolCap = 14
  MinViable = 4
  Tick = 4
  BaseSizes = {12}
  BoughtTokens = 2
  TakeProfit <- OneLeg
  MaxForceSellAttempts = 2
  MaxBuys = 2
  MaxCrashes = 0
PROPERTIES ForcedSellingDrains EveryPositionExits
INVARIANTS ExposureCap AtMostOneLateBuy

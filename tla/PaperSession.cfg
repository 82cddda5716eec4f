SPECIFICATION Spec
CONSTANTS
    Mints = {m1}
    StartBalance = 240
    CurveSol = 60
    BuyFeeCap = 2
    SellFeeCap = 10
    StampedeMult = 5
    LossStreakLimit = 2
    StreakPause = 1
    DayLength = 1
    DailyLossPct = 20
    ProfitLockPct = 9999
    AdaptiveLookback = 20
    HotWinPct = 55
    ColdWinPct = 30
    Histories <- MCHistories
    Prices <- MCPrices
    SpotPrices <- MCSpotPrices
    TakeProfit <- MCTakeProfit
    MaxSolPerTrade = 100
    MaxPositionPct = 50
    MaxExposure = 200
    MinTrade = 6
    HotMult = 125
    ColdMult = 50
    HardCapMult = 150
    MaxLots = 3
    MaxTime = 1
    MaxCrashes = 1
    MaxFaults = 1
INVARIANTS HeldCoversBook LotClosedOnce
PROPERTIES NoCleanSlate NoBuyAfterLosingRun
CHECK_DEADLOCK FALSE

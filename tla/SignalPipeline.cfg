\* From two launches to their outcomes, and what is learned from them.
SPECIFICATION Spec
CONSTANTS
  m1 = m1  m2 = m2  w1 = w1  w2 = w2  w3 = w3
  Mints <- MCMints
  Launched <- MCLaunched
  Listings <- MCListings
  Wallets <- MCWallets
  CreatorOf <- MCCreatorOf
  KnownOutcomes <- MCKnownOutcomes
  TradeEvents <- MCTradeEvents
  Features <- MCFeatures
  Answers <- MCAnswers
  Polls <- MCPolls
  Histories <- MCHistories
  RawMax = 1
  SubLife = 3
  Window = 2
  Cooldown = 3
  BundleWait = 1
  TradeMax = 1
  BotWalletThreshold = 2
  BundleBuyerLimit = 1
  SmartWalletMinBuys = 1
  SmartWalletWinPct = 60
  NoiseWalletMinBuys = 1
  NoiseWalletMaxWinPct = 20
  MaxOutcomes = 2
  WhaleMinLifetime = 300
  WhaleMinAverage = 150
  MaxTracked = 1
  CreatorTopN = 1
  CreatorMinLaunches = 2
  OffsetMin <- MCOffsetMin
  OffsetMax = 1
  MinSampleSize = 1
  LookbackTrades = 2
  AutoTuneEnabled = TRUE
  MaxPending = 1
  MinBuyScore = 35
  FusionMaxBonus = 15
  FusionMaxPenalty = 10
  RugMatchMinRugs = 1
  RugMaxPenalty = 50
  RugHardRejectMatches = 1
  MaxInitialBuy = 350
  MaxBondingCurvePct = 80
  AthRatioRejectBelow = 50
  RegimeMinHours = 6
  RegimePauseRatio = 50
  MaxTrades = 1
  MaxRare = 1
CHECK_DEADLOCK FALSE
INVARIANTS TypeOK OfferedOnce SubscriptionsExpire RejectionsAccounted NeverStuck
PROPERTIES BundleDecidedFirst RuggedPatternRefused

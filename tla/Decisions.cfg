SPECIFICATION SumSpec
CONSTANTS
  Worth = {5, 70, 80, 90, 100}
  MaxDrawdown = 15
  Cooldown = 4
  OneShot = FALSE
  Scan = {"old", "new"}
  Market <- Signals
  ConfirmCount = 2
  Config = {"trend_following", "mean_reversion", "supertrend", "mtf_trend", "auto"}
  Price = {85, 92, 100, 104, 116, 141}
  Atr = {1, 9}
  Rsi = {25, 34, 50, 72, 80, 86, 95}
  Momentum = {1, 3}
  TimeExit = 2
  Asset = {"a1", "a2", "a3"}
  NoAsset = "none"
  Level = {}
  Peak = {0}
  Scanned = {}
  Venue = "coinbase"
  Faults = {}
  MaxFills = 1
  MaxPositions = 2
  Cash = {0, 60, 300}
  HoldingWorth = {0, 45, 90, 240}
  Risk = {0, 20, 60, 200}
  Modifier = {375, 1000, 1250}
  MinOrder = 10
  TradeLimit = 855
  BearScale = 250
  SignalScan = {"scan"}
  Reading <- Readings
  Ttl <- TimesToLive
  PriceChange = {2}
  FundingHigh = 5
  OiFall <- FallOfInterest
  ScanTicks = 2
  Engine = {"base", "derivatives", "bear"}
  TestAsset = {"BTC", "ETH"}
  TestPrice = {8, 10}
  Capital = 1000
  TestSlots = 2
  TestCooldown = 2
  FeeRate = 6
  TestModifier = {1250}
  Candles <- CandlesPerEngine
INVARIANTS
  TypesOK
  PauseIsHonest
  HighCoversSeen
  WithinLimits
  CapButUnseen
  NeverMisled
  BooksBalance
PROPERTIES
  HaltLasts
  HaltEnds
  LeavesOnlyOnDissent
  Settles
  Breakeven
  NoBagHold
  NoReentry

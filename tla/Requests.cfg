SPECIFICATION SumSpec
CONSTANTS
  Endpoints = 3
  Token = {"WETH", "AERO"}
  Scanned = {"WETH"}
  Legacy = {"WBTC"}
  MaxRetries = 2
  MaxChanges = 4
  Markets = {"spot", "futures"}
  OrderFaults = {"get", "cancel", "lost"}
  Holdings <- Lots
  Cash = 4
  Dust = 1
  Least = 3
  Order = {1, 2}
  Polls = 2
  Lossy = {29, 58, 59}
  NoOrder = 0
  Client = {"c1", "c2"}
  Exec = {"e1"}
  ExecOf <- OneExec
  Venue = "zerox"
  Faults = {}
  GetAttempts = 3
  MaxTx = 3
  MaxSales = 2
  NoCaller = "none"
  Caller = {"c1"}
  MaxAttempts = 2
  Interval = 2
  Backoff = 3
  MaxRetryAfter = 5
  RetryAfter = {0, 1, 9}
  Regime = {"BULL", "BEAR"}
  ConfirmCount = 2
  Routers = {"aerodrome", "zerox"}
  Route = {"direct", "hop"}
  Amount = {0, 1, 2}
  MaxSwap = 1
  Rate = {0, 975, 1000}
  Reference = {0, 1000}
  NoPrice <- NoQuote
  SlippageBps = 50
  MaxDeviation = 2
  Deadline = 1
  Margin = 1
INVARIANTS
  TypesOK
  OrdersDoNotPileUp
  ShortByDoubled
  FillsNearReference
  TimeoutIsFinal
PROPERTIES
  HeldIsKept
  FreeLotsAreManaged
  KeepsPromise
  KeepsDistance
  ChangesConnect

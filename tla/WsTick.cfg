SPECIFICATION Spec
CONSTANTS
  Product = {btc, arb}
  Supported = {btc}
  Thread = {s1, s2}
  Timer = timer
  MaxCrashes = 1
  MaxUnheard = 1
INVARIANTS
  TicksSeeHoldings

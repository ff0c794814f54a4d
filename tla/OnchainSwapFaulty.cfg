SPECIFICATION FairSpec
CONSTANTS
  c1 = c1
  c2 = c2
  e1 = e1
  e2 = e2
  Caller = {c1, c2}
  Exec = {e1}
  ExecOf <- OneExec
  Venue = "aerodrome"
  MaxAttempts = 2
  MaxTx = 1
  MaxSales = 1
  Faults = {"lag", "regossip", "late"}
  NoCaller = NoCaller
PROPERTY
  EveryCallReturns

SPECIFICATION Spec
CONSTANTS
  c1 = c1
  c2 = c2
  e1 = e1
  e2 = e2
  Caller = {c1, c2}
  Exec = {e1}
  ExecOf <- OneExec
  Venue = "zerox"
  MaxAttempts = 2
  MaxTx = 2
  MaxSales = 1
  Faults = {}
  NoCaller = NoCaller
SYMMETRY Callers
INVARIANTS
  TypeOK
  NoStackedSwaps
  NeverBehindAGap
  AtMostOneAfterKill
  FailureIsFinal

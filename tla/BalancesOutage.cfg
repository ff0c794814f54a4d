SPECIFICATION Spec
CONSTANTS
  Endpoints = 3
  Token = {"WETH", "AERO"}
  Scanned = {"WETH"}
  Legacy = {"WBTC"}
  MaxRetries = 2
  MaxChanges = 4
PROPERTY
  OutageIsCovered

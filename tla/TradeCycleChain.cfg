SPECIFICATION Spec
CONSTANTS
  a1 = a1
  a2 = a2
  a3 = a3
  Asset = {a1, a2}
  Level = {"tp1", "tp2"}
  MaxPositions = 2
  Peak = {0}
  Scanned = {a1, a2}
  Venue = "onchain"
  Faults = {"balance", "late"}
  MaxFills = 2
  NoAsset = NoAsset
SYMMETRY Assets
INVARIANTS
  TypeOK
  TakesProfitOnce
  BookedSalesFilled

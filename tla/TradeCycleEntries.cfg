SPECIFICATION Spec
CONSTANTS
  a1 = a1
  a2 = a2
  a3 = a3
  Asset = {a1, a2}
  Level = {"tp1"}
  MaxPositions = 2
  Peak = {0, 1}
  Scanned = {}
  Venue = "onchain"
  Faults = {}
  MaxFills = 2
  NoAsset = NoAsset
SYMMETRY Assets
INVARIANTS
  EntriesAreKept

CONSTANTS
  Conns = {"tcp", "packets"}
  Source <- MCSource
  Limit = 1
  MaxSaves = 3
SPECIFICATION Spec
INVARIANTS NoRowSkipped IdsKeepTheirMeaning DetailsAreOfOneConnection

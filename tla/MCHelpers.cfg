SPECIFICATION HelpersSpec
CONSTANTS
  Null = Null
  Keys <- keys
  GivenFilters <- givenFilters
  Octets = {0, 200}
  MaxLen = 5
  MaxPiece = 2
  Seeds <- seeds
  MaxSize = 3
  Capacities <- capacities
  Hashes <- hashes
INVARIANTS InsertedIsFound FilterFits PiecewiseAgrees OneOctetTells EachBitOnce ReturnsBuilt
PROPERTIES OthersKept NeverGrows
CHECK_DEADLOCK FALSE

SPECIFICATION FairMain
CONSTANTS
  Keys = {"a", "b", "c"}
  Fingerprints = {1, 2, 3}
  HashFp <- hashFp
  HashBits <- hashBits
  AltHashes <- altHashes
  BucketPower = 2
  Masks = {{}, {0, 1}}
  Slots = {0, 1, 2, 3}
  MaxKicks = 10
  Word = 8
  Counts = {0, 4, 5, 7}
  Tables <- tables
INVARIANT PassesByChance
PROPERTY MainEnds
CHECK_DEADLOCK FALSE

SPECIFICATION MainSpec
CONSTANTS
  Keys = {"a", "b", "c"}
  Fingerprints = {1, 2, 3}
  HashFp <- hashFp
  HashBits <- hashBits
  AltHashes <- altHashes
  BucketPower = 2
  Masks = {{}}
  Slots = {0, 1, 2, 3}
  MaxKicks = 10
  Word = 8
  Counts = {0}
  Tables <- tables
INVARIANT CountMatches
CHECK_DEADLOCK FALSE

SPECIFICATION Spec
CONSTANTS
  Keys = {"a", "b", "c"}
  Fingerprints = {1, 2, 3}
  HashFp <- hashFp
  HashBits <- hashBits
  AltHashes <- altHashes
  BucketPower = 2
  Masks = {{}, {0, 1}}
  Slots = {0, 1}
  MaxKicks = 3
  Word = 3
  Counts = {0, 1, 2}
INVARIANTS TypeOK StoredWhereLookedFor InsertOutcome ResetForgets
PROPERTIES DamageConfined ImplementsContract
CHECK_DEADLOCK FALSE

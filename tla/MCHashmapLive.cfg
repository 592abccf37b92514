SPECIFICATION FairSpec
CONSTANTS
  Keys = {1, 2}
  Vals = {v1}
  Entries = {e1, e2}
  Arrays = {b1, b2, b3}
  Null = Null
  Aborted = Aborted
  Rands = {0, 1}
  RebuildLens = {0}
  MaxBuckets = 2
  Word = 8
  HASH_FUNC_COEFF_P = 3
  INIT_BUCKETS_NUM = 1
  MIN_HASHSET_THRESHOLD = 0
  MAX_HASHSET_THRESHOLD = 1
PROPERTY CallsReturn

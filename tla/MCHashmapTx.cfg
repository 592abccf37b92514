SPECIFICATION Spec
CONSTANTS
  Keys = {1, 2, 7}
  Vals = {v1}
  Entries = {e1, e2, e3}
  Arrays = {b1, b2, b3}
  Null = Null
  Aborted = Aborted
  Rands = {0, 1}
  RebuildLens = {2}
  MaxBuckets = 2
  Word = 8
  HASH_FUNC_COEFF_P = 5
  INIT_BUCKETS_NUM = 1
  MIN_HASHSET_THRESHOLD = 0
  MAX_HASHSET_THRESHOLD = 2
SYMMETRY Symmetry
INVARIANTS TypeOK RollbackExact IndexInBounds MapWellFormed ReadsAgree
PROPERTY ImplementsMap

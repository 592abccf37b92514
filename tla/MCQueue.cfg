SPECIFICATION Spec
CONSTANTS
  Data = {d1, d2}
  Entries = {e1, e2, e3, e4}
  Capacities = {0, 1, 2, 4}
  Word = 8
  Garbage = Garbage
SYMMETRY Symmetry
INVARIANTS TypeOK RollbackExact NeverOverfull LiveWindow
PROPERTY ImplementsFifo

SPECIFICATION Spec
CONSTANTS
  Keys = {0, 1, 2}
  Values = {0, 7}
  Entries = {e1, e2, e3, e4}
  Null = Null
  Absent = Absent
  ZeroOid = ZeroOid
  Stray = Stray
  Capacities = {0, 2, 5}
  Built <- built
INVARIANT FirstCanBeGot
CHECK_DEADLOCK FALSE

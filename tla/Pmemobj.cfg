SPECIFICATION PartSpec
CONSTANTS
  Pools = {p1, p2}
  Bases = {b1, b2, b3}
  Threads = {t1, t2}
  Null = Null
  MaxCloses = 2
  Objs = {1, 2, 3}
  Types = {"QueueEntry", "Cache"}
  Heads = {"h1", "h2"}
  Counters = {0, 99}
  MaxChanges = 3
  Oids = {1, 2, 3}
  Fields = {"a"}
  Bytes = {0, 1}
INVARIANTS WalkVisitsOnce StoresRollBack
PROPERTY DirectIsCurrent

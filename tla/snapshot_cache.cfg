CONSTANTS
  t1 = t1
  t2 = t2
  c1 = c1
  a1 = a1
  b1 = b1
  None = None
  Txs = {t1, t2}
  Categories = {c1}
  Activity = {a1}
  Assigned = {b1}
  MaxRebuilds = 3
SPECIFICATION Spec
INVARIANTS
  TypeOK
  CacheHonest
  WalkCurrent
  RebuildIsNeeded
PROPERTIES
  ReadBounds
CHECK_DEADLOCK FALSE
SYMMETRY Symmetry

SPECIFICATION Spec
CONSTANTS
  s1 = s1  p1 = p1
  Structures <- MCStructures
  Parts <- MCParts
  Owner <- MCOwner
  Tools = {t1, t2}
  MaxRuns = 2
  MaxFeatures = 3
  Stamps = {1, 2}
  MaxFaults = 2
SYMMETRY Alike
INVARIANTS
  TypeOK
  CopyAgrees
  ReadableWhenTold
PROPERTY
  NeverOlder
CHECK_DEADLOCK FALSE

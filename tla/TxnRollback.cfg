CONSTANTS
  x1 = x1
  x2 = x2
  k1 = k1
  k2 = k2
  v1 = v1
  c1 = c1
  c2 = c2
  Txns = {x1}
  Committers = {c1}
  NoTxn = NoTxn
  Keys = {k1}
  Vals = {v1}
  Absent = Absent
  MaxWrites = 1
SYMMETRY Symmetry
SPECIFICATION Spec
CHECK_DEADLOCK FALSE
PROPERTY RollbackDiscards

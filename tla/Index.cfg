CONSTANTS
  t1 = t1
  t2 = t2
  k1 = k1
  k2 = k2
  v1 = v1
  v2 = v2
  v3 = v3
  Tables = {t1, t2}
  Keys = {k1, k2}
  Vals = {v1, v2, v3}
  Unset = Unset
  Unhashable = {v3}
  Absent = Absent
  NoTable = NoTable
  NoIndex = NoIndex
  Live = Live
  Imports <- ImportFiles
  MaxWrites = 2
  MaxImports = 2
  MaxQueries = 1
SYMMETRY Symmetry
SPECIFICATION Spec
CHECK_DEADLOCK FALSE
INVARIANT TypeOK
INVARIANT IndexMatchesUnlessBehind
INVARIANT QueryExactOnUntouched

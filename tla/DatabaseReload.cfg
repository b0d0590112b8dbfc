CONSTANTS
  t1 = t1
  k1 = k1
  k2 = k2
  v1 = v1
  v2 = v2
  Tables = {t1}
  Keys = {k1}
  Vals = {v1, v2}
  Absent = Absent
  NoTable = NoTable
  Torn = Torn
  TornWrites = FALSE
  EnableWAL = TRUE
  Watching = TRUE
  Given <- Fresh
  Foreign = {}
  BatchMax = 2
  MaxOps = 3
  MaxImports = 0
  MaxForeign = 0
  MaxSessions = 1
SPECIFICATION Spec
INVARIANT AnsweredIsVisible
CHECK_DEADLOCK FALSE

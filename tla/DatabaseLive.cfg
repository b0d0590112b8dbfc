CONSTANTS
  t1 = t1
  k1 = k1
  k2 = k2
  v2 = v2
  v1 = v1
  Tables = {t1}
  Keys = {k1}
  Vals = {v1}
  Absent = Absent
  NoTable = NoTable
  Torn = Torn
  TornWrites = FALSE
  EnableWAL = TRUE
  Watching = TRUE
  Given <- Fresh
  Foreign <- OneTable
  BatchMax = 2
  MaxOps = 2
  MaxImports = 1
  MaxForeign = 1
  MaxSessions = 1
SPECIFICATION FairSpec
PROPERTY QueueDrained
PROPERTY EventuallySynced
PROPERTY CloseTerminates
CHECK_DEADLOCK FALSE

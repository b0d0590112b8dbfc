CONSTANTS
  k1 = k1
  k2 = k2
  w1 = w1
  w2 = w2
  c1 = c1
  Keys = {k1, k2}
  Writes = {w1, w2}
  Callers = {c1}
  None = None
  KeepCount = 2
  MaxBackups = 3
  MaxEvents = 5
SPECIFICATION Spec
CHECK_DEADLOCK FALSE
INVARIANTS
  TypeOK
  SyncedSurvives
  RotationComplete
  Insured
PROPERTIES
  UntouchedKept
  BlindHeals

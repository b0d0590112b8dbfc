CONSTANTS
  a = a
  b = b
  c = c
  d = d
  Entry = {a, b, c, d}
  Unencodable = {c}
  Oversized = {b}
  Flushers = {"syncer", "closer"}
  Torn = Torn
  TornWrites = TRUE
  JoinTimesOut = TRUE
  MaxAppends = 4
  MaxSessions = 2
SPECIFICATION Spec
SYMMETRY Symmetry
CHECK_DEADLOCK FALSE
INVARIANT ReplayIsPrefix
INVARIANT ClosedHoldsAll
INVARIANT ReplayedOnce
PROPERTY ImplementsDurableLog

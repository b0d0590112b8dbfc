CONSTANTS
  c1 = c1
  c2 = c2
  Callers = {c1, c2}
  CallsEach = 2
  BufferSize = 2
  BatchMax = 2
  MayClose = TRUE
  MayTimeOut = TRUE
SPECIFICATION FairSpec
CHECK_DEADLOCK FALSE
INVARIANT TypeOK
INVARIANT OrderKept
PROPERTY ImplementsAtomicCalls
PROPERTY EveryCallAnswered

CONSTANTS
  t1 = t1
  t2 = t2
  t3 = t3
  Threads = {t1, t2, t3}
  NoThread = NoThread
SPECIFICATION FairLockSpec
INVARIANT LockInv
INVARIANT MutualExclusion
PROPERTY ImplementsReadersWriters
PROPERTY ReaderGetsIn

SPECIFICATION FairSpec
CONSTANTS
  Threads = {t1, t2, child}
  Child = child
  NoThread = NoThread
  Blocks = 2
  MaxReads = 2
  MaxCalls = 3
INVARIANT TypeOK
INVARIANT ReadsRightBytes
INVARIANT LateReadsFail
INVARIANT ReleasedWhenClosed
PROPERTY OnlyOrphanedLockHangs
\* A behaviour ends when its calls are used up.
CHECK_DEADLOCK FALSE

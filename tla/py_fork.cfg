SPECIFICATION Spec
CONSTANTS
  Threads = {t1, t2, child}
  Child = child
  NoThread = NoThread
  Blocks = 2
  MaxReads = 2
  MaxCalls = 3
INVARIANT ForkedReadsAreRight
CHECK_DEADLOCK FALSE

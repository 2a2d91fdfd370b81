SPECIFICATION FairSpec
CONSTANTS
  Threads = {t1, t2, child}
  Child = child
  NoThread = NoThread
  Blocks = 2
  MaxReads = 1
  MaxCalls = 3
PROPERTY CallsReturn
CHECK_DEADLOCK FALSE

SPECIFICATION FairSpec
CONSTANTS
  Threads = {t1, t2}
  NoThread = NoThread
  NoRecord = NoRecord
  UseGil = FALSE
  GcInAlloc = FALSE
  Reentrant = FALSE
  StopsTheWorld = TRUE
  DetectDeadlock = FALSE
  ShareIterators = FALSE
  Records <- SmallRecords
  Root = "root"
  Kind <- SmallKind
  Children <- SmallChildren
  MaxCalls = 3
PROPERTY CallsReturn
CHECK_DEADLOCK FALSE

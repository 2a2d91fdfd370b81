SPECIFICATION FairSpec
CONSTANTS
  Threads = {t1, t2}
  NoThread = NoThread
  NoRecord = NoRecord
  UseGil = FALSE
  GcInAlloc = FALSE
  Reentrant = TRUE
  StopsTheWorld = TRUE
  DetectDeadlock = FALSE
  ShareIterators = FALSE
  Records <- SmallRecords
  Root = "root"
  Kind <- SmallKind
  Children <- SmallChildren
  MaxCalls = 3
PROPERTY HangsOnlyInKnots
\* A deadlock is a call that does not return, which HangsOnlyInKnots reports.
CHECK_DEADLOCK FALSE

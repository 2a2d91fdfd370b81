SPECIFICATION Spec
CONSTANTS
  Threads = {t1, t2}
  NoThread = NoThread
  NoRecord = NoRecord
  UseGil = FALSE
  GcInAlloc = FALSE
  Reentrant = FALSE
  StopsTheWorld = FALSE
  DetectDeadlock = FALSE
  ShareIterators = TRUE
  Records <- MCRecords
  Root = "root"
  Kind <- MCKind
  Children <- MCChildren
  MaxCalls = 5
SYMMETRY ThreadSymmetry
INVARIANT RecordsAccounted

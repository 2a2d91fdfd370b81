SPECIFICATION Spec
CONSTANTS
  Threads = {t1, t2}
  NoThread = NoThread
  NoRecord = NoRecord
  UseGil = TRUE
  GcInAlloc = FALSE
  Reentrant = TRUE
  StopsTheWorld = FALSE
  DetectDeadlock = FALSE
  ShareIterators = TRUE
  Records <- MCRecords
  Root = "root"
  Kind <- MCKind
  Children <- MCChildren
  MaxCalls = 4
SYMMETRY ThreadSymmetry
INVARIANT NoUseAfterUnmap
INVARIANT UnmapOnce
INVARIANT AliveWhileUsed
INVARIANT RecordsAccounted
INVARIANT ReadsAfterCloseFail
INVARIANT NothingLeaked
PROPERTY ImplementsReaderAPI

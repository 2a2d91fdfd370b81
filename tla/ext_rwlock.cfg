SPECIFICATION Spec
CONSTANTS
  Threads = {t1, t2}
  NoThread = NoThread
  NoRecord = NoRecord
  UseGil = FALSE
  GcInAlloc = FALSE
  Reentrant = TRUE
  StopsTheWorld = FALSE
  DetectDeadlock = TRUE
  ShareIterators = FALSE
  Records <- MCRecords
  Root = "root"
  Kind <- MCKind
  Children <- MCChildren
  MaxCalls = 5
SYMMETRY ThreadSymmetry
INVARIANT TypeOK
INVARIANT NoUseAfterUnmap
INVARIANT UnmapOnce
INVARIANT LockBalanced
INVARIANT AliveWhileUsed
INVARIANT RecordsAccounted
INVARIANT ReadsAfterCloseFail
INVARIANT NothingLeaked
PROPERTY ImplementsReaderAPI

\* Two threads, or two processes for the record locks of three bytes.
CONSTANTS
  t1 = t1
  t2 = t2
  Threads = {t1, t2}
  None = None
  kMaxLinksToChase = 3
  MaxInodes = 8
  MaxDents = 9
  Workloads <- Passing
  MaxFd = 8
  MaxFiles = 8
  kInitialCap = 2
  kMaxSizeBytes = 4
  PageSize = 2
  Slots = {1, 2}
  LastByte = 2
  Signalled = {t2}
SPECIFICATION MCSpec
   
PROPERTIES WritesNeverShrink ImplementsRecordLocks 
CHECK_DEADLOCK FALSE

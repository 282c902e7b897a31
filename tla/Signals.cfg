CONSTANTS
  t1 = t1
  t2 = t2
  Threads <- TwoThreads
  Sigs <- FourSigs
  SIGKILL = 1
  kNumStandardSignals = 4
  kMaxQueuedRT = 2
  kSignalIgnoreMask <- IgnoreMask
  Workloads <- All
  MaxFrames = 2
  MaxSets = 3
  NoCall = NoCall
  NoMask = NoMask
  NoSig = NoSig
SPECIFICATION MCSpec
INVARIANTS SignalsExact ContextKept
  
CHECK_DEADLOCK FALSE

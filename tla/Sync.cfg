\* Three threads; semaphores and latches that count to two; two futex words.
CONSTANTS
    Threads = {1, 2, 3}
    Signalled = {1, 2, 3}
    MaxSignals = 1
    MonitorSignalled = {1}
    Parts = {"mutex", "sem", "latch"}
    MaxValue = 2
    FutexSignalled = {1}
    Keys = {"k1", "k2"}
    Vals = {0, 1}
    Buckets = {"b"}
    BucketOf <- OneBucket
    Bitsets = {{"x"}, {"x", "y"}}
    WaitArgs <- Mixed
    Timed = {1}
    MaxWake = 2
SPECIFICATION MCSpec
INVARIANTS MutualExclusion Inv QueuesExact SleepersMustWait
PROPERTIES ImplementsRWLock ServedInOrder WaitsEnd
CHECK_DEADLOCK FALSE

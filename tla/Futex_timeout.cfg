\* A timer that expires before the waiter has armed its waker.
CONSTANTS
    Threads = {1, 2}
    Signalled = {}
    MaxSignals = 0
    MonitorSignalled = {}
    Parts = {"mutex"}
    MaxValue = 0
    FutexSignalled = {}
    Keys = {"k1"}
    Vals = {0, 1}
    Buckets = {"b"}
    BucketOf <- OneBucket
    Bitsets = {{"x"}}
    WaitArgs <- OneWord
    Timed = {2}
    MaxWake = 1
SPECIFICATION MCSpec
PROPERTY TimeoutEndsWait
CHECK_DEADLOCK FALSE

\* An interrupted reader leaves shared_cnt_ one too high.
CONSTANTS
    Threads = {t1, t2, t3}
    Signalled = {t1, t2, t3}
    MaxSignals = 1
SPECIFICATION Spec
INVARIANT SharedCntIsQueueLength
CHECK_DEADLOCK FALSE

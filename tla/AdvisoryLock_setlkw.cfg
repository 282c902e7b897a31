\* A blocked F_SETLKW while the lock becomes free.
CONSTANTS
    t1 = t1
    t2 = t2
    Threads <- TwoThreads
    ProcOf <- OwnProcess
    LastByte = 1
    Requests <- AllRanges
    Signalled <- Nobody
SPECIFICATION FairSpec
PROPERTY BlockedUntilFree

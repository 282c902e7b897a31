CONSTANTS
    None = None
    Readers = {"r"}
    Writers = {"w"}
    Bytes = {"a", "b"}
    Reads <- SomeReads
    Writes <- SomeWrites
    Size = 2
    Modulus = 4
    Signalled = {"r"}
    EvThreads = {1, 2, 3}
    Top = 3
    InitVals = {0}
    EvSignalled = {1}
    MaxWritten = 7
SPECIFICATION MCSpec
INVARIANTS SleepersMustWait CountsExact
PROPERTIES ImplementsByteStream 
CHECK_DEADLOCK FALSE

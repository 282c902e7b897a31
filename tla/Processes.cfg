\* Two or three threads; three processes over four identifiers.
CONSTANTS
    t1 = t1
    t2 = t2
    t3 = t3
    None = None
    Threads <- All
    Workloads <- AllLoads
    p1 = p1
    p2 = p2
    p3 = p3
    kMaxProcesses = 4
    MaxCalls = 5
SPECIFICATION MCSpec
INVARIANTS LastOneOut   NoLostWait
  
CHECK_DEADLOCK FALSE

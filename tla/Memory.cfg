\* Regions of three pages in an address space of seven; two connections.
CONSTANTS
    m1 = m1
    m2 = m2
    None = None
    Maps <- TwoMaps
    PageSize = 2
    RegionLen = 6
    kVirtualAreaMax = 14
    Modulus = 64
    Workloads <- Passing
    Workers = {1, 2}
SPECIFICATION MCSpec
INVARIANTS  RoundTrip ProgramLoaded 
PROPERTIES ImplementsPageMap CallsEnd
CHECK_DEADLOCK FALSE

\* exit_group while another thread stops with a signal frame pushed.
CONSTANTS
    t1 = t1
    t2 = t2
    t3 = t3
    None = None
    Threads <- All
    Workloads <- GroupExitAndStop
SPECIFICATION FairSpec
PROPERTIES ExitGroupCompletes
CHECK_DEADLOCK FALSE

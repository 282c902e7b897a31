\* execve while another thread is in clone.
CONSTANTS
    t1 = t1
    t2 = t2
    t3 = t3
    None = None
    Threads <- All
    Workloads <- ExecAndClone
SPECIFICATION Spec
INVARIANTS OthersKilled
CHECK_DEADLOCK FALSE

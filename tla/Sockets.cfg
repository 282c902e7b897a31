SPECIFICATION MCSpec
CONSTANTS
  Workloads <- WithIdle
  Socks = {1, 2, 3, 4, 5}
  Threads = {1, 2, 3}
  Names = {1, 2}
  ChanSize = 2
INVARIANTS SleepersMustWait NothingOrphaned  EventsExact FairDelivery 
PROPERTIES BlockedCallsEnd
CHECK_DEADLOCK FALSE

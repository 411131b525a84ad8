SPECIFICATION FairSpec
CONSTANTS
  Kinds = {"udp", "uds", "dummy", "tcp"}
  MaxStarts = 2
  MaxStops = 2
  Waiters = {p1}
CHECK_DEADLOCK FALSE
INVARIANTS LifecycleInv PanicNeedsMisuse
PROPERTIES StopTakesEffect StartAlwaysReturns

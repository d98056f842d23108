SPECIFICATION LiveSpec
CONSTANTS
  Main = Main
  Worker = Worker
  W1 = W1
  W2 = W2
  W3 = W3
  Warmers <- TwoWarmers
  None = None
  MaxRequests = 1
  MaxErrors = 1
  Script <- TextAndIndex
  MaxVoices = 1
  Faults = {"request", "runtime", "recycle", "worker"}
ACTION_CONSTRAINT RecycleWarmsNothing
INVARIANT NoBrowserLeft
PROPERTIES
  Served
CHECK_DEADLOCK FALSE

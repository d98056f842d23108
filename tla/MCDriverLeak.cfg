SPECIFICATION Spec
CONSTANTS
  Main = Main
  Worker = Worker
  W1 = W1
  W2 = W2
  W3 = W3
  Warmers <- TwoWarmers
  None = None
  MaxRequests = 1
  MaxErrors = 2
  Script <- OneText
  MaxVoices = 0
  Faults = {"recycle"}
ACTION_CONSTRAINT TakenInOrder
INVARIANT NoBrowserLeft
CHECK_DEADLOCK FALSE

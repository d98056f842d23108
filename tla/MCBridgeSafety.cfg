SPECIFICATION Spec
CONSTANTS
  Speaker = speaker
  Warmers = {warmer}
  Main = main
  Nobody = nobody
  NRuntimes = 2
  MaxCalls = 1
  Confirmations = 2
  Faults = {"crash", "startup", "inUse", "request", "speech", "terminate"}
INVARIANTS
  TypeOK
  ReadyUnlessStarting
  NoOrphanBrowser
  BrowserKnown
  OneAttemptHeard
PROPERTY
CHECK_DEADLOCK FALSE

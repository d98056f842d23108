SPECIFICATION Spec
CONSTANTS
  Speaker = speaker
  Warmers = {warmer}
  Main = main
  Nobody = nobody
  NRuntimes = 1
  MaxCalls = 1
  Confirmations = 2
  Faults = {}
INVARIANT
  SpeechCallerConnects
CHECK_DEADLOCK FALSE

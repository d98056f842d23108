SPECIFICATION LiveSpec
CONSTANTS
  Speaker = speaker
  Warmers = {warmer}
  Main = main
  Nobody = nobody
  NRuntimes = 1
  MaxCalls = 2
  Confirmations = 2
  Faults = {"memory", "request", "startup", "terminate"}
PROPERTIES
  RecycleSparesBusySpeech
  CallsReturn
CHECK_DEADLOCK FALSE

SPECIFICATION DriverAudioSpec
CONSTANTS
  Main = Main
  Worker = Worker
  W1 = W1
  W2 = W2
  W3 = W3
  Warmers <- TwoWarmers
  None = None
  MaxRequests = 2
  MaxErrors = 2
  Script <- Scripts
  MaxVoices = 0
  Faults = {"request", "runtime", "recycle", "worker"}
  Groups <- SharedSegments
  Shape <- Shapes
  SegmentChars = 2
  MaxChars = 4
  MaxSegments = 3
  MaxItems = 3
  MaxBytes = 12
  MinStored = 2
  Keep = 1
  Block = 2
  Lead = 5
  MaxPacket = 2
  MaxTexts = 2
  AudioFaults = {"stall", "cut", "error"}
  Utterances <- TwoTextsTwoCommands
  Settings <- PausesAndLanguages
  FlushChars = 3
ACTION_CONSTRAINT FewAtOnce
INVARIANTS
  TypeOK
  EndsOrderly
  CacheTrue
  HeardRight
  ChunksTrue
PROPERTIES
  Promises
CHECK_DEADLOCK FALSE

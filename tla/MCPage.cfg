SPECIFICATION BothSpec
CONSTANTS
  r1 = r1
  r2 = r2
  Requests <- AllRequests
  MaxConns = 2
  Cancellable <- Speech
  MaxEvents <- EventsOf
  Faults <- AllFaults
  s1 = s1
  s2 = s2
  pre = pre
  english = english
  german = german
  Speeches = {s1, s2}
  Preloads = {pre}
  Nobody = Nobody
  Segments <- SegmentsOf
  VoiceOf <- Voices
  Chunks <- ChunksOf
  MaxStops = 1
  PageFaults = {"voice", "stall", "timeout"}
INVARIANTS
  BothTypeOK
  NothingLeft
  OwnAudio
PROPERTIES
  LastCallWakes
  Correlated
  Whole
  Silence
  Settles
ACTION_CONSTRAINT SecondLasts
CHECK_DEADLOCK FALSE

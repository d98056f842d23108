SPECIFICATION FilesSpec
CONSTANTS
  base = base
  voice = voice
  odd = odd
  top = top
  Packages <- Catalog
  NoPackage = NoPackage
  Base <- Bases
  Supported <- Speakable
  Spoken <- OwnLanguage
  MaxAttempts = 2
  ManagerFaults = {"network", "file", "dialog", "exit"}
  Stored = {base, voice}
  Checkers = {c1}
  Installer = w
  MaxStamp = 3
  StoreFaults = {"network", "save", "locked", "crash", "byhand"}
  UpdateFaults = {"network", "folder", "window", "exit"}
INVARIANTS
  FilesTypeOK
  CacheSound
  UpdateSafe
PROPERTIES
  AnswersTrue
  DependenciesKept
  LastVoiceKept
  ConfigFollows
  AllEnds
CHECK_DEADLOCK FALSE

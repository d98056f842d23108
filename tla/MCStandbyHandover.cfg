SPECIFICATION Spec
CONSTANTS
  Main = main
  Workers = {w1, w2, w3}
  Watchers = {x1, x2, x3}
  Bridges = {b1, b2, b3, b4}
  Packages = {p1}
  Settings = {s1}
  None = none
  MaxOps = 5
  MaxChanges = 0
  Faults = {"catalog", "connect"}
INVARIANTS
  TypeOK
  ClaimedIsIdle
  OneOwner
  NothingKeptUnwanted
ACTION_CONSTRAINT TakenInOrder
CHECK_DEADLOCK FALSE

SPECIFICATION LiveSpec
CONSTANTS
  Main = main
  Workers = {w1, w2, w3}
  Watchers = {x1, x2, x3}
  Bridges = {b1, b2, b3, b4}
  Packages = {p1, p2}
  Settings = {s1, s2}
  None = none
  MaxOps = 3
  MaxChanges = 1
  Faults = {"connect"}
INVARIANTS
  NoSharedWarmup
  KeptCurrent
PROPERTIES
  SupersededIsHarmless
  HandedOver
  WarmsUp
ACTION_CONSTRAINT TakenInOrder
CHECK_DEADLOCK FALSE

SPECIFICATION Spec
CONSTANTS
  Main = main
  Workers = {w1, w2, w3}
  Watchers = {x1, x2, x3}
  Bridges = {b1, b2, b3, b4}
  Packages = {p1}
  Settings = {s1, s2}
  None = none
  MaxOps = 4
  MaxChanges = 1
  Faults = {}
INVARIANT
  StaleIsDiscarded
ACTION_CONSTRAINT TakenInOrder
CHECK_DEADLOCK FALSE

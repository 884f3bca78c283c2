SPECIFICATION Spec
CONSTANTS
  Card = {k1,k2}
  Choice = {"blocked"}
  Moves = 1
  Crashes = 1
INVARIANTS
  SaysRunning
PROPERTIES
  WindowCatchesUp
CHECK_DEADLOCK FALSE

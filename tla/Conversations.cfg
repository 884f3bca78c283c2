SPECIFICATION Spec
CONSTANTS
  Thread = {1, 2}
  Turn = {w1, w2}
  HISTORY_TURNS = 1
  HISTORY_ROWS = 3
  TRANSCRIPT_ROWS = 1
  MAX_TOOL_ROUNDS = 2
  MaxRows = 4
  MaxRestarts = 1
SYMMETRY Turns
CONSTRAINT Small
INVARIANTS
  Ancestry
  Accounted
  Folded
CHECK_DEADLOCK FALSE

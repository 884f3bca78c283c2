\* The summary's model fails once there is a summary.
SPECIFICATION Spec
CONSTANTS
  Thread = {1}
  Turn = {w1}
  HISTORY_TURNS = 1
  HISTORY_ROWS = 3
  TRANSCRIPT_ROWS = 2
  MAX_TOOL_ROUNDS = 2
  MaxRows = 3
  MaxRestarts = 0
INVARIANTS
  CoversThrough
CHECK_DEADLOCK FALSE

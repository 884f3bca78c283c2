\* Two jobs of one agent and two outside coders compete for two
\* places, and one of them may be stopped.
CONSTANTS
  Token = {}
  Act = {act}
  None = None
  Job = {j1, j2, c1, c2}
  Coder = {c1, c2}
  Single = {j1, j2}
  Settler = {}
  MaxRunning = 2
  Rounds = 1
  Calls = 1
  Repeats = 1
SYMMETRY Interchangeable
CONSTRAINT OneStop
SPECIFICATION Spec
INVARIANTS
  Watched
  Capacity
\* Every job ends, and then nothing is left to do.
CHECK_DEADLOCK FALSE

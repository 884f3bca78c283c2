\* One job of a sub-agent, asking the owner up to twice.
CONSTANTS
  Token = {t1, t2}
  Act = {act}
  None = None
  Job = {j1}
  Coder = {}
  Single = {j1}
  Settler = {s1}
  MaxRunning = 1
  Rounds = 1
  Calls = 1
  Repeats = 2
SPECIFICATION FairSpec
INVARIANTS
  HonestAnswer
  Exempt
PROPERTIES
  FirstVerdict
  Implements
  Reports
  NotParked
\* Every job ends, and then nothing is left to do.
CHECK_DEADLOCK FALSE

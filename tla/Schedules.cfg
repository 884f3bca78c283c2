SPECIFICATION Spec
CONSTANTS
  Job = {j1}
  Runner = {f1, f2}
  Editor = {loop}
  Boot = loop
  Timer = {s1, s2}
  None = None
  MaxRuns = 1
  MaxCrashes = 1
INVARIANTS
  NoOverlap
  Ledger
  Armed
PROPERTIES
  DueFires
CHECK_DEADLOCK FALSE

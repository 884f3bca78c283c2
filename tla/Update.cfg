SPECIFICATION Spec
CONSTANTS
  Process = {p1,p2}
  Releases = 2
  None = None
  Faults = {}
INVARIANTS
  EditsKept
  Released
PROPERTIES
  Honest
  Undisturbed
  OpensAgain
CHECK_DEADLOCK FALSE

SPECIFICATION Spec
CONSTANTS
  Agent = {a1, a2}
  Control = {c1}
  Screen = {s1, s2}
  Browser = {b1}
  None = None
INVARIANTS
  PrivateIsPrivate
  OneAtATime
  ClosedIsShown
PROPERTIES
  Implements
  SlotComesBack
  NotStarved
CHECK_DEADLOCK FALSE

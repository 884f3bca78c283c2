SPECIFICATION Spec
CONSTANTS
  Timer = Timer
  Loop = Loop
  None = None
  Events <- MailReminderGlance
  Changing = {"windows-busy", "nobody-present"}
  MAX_EVENTS_PER_TURN = 2
  MOST_HELD = 1
  Budget = 1
  MaxCuts = 1
  RequestTicks = FALSE
INVARIANTS
  TypeOK
  Agrees
  SaidOnce
  WithinBudget
PROPERTIES
  Kept
  Considered

CHECK_DEADLOCK FALSE

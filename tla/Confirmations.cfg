\* One desktop request and one worker thread over two tokens.
CONSTANTS
  Token = {t1, t2}
  Act = {light}
  External = {}
  None = None
  Thread = {l1, w1}
  Loop = {l1}
SYMMETRY Tokens
SPECIFICATION Spec
INVARIANTS
  Consent
  OneVerdict
PROPERTIES
  Withdrawn
  Implements

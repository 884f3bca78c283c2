\* The router's promise not to run the same external action twice.
CONSTANTS
  Token = {t1}
  Act = {mail}
  External = {mail}
  None = None
  Thread = {l1, w1}
  Loop = {l1}
SPECIFICATION Spec
INVARIANTS
  SentOnce

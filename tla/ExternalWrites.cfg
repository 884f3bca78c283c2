\* One external action, one token, and the fairness of a polled Gateway.
CONSTANTS
  Token = {t1}
  Act = {mail}
  External = {mail}
  None = None
  Thread = {l1, w1}
  Loop = {l1}
SPECIFICATION FairSpec
INVARIANTS
  Recorded
PROPERTIES
  Lapses

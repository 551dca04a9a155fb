\* One user, two requests at a time.
CONSTANTS
  Nil = Nil
  User = {ann}
  Token = {t1, t2, t3, t4}
  Reset = {r1}
  Slot = {s1, s2}
  Threshold = 2
  MaxRequests = 9
SPECIFICATION Spec
INVARIANTS
  SessionTypeOK
  RotationInv
  LiveTokensAreAccounted
PROPERTIES
  TokensOnlyRetire
SYMMETRY Symmetry
\* Users may stop sending requests at any time.
CHECK_DEADLOCK FALSE

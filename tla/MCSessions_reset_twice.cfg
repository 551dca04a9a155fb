\* Two confirmations of one reset link.
CONSTANTS
  Nil = Nil
  User = {ann}
  Token = {t1, t2, t3, t4}
  Reset = {r1}
  Slot = {s1, s2}
  Threshold = 2
  MaxRequests = 5
SPECIFICATION Spec
INVARIANTS
  ResetIsSingleUse
\* Users may stop sending requests at any time.
CHECK_DEADLOCK FALSE

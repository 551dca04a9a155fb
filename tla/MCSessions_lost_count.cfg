\* A refused password is not counted.
CONSTANTS
  Nil = Nil
  User = {ann}
  Token = {t1, t2, t3, t4}
  Reset = {r1}
  Slot = {s1, s2}
  Threshold = 2
  MaxRequests = 3
SPECIFICATION Spec
INVARIANTS
  FailuresAreCounted
\* Users may stop sending requests at any time.
CHECK_DEADLOCK FALSE

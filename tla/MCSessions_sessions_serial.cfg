\* One session: requests are served one after the other.
CONSTANTS
  Nil = Nil
  User = {ann, bob}
  Token = {t1, t2, t3}
  Reset = {r1, r2}
  Slot = {s1}
  Threshold = 2
  MaxRequests = 7
SPECIFICATION Spec
INVARIANTS
  SessionsAreCurrent
  ResetIsSingleUse
PROPERTIES
  ImplementsSessionStore
\* Users may stop sending requests at any time.
CHECK_DEADLOCK FALSE

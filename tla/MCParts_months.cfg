\* The dashboard's months over five years.
CONSTANTS
  Photos <- CarPhotos
  MaxPhotos = 3
  Evidence <- Shots
  Circumstance <- Circumstances
  Copied <- CopiedShots
  MaxEvidence = 5
  Case = {c1, c2, c3, c4}
  Worker = {w1, w2}
  Entry = {e1, e2}
  MaxMoves = 8
  Years = 5
  FirstMonth = 6
  Tick = 2
  Nil = Nil
  User = {ann}
  Token = {1, 2, 3, 4}
  Reset = {}
  Slot = {1, 2}
  Threshold = 2
  MaxRequests = 20
  Tab = {a, b}
  MaxCalls = 2
  MaxReloads = 1
  Photo = {p, q, x}
  Unreadable = {x}
  MaxAttempts = 2
SPECIFICATION MonthsSpec
INVARIANTS
  LastSixMonths
\* The calendar ends.
CHECK_DEADLOCK FALSE

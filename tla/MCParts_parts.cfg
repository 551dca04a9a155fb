\* The engines, the dashboard, a user with two tabs and a form that is pressed
\* twice, one in each behaviour.
CONSTANTS
  Photos <- CarPhotos
  MaxPhotos = 3
  Evidence <- Shots
  Circumstance <- Circumstances
  Copied <- CopiedShots
  MaxEvidence = 5
  Case = {c1, c2, c3, c4}
  Worker = {w1, w2}
  Entry = {e1, e2}
  MaxMoves = 4
  Years = 6
  FirstMonth = 14
  Tick = 2
  Nil = Nil
  User = {ann}
  Token = {1, 2, 3, 4}
  Reset = {}
  Slot = {1, 2}
  Threshold = 2
  MaxRequests = 20
  Tab = {a, b}
  MaxCalls = 2
  MaxReloads = 1
  Photo = {p, q, x}
  Unreadable = {x}
  MaxAttempts = 2
SPECIFICATION PartsSpec
INVARIANTS
  InvoiceAddsUp
  LabourIgnoresOrder
  ClaimSeverityCoversPhotos
  SharedPictureIsReviewed
  OneSignalIsNotEnough
  StrippedPhotosAreNoFraud
  RepeatTypeOK
  FewGoUnnoticed
  NoClaimIsMissed
  BucketsJoin
  ShownInItsMonth
  ReplacedTokensAreDropped
  SubmittedIsWhole
  ResubmissionIsReviewed
PROPERTIES
  DropsOnlyToWriteOff
  SignOutClears
  CallsEnd
  FormComesBack
\* Users may stop, and the calendar and other bounds end.
CHECK_DEADLOCK FALSE

\* One session: requests are served one after the other.
CONSTANTS
  ann = ann
  sam = sam
  ada = ada
  User = {ann, sam}
  Claim = {c1}
  Image = {i1, i2}
  Slot = {s1}
  Amount = {amt}
  Target <- StaffStatus
  MaxRequests = 9
  RoleOf <- MCRoleOf
  OwnerOf <- MCOwnerOf
  Digest <- OwnPicture
SPECIFICATION Spec
INVARIANTS
  AnalysisCoversImages
  HistoryIsChain
PROPERTIES
  ImplementsLifecycle
\* Users may stop sending requests at any time.
CHECK_DEADLOCK FALSE

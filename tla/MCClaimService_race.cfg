\* A customer and a surveyor work on one claim, two requests at a time.
CONSTANTS
  ann = ann
  sam = sam
  ada = ada
  User = {ann, sam}
  Claim = {c1}
  Image = {i1, i2}
  Slot = {s1, s2}
  Amount = {amt}
  Target <- StaffStatus
  MaxRequests = 8
  RoleOf <- MCRoleOf
  OwnerOf <- MCOwnerOf
  Digest <- OwnPicture
SPECIFICATION FairSpec
INVARIANTS
  TypeOK
  SubmittedMeansAnalysed
  HistoryMatchesAudit
  HistoryIsLegal
  StatusIsLastHistoryRow
PROPERTIES
  RequestsFinish
  DecisionsKeepTheirColumns
\* Users may stop sending requests at any time.
CHECK_DEADLOCK FALSE

\* Two decisions on one claim overwrite each other.
CONSTANTS
  ann = ann
  sam = sam
  ada = ada
  User = {ann, sam}
  Claim = {c1}
  Image = {i1}
  Slot = {s1, s2}
  Amount = {amt}
  Target <- StaffStatus
  MaxRequests = 7
  RoleOf <- MCRoleOf
  OwnerOf <- MCOwnerOf
  Digest <- OwnPicture
SPECIFICATION Spec
PROPERTIES
  StatusFollowsTable
\* Users may stop sending requests at any time.
CHECK_DEADLOCK FALSE

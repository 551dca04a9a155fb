\* An image can still arrive after processing started.
CONSTANTS
  ann = ann
  sam = sam
  ada = ada
  User = {ann, sam}
  Claim = {c1}
  Image = {i1, i2}
  Slot = {s1, s2}
  Amount = {amt}
  Target <- StaffStatus
  MaxRequests = 6
  RoleOf <- MCRoleOf
  OwnerOf <- MCOwnerOf
  Digest <- OwnPicture
SPECIFICATION Spec
PROPERTIES
  NoImageAfterProcessing
\* Users may stop sending requests at any time.
CHECK_DEADLOCK FALSE

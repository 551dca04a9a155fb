\* Staff move a draft without images to submitted.
CONSTANTS
  ann = ann
  sam = sam
  ada = ada
  User = {ann, sam}
  Claim = {c1}
  Image = {i1, i2}
  Slot = {s1}
  Amount = {amt}
  Target <- StaffStatus
  MaxRequests = 6
  RoleOf <- MCRoleOf
  OwnerOf <- MCOwnerOf
  Digest <- OwnPicture
SPECIFICATION Spec
INVARIANTS
  SubmittedHasImage
\* Users may stop sending requests at any time.
CHECK_DEADLOCK FALSE

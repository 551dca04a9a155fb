\* Two claims whose images show one picture; a super administrator sends
\* claims back to draft, and they are submitted again, two requests at a time.
CONSTANTS
  ann = ann
  sam = sam
  ada = ada
  User = {ann, ada}
  Claim = {c1, c2}
  Image = {i1, i2}
  Slot = {s1, s2}
  Amount = {}
  Target = {"draft"}
  MaxRequests = 7
  RoleOf <- MCRoleOf
  OwnerOf <- MCOwnerOf
  Digest <- SamePicture
SPECIFICATION Spec
INVARIANTS
  AnalysisInv
  AnalysesGrow
  ScoreIsLastVerdict
  SharedPictureFlagged
  ImagesAreStored
SYMMETRY ClaimSymmetry
\* Users may stop sending requests at any time.
CHECK_DEADLOCK FALSE

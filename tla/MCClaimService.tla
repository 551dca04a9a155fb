--------------------------- MODULE MCClaimService ---------------------------
(***************************************************************************)
(* Instances of ClaimService for TLC: who there is, and which images show  *)
(* the same picture.                                                       *)
(***************************************************************************)
EXTENDS ClaimService, TLC

CONSTANTS ann, sam, ada

MCRoleOf == [u \in User |->
  CASE u = ann -> "customer" [] u = sam -> "surveyor" [] OTHER -> "super_admin"]

MCOwnerOf == [c \in Claim |-> ann]

\* All images show one picture.
SamePicture == [i \in Image |-> "p"]

\* Every image shows a picture of its own.
OwnPicture == [i \in Image |-> i]

StaffStatus == Status

Symmetry == Permutations(Image) \union Permutations(Slot)
ClaimSymmetry == Symmetry \union Permutations(Claim)
=============================================================================

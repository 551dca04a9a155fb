----------------------------- MODULE MCSessions -----------------------------
(***************************************************************************)
(* Instances of Sessions for TLC.  Tokens, links and database sessions are *)
(* interchangeable.                                                        *)
(***************************************************************************)
EXTENDS Sessions, TLC

Symmetry ==
  Permutations(User) \union Permutations(Token) \union Permutations(Reset)
  \union Permutations(Slot)
=============================================================================

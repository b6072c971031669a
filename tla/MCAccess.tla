------------------------------ MODULE MCAccess ------------------------------
(* Access for TLC: an organization owner, plain members and a stranger. *)
EXTENDS Access, TLC

CONSTANTS boss, ann, eve

MCOrgRole == [u \in Users |->
  CASE u = boss -> "owner" [] u = eve -> None [] OTHER -> "user"]
MCSymmetry == Permutations(Requests) \cup Permutations(Sessions)
=============================================================================

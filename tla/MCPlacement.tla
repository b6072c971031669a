----------------------------- MODULE MCPlacement -----------------------------
(* Placement for TLC: callers are interchangeable, so they are symmetric.    *)
EXTENDS Placement, TLC

CallerSymmetry == Permutations(Callers)
=============================================================================

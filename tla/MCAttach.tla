------------------------------ MODULE MCAttach ------------------------------
(* Attach for TLC. *)
EXTENDS Attach, TLC
=============================================================================

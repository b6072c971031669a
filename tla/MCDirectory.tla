---------------------------- MODULE MCDirectory ----------------------------
(* Directory for TLC: an address with a name in it and one without, both of  *)
(* one person; the other one has no ID token but theirs.                     *)
EXTENDS Directory, TLC

CONSTANTS ada, bob

MCTokens == [subject : {ada}, parts : {<<"ada", "l">>, <<>>}]
Symmetry == Permutations(Requests) \cup Permutations(Slugs)
=============================================================================

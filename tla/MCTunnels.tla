------------------------------ MODULE MCTunnels ------------------------------
(* Tunnels for TLC: two organizations with a workspace of the same name. *)
EXTENDS Tunnels, TLC

CONSTANTS acme, zeta, rb

KA == [tenant |-> acme, name |-> "api"]
KB == [tenant |-> zeta, name |-> "api"]
MCKeys == {KA, KB}
MCKeyOf == [k \in Tasks |-> KA]
MCTenantOf == [r \in Runners |-> IF r = rb THEN zeta ELSE acme]
\* The second organization's runner is newer than this control plane.
MCProtocol == [x \in Runners \cup Tasks |-> IF x = rb THEN 3 ELSE 2]
MCSymmetry == Permutations(Callers) \cup Permutations(Conns)
=============================================================================

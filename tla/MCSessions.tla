----------------------------- MODULE MCSessions -----------------------------
(* Sessions for TLC: a workspace that takes one session at a time. *)
EXTENDS Sessions

MCPolicies == {[kind |-> "max_sessions", max |-> 1, pct |-> 20]}
MCMemory == {[free |-> 0, limit |-> 0]}
=============================================================================

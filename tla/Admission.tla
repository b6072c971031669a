----------------------------- MODULE Admission -----------------------------
(***************************************************************************)
(* Whether a workspace takes another session: the decision over its policy *)
(* and the last report of its task.  A report is a record with its age,    *)
(* the number of sessions and mem, the free memory and its limit.          *)
(***************************************************************************)
EXTENDS Integers

CONSTANTS
  FreshFor,       \* three reporting intervals, in ticks
  MinFreeFloorMB, \* what one session costs
  None            \* no report

ASSUME AdmissionAssumption ==
  /\ FreshFor \in Nat /\ MinFreeFloorMB \in Nat \ {0} /\ None \notin Nat

AdmissionPolicy ==
  [kind : {"unlimited", "max_sessions", "min_free_memory_pct"}, max : Nat, pct : Nat]

byCount(p, rep) == rep.sessions < p.max

(* The share of the limit, and at least what a session costs. *)
Required(p, limit) ==
  LET share == (limit * p.pct) \div 100
  IN  IF share < MinFreeFloorMB THEN MinFreeFloorMB ELSE share

fresh(rep) == rep.age <= FreshFor

(* Unknown headroom admits; a stale report falls back to the count. *)
byMemory(p, rep) ==
  \/ rep.mem.limit = 0
  \/ IF fresh(rep) THEN rep.mem.free >= Required(p, rep.mem.limit)
     ELSE byCount(p, rep)

admits(p, rep) ==
  IF p.kind = "unlimited" \/ rep = None THEN TRUE
  ELSE IF p.kind = "max_sessions" THEN byCount(p, rep)
  ELSE byMemory(p, rep)
=============================================================================

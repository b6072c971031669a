---------------------------- MODULE MCResources ----------------------------
(* Resources for TLC: Fargate, docker with a limit, docker without one, a    *)
(* container limited under its task, and a host without cgroups.             *)
EXTENDS Resources

MCHosts ==
  { [layout |-> "v1", cgMem |-> 0, cgCpu |-> 0, mem |-> 8, cpu |-> 2, ram |-> 16, cpus |-> 4],
    [layout |-> "v2", cgMem |-> 8, cgCpu |-> 2, mem |-> 0, cpu |-> 0, ram |-> 16, cpus |-> 4],
    [layout |-> "v2", cgMem |-> 0, cgCpu |-> 0, mem |-> 0, cpu |-> 0, ram |-> 16, cpus |-> 4],
    [layout |-> "v2", cgMem |-> 6, cgCpu |-> 0, mem |-> 8, cpu |-> 2, ram |-> 16, cpus |-> 4],
    [layout |-> "none", cgMem |-> 0, cgCpu |-> 0, mem |-> 0, cpu |-> 0, ram |-> 16, cpus |-> 4] }
MCPolicies ==
  { [kind |-> "min_free_memory_pct", max |-> 1, pct |-> 20],
    [kind |-> "min_free_memory_pct", max |-> 1, pct |-> 75] }
=============================================================================

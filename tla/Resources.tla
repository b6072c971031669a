----------------------------- MODULE Resources -----------------------------
(***************************************************************************)
(* What a workspace task knows of its own machine: the sampler's ring of   *)
(* CPU and network rates, the limits it is under, and what it makes of     *)
(* them for admission and for the console.                                 *)
(*                                                                         *)
(* Files of the cgroup are there by layout, and a sample's read may fail.  *)
(* Samples are one interval apart, so a rate is a difference.  Disk space, *)
(* throttling and OOM kills are read and passed on without being kept and  *)
(* are left out.                                                           *)
(***************************************************************************)
EXTENDS Admission, SequencesExt

CONSTANTS
  Hosts,       \* machines a task may run on: layout, limits and size
  Mega,        \* bytes in a MB
  Uses,        \* memory that may be in use, in bytes
  MaxCpu,      \* bound: CPU time spent
  Traffic,     \* values of the interfaces' byte counters
  RingSize,    \* sampleRingSize
  Policies,    \* memory policies the reports are judged by
  Absent,      \* a file that cannot be read
  Unlimited    \* "max", and the sentinel of cgroup v1

(* A machine; 0 is a limit that is not set.  What a container is given is at *)
(* least a MB and at most what its task is given.                            *)
Host == [layout : {"none", "v1", "v2"}, cgMem : Nat, cgCpu : Nat,
         mem : Nat, cpu : Nat, ram : Nat \ {0}, cpus : Nat \ {0}]

ASSUME ResourcesAssumption ==
  /\ Hosts \subseteq Host
  /\ \A h \in Hosts :
       /\ {h.cgMem, h.mem} \cap 1..(Mega - 1) = {}
       /\ h.cgMem > 0 /\ h.mem > 0 => h.cgMem <= h.mem
  /\ Mega \in Nat \ {0} /\ Uses \subseteq Nat /\ MaxCpu \in Nat
  /\ Traffic \subseteq Nat /\ RingSize \in Nat \ {0}
  /\ Policies \subseteq AdmissionPolicy
  /\ Absent # Unlimited /\ {Absent, Unlimited} \cap Nat = {}

VARIABLES
  host,       \* the machine
  used,       \* memory charged to the task, in bytes
  spent,      \* its CPU time
  net,        \* byte counters of the interfaces there are
  taskLimit,  \* the platform's limits, asked for once
  ring,       \* the samples, newest last
  report,     \* the last report's memory, None
  shown,      \* the last answer to the console, None
  unanswered  \* history: the platform was asked and did not answer

resourcesVars == <<host, used, spent, net, taskLimit, ring, report, shown, unanswered>>

(* One sample: the counters and the rates since the last; did and spent are  *)
(* history, the CPU time really spent since the last sample and up to this   *)
(* one.                                                                      *)
Sample == [cpu : 0..MaxCpu, rx : Traffic \cup {0}, cores : Int, bps : Int,
           did : 0..MaxCpu, spent : 0..MaxCpu]

(* A report of the task's memory; was is history, what was in use then. *)
MemoryReport == [age : {0}, sessions : {0}, mem : [free : Nat, limit : Nat], was : Uses]

NotAsked == [done |-> FALSE, mem |-> 0, cpu |-> 0]

ResourcesInit ==
  /\ host \in Hosts /\ used \in Uses /\ spent = 0 /\ net \in Traffic
  /\ taskLimit = NotAsked /\ ring = <<>>
  /\ report = None /\ shown = None /\ unanswered = FALSE

-----------------------------------------------------------------------------
(* Files.  A reading is a value and whether there is one. *)

Nothing == [v |-> 0, ok |-> FALSE]

(* Under v2 the first path, under v1 the second. *)
Paths(content) ==
  << IF host.layout = "v2" THEN content ELSE Absent,
     IF host.layout = "v1" THEN content ELSE Absent >>

(* The first file that reads; no limit set reads as 0. *)
readCgroupBytes(files) ==
  LET first == IF files[1] # Absent THEN files[1] ELSE files[2]
  IN  IF first = Absent THEN Nothing
      ELSE [v |-> IF first = Unlimited THEN 0 ELSE first, ok |-> TRUE]

Limit(n) == IF n = 0 THEN Unlimited ELSE n
readCgroupMemUsed == readCgroupBytes(Paths(used))
readCgroupMemLimit == readCgroupBytes(Paths(Limit(host.cgMem)))
readCgroupCPUMax == readCgroupBytes(Paths(Limit(host.cgCpu)))
readCgroupCPUUsec == readCgroupBytes(Paths(spent))

(* /proc is the machine's, not the task's. *)
machineMemory == host.ram
readNetDev(ok) == IF ok THEN net ELSE 0

-----------------------------------------------------------------------------
(* Limits *)

(* fetchECSTaskLimits: both limits, or a task that is on no such platform,   *)
(* or no answer in time.                                                     *)
fetchECSTaskLimits(answers) ==
  IF answers THEN [done |-> TRUE, mem |-> host.mem, cpu |-> host.cpu]
  ELSE [NotAsked EXCEPT !.done = TRUE]

(* Slip: the caller's own limit is kept, the other thrown away. *)
KeepsOwn(answers, want) ==
  IF taskLimit.done THEN taskLimit
  ELSE [fetchECSTaskLimits(answers) EXCEPT
          !.mem = IF want = "mem" THEN @ ELSE 0, !.cpu = IF want = "cpu" THEN @ ELSE 0]

(* Asked once, by whoever needs a limit first, and kept, answer or none. *)
ecsTaskLimits(answers, want) ==
  IF taskLimit.done THEN taskLimit ELSE fetchECSTaskLimits(answers)

Asks(reading) == ~(reading.ok /\ reading.v > 0)

(* The cgroup's limit where it is set, the platform's where it is not. *)
taskMemoryLimitBytes(cached) ==
  IF Asks(readCgroupMemLimit) THEN cached.mem ELSE readCgroupMemLimit.v

taskCPULimitCores(cached) ==
  IF Asks(readCgroupCPUMax) THEN cached.cpu ELSE readCgroupCPUMax.v

(* Slip: no limit means the machine's memory. *)
HeadroomOfHost(cached) ==
  LET lim   == taskMemoryLimitBytes(cached)
      limit == IF lim = 0 THEN machineMemory ELSE lim
  IN  IF ~readCgroupMemUsed.ok THEN [free |-> 0, limit |-> 0]
      ELSE [free |-> (IF limit < used THEN 0 ELSE limit - used) \div Mega,
            limit |-> limit \div Mega]

(* Zero for both when either is unknown. *)
memoryHeadroomMB(cached) ==
  LET limit == taskMemoryLimitBytes(cached)
  IN  IF ~readCgroupMemUsed.ok \/ limit = 0 THEN [free |-> 0, limit |-> 0]
      ELSE [free |-> (IF limit < used THEN 0 ELSE limit - used) \div Mega,
            limit |-> limit \div Mega]

(* What asking, or not, does to the cache. *)
Cache(cached, answers) ==
  /\ taskLimit' = cached
  /\ unanswered' = (unanswered \/ (cached # taskLimit /\ ~answers /\ host.mem > 0))

(* reportHeadroom: the first half of the message. *)
Report(answers) ==
  /\ LET cached == IF Asks(readCgroupMemLimit) THEN ecsTaskLimits(answers, "mem")
                   ELSE taskLimit
     IN  /\ report' = [age |-> 0, sessions |-> 0, mem |-> memoryHeadroomMB(cached),
                       was |-> used]
         /\ Cache(cached, answers)
  /\ UNCHANGED <<host, used, spent, net, ring, shown>>

-----------------------------------------------------------------------------
(* The sampler *)

(* Slip: the counters are subtracted whatever was read. *)
Difference(now, before) == now - before

(* A rate needs both readings. *)
CoresOf(now, before) == IF now > 0 /\ before > 0 THEN now - before ELSE 0

(* A counter that went back with its interface gives no rate. *)
BpsOf(now, before) == IF now >= before THEN now - before ELSE 0

Pushed(cur) ==
  LET longer == Append(ring, cur)
  IN  IF Len(longer) > RingSize THEN Tail(longer) ELSE longer

(* A reading that fails is 0. *)
tick(cpuOK, netOK) ==
  /\ cpuOK => readCgroupCPUUsec.ok
  /\ LET cpu == IF cpuOK THEN readCgroupCPUUsec.v ELSE 0
         rx  == readNetDev(netOK)
         cur == IF ring = <<>>
                THEN [cpu |-> cpu, rx |-> rx, cores |-> 0, bps |-> 0,
                      did |-> spent, spent |-> spent]
                ELSE [cpu |-> cpu, rx |-> rx, cores |-> CoresOf(cpu, Last(ring).cpu),
                      bps |-> BpsOf(rx, Last(ring).rx),
                      did |-> spent - Last(ring).spent, spent |-> spent]
     IN  ring' = Pushed(cur)
  /\ UNCHANGED <<host, used, spent, net, taskLimit, report, shown, unanswered>>

(* The rate of the last two samples, taken again from their counters. *)
RxBytesPerSec ==
  IF Len(ring) < 2 THEN 0 ELSE Last(ring).rx - ring[Len(ring) - 1].rx

(* usage: the processors and the memory a percentage is of.  Each group is   *)
(* there when its own file reads.                                            *)
usage(answers) ==
  /\ LET quota  == IF Asks(readCgroupCPUMax) THEN ecsTaskLimits(answers, "cpu")
                   ELSE taskLimit
         cached == IF readCgroupMemUsed.ok /\ Asks(readCgroupMemLimit) /\ ~quota.done
                   THEN ecsTaskLimits(answers, "mem") ELSE quota
         cores  == taskCPULimitCores(quota)
         limit  == taskMemoryLimitBytes(cached)
     IN  /\ shown' = [cpus  |-> IF ~readCgroupCPUUsec.ok THEN 0
                                ELSE IF cores = 0 THEN host.cpus ELSE cores,
                      total |-> IF ~readCgroupMemUsed.ok THEN 0
                                ELSE IF limit \div Mega = 0 THEN machineMemory \div Mega
                                ELSE limit \div Mega,
                      rx    |-> RxBytesPerSec]
         /\ Cache(cached, answers)
  /\ UNCHANGED <<host, used, spent, net, ring, report>>

-----------------------------------------------------------------------------
(* What the sessions do to the machine. *)
Allocate(u) ==
  /\ u # used /\ used' = u
  /\ UNCHANGED <<host, spent, net, taskLimit, ring, report, shown, unanswered>>

Compute ==
  /\ spent < MaxCpu /\ spent' = spent + 1
  /\ UNCHANGED <<host, used, net, taskLimit, ring, report, shown, unanswered>>

(* Traffic; an interface that goes takes its counters with it. *)
Transfer(n) ==
  /\ n # net /\ net' = n
  /\ UNCHANGED <<host, used, spent, taskLimit, ring, report, shown, unanswered>>

ResourcesNext ==
  \/ \E cpuOK, netOK \in BOOLEAN : tick(cpuOK, netOK)
  \/ \E answers \in BOOLEAN : Report(answers) \/ usage(answers)
  \/ \E u \in Uses : Allocate(u)
  \/ Compute
  \/ \E n \in Traffic : Transfer(n)

ResourcesSpec == ResourcesInit /\ [][ResourcesNext]_resourcesVars

-----------------------------------------------------------------------------
(* Types, and the ring within its size (sampler). *)
ResourcesTypeOK ==
  /\ host \in Hosts /\ used \in Uses /\ spent \in 0..MaxCpu /\ net \in Traffic
  /\ taskLimit \in [done : BOOLEAN, mem : Nat, cpu : Nat]
  /\ ring \in Seq(Sample) /\ Len(ring) <= RingSize
  /\ report \in MemoryReport \cup {None}
  /\ shown \in [cpus : Nat, total : Nat, rx : Int] \cup {None}
  /\ unanswered \in BOOLEAN

(* What the machine really allows: the tightest limit that is set on it, or  *)
(* all the memory it has.                                                    *)
Enforced ==
  LET set == {n \in {IF host.layout = "none" THEN 0 ELSE host.cgMem, host.mem} : n > 0}
  IN  IF set = {} THEN host.ram ELSE CHOOSE n \in set : \A k \in set : n <= k

(* A fresh report that lets a session in under a memory policy, and does not *)
(* do so by being unknown, was made with that much of the limit that is      *)
(* really enforced left (memoryHeadroomMB, taskMemoryLimitBytes, admits).    *)
RoomIsReal ==
  report # None /\ report.mem.limit # 0 =>
    \A p \in Policies : p.kind = "min_free_memory_pct" /\ admits(p, report) =>
      (Enforced - report.was) \div Mega >= Required(p, Enforced \div Mega)

(* Once the platform has answered, whoever asked first, no report is unknown *)
(* and no answer to the console is about the host while a limit is enforced  *)
(* (ecsTaskLimits, usage).                                                   *)
LimitIsKnown ==
  host.layout # "none" /\ ~unanswered =>
    /\ report # None /\ Enforced # host.ram => report.mem.limit = Enforced \div Mega
    /\ shown # None => shown.total = Enforced \div Mega

(* The history never shows CPU time that was not spent between its two       *)
(* samples, nor a negative rate, whatever reads failed (tick).               *)
HistoryIsHonest ==
  \A i \in DOMAIN ring :
    ring[i].cores \in {0, ring[i].did} /\ ring[i].bps >= 0

(* What the platform was asked is kept as it answered: both of its limits,   *)
(* or none (fetchECSTaskLimits).                                             *)
CacheIsTrue ==
  /\ taskLimit.mem \in {0, host.mem}
  /\ taskLimit.done /\ ~unanswered => taskLimit.mem = host.mem

(* A report that names a limit names the one enforced, and the room under it *)
(* when it was made (memoryHeadroomMB).                                      *)
ReportIsTrue ==
  report # None /\ report.mem.limit # 0 =>
    /\ report.mem.limit = Enforced \div Mega
    /\ report.mem.free =
         (IF Enforced < report.was THEN 0 ELSE Enforced - report.was) \div Mega

(* A sample's counter is what was spent when it was taken, or a read that    *)
(* failed, and nothing was spent later than now (tick).                      *)
CountersAreTrue ==
  /\ \A i \in DOMAIN ring : ring[i].cpu \in {0, ring[i].spent}
  /\ ring # <<>> => ring[Len(ring)].spent <= spent

(* The inductive invariant. *)
ResourcesInv ==
  /\ ResourcesTypeOK
  /\ CacheIsTrue
  /\ ReportIsTrue
  /\ LimitIsKnown
  /\ CountersAreTrue
  /\ HistoryIsHonest
=============================================================================

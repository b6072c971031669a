-------------------------- MODULE Supervisor_proofs --------------------------
(***************************************************************************)
(* Proofs about the supervisor of a task: its session table (Supervisor),  *)
(* for any number of handlers, forks and listeners, and what it knows of   *)
(* its machine (Resources), for any machine, load and ring.                *)
(***************************************************************************)
EXTENDS Supervisor, Resources, TLAPS

(* Nil is no session and no listener. *)
LEMMA NilIsNoObject == Nil \notin Object /\ \A n \in Object : n \in Nat
BY SupervisorAssumption DEF Object

(* The initial state satisfies the inductive invariant. *)
LEMMA InitInv == Init => SupervisorInv
<1> SUFFICES ASSUME Init PROVE SupervisorInv
  OBVIOUS
<1> USE NilIsNoObject DEF Init
<1>1. TypeOK
  <2>1. opened \in 0..MaxForks
    BY SupervisorAssumption
  <2> QED
    BY <2>1 DEF TypeOK
<1>2. HandlersHold
  BY DEF HandlersHold
<1>3. ReadersFollow
  BY DEF ReadersFollow
<1>4. NoOrphan
  BY DEF NoOrphan
<1>5. TableIsOwned
  BY DEF TableIsOwned
<1>6. DeleteAfterExit
  BY DEF DeleteAfterExit
<1> QED
  BY <1>1, <1>2, <1>3, <1>4, <1>5, <1>6 DEF SupervisorInv

(* The steps of a handler that leave sessions alone: it moves on without     *)
(* holding one, or lets go of the one it held.                               *)
LEMMA QuietHandler ==
  ASSUME SupervisorInv, NEW h \in Handlers, TypeOK', UNCHANGED sessionVars,
         \/ /\ pc' = [pc EXCEPT ![h] = "idle"] /\ pc[h] # "register"
            /\ obj' = [obj EXCEPT ![h] = Nil]
         \/ /\ obj' = obj /\ pc[h] \in {"idle", "open", "store"}
            /\ \E l \in {"open", "store", "create", "remove"} :
                 pc' = [pc EXCEPT ![h] = l]
  PROVE  SupervisorInv'
<1> USE NilIsNoObject DEF SupervisorInv, TypeOK, sessionVars
<1>1. HandlersHold'
  BY DEF HandlersHold
<1>2. ReadersFollow'
  BY DEF ReadersFollow
<1>3. NoOrphan'
  BY DEF NoOrphan
<1>4. TableIsOwned'
  BY DEF TableIsOwned
<1>5. DeleteAfterExit'
  BY DEF DeleteAfterExit, HandlersHold
<1> QED
  BY <1>1, <1>2, <1>3, <1>4, <1>5

(* A fork takes a number nothing refers to. *)
LEMMA Forks ==
  ASSUME SupervisorInv, NEW h \in Handlers, Fork(h)
  PROVE  SupervisorInv'
<1> USE NilIsNoObject DEF SupervisorInv, Fork, brokerVars
<1>1. TypeOK'
  BY DEF TypeOK
<1>2. HandlersHold'
  BY DEF TypeOK, HandlersHold, ReadersFollow, TableIsOwned
<1>3. ReadersFollow'
  BY DEF TypeOK, HandlersHold, ReadersFollow
<1>4. NoOrphan'
  BY DEF TypeOK, NoOrphan, TableIsOwned, HandlersHold, ReadersFollow
<1>5. TableIsOwned'
  BY DEF TypeOK, TableIsOwned, HandlersHold, ReadersFollow
<1>6. DeleteAfterExit'
  BY DEF TypeOK, DeleteAfterExit, HandlersHold, ReadersFollow
<1> QED
  BY <1>1, <1>2, <1>3, <1>4, <1>5, <1>6

(* The registered session becomes the table's; none was in it before. *)
LEMMA Registers ==
  ASSUME SupervisorInv, NEW h \in Handlers, Register(h)
  PROVE  SupervisorInv'
<1> USE NilIsNoObject DEF SupervisorInv, Register, IdFree, StartReader, Returns, brokerVars
<1>1. TypeOK'
  BY DEF TypeOK
<1>2. HandlersHold'
  BY DEF TypeOK, HandlersHold, ReadersFollow, TableIsOwned
<1>3. ReadersFollow'
  BY DEF TypeOK, HandlersHold, ReadersFollow
<1>4. NoOrphan'
  BY DEF TypeOK, NoOrphan, TableIsOwned, HandlersHold, ReadersFollow
<1>5. TableIsOwned'
  BY DEF TypeOK, TableIsOwned, HandlersHold, ReadersFollow
<1>6. DeleteAfterExit'
  BY DEF TypeOK, DeleteAfterExit, HandlersHold, ReadersFollow
<1> QED
  BY <1>1, <1>2, <1>3, <1>4, <1>5, <1>6

(* The loser's child is marked killed as its handler lets go of it. *)
LEMMA Loses ==
  ASSUME SupervisorInv, NEW h \in Handlers, RegisterLost(h)
  PROVE  SupervisorInv'
<1> USE NilIsNoObject DEF SupervisorInv, RegisterLost, IdFree, Returns, brokerVars
<1>1. TypeOK'
  BY DEF TypeOK
<1>2. HandlersHold'
  BY DEF TypeOK, HandlersHold, ReadersFollow, TableIsOwned
<1>3. ReadersFollow'
  BY DEF TypeOK, HandlersHold, ReadersFollow
<1>4. NoOrphan'
  BY DEF TypeOK, NoOrphan, TableIsOwned, HandlersHold, ReadersFollow
<1>5. TableIsOwned'
  BY DEF TypeOK, TableIsOwned, HandlersHold, ReadersFollow
<1>6. DeleteAfterExit'
  BY DEF TypeOK, DeleteAfterExit, HandlersHold, ReadersFollow
<1> QED
  BY <1>1, <1>2, <1>3, <1>4, <1>5, <1>6

(* Delete takes hold of the table's session, which has a reader. *)
LEMMA DeleteGets ==
  ASSUME SupervisorInv, NEW h \in Handlers, DeleteGet(h)
  PROVE  SupervisorInv'
<1> USE NilIsNoObject DEF SupervisorInv, DeleteGet, Kill, brokerVars
<1>1. TypeOK'
  BY DEF TypeOK
<1>2. HandlersHold'
  BY DEF TypeOK, HandlersHold, ReadersFollow, TableIsOwned
<1>3. ReadersFollow'
  BY DEF TypeOK, HandlersHold, ReadersFollow
<1>4. NoOrphan'
  BY DEF TypeOK, NoOrphan, TableIsOwned, HandlersHold, ReadersFollow
<1>5. TableIsOwned'
  BY DEF TypeOK, TableIsOwned, HandlersHold, ReadersFollow
<1>6. DeleteAfterExit'
  BY DEF TypeOK, DeleteAfterExit, HandlersHold, ReadersFollow
<1> QED
  BY <1>1, <1>2, <1>3, <1>4, <1>5, <1>6

(* Delete goes on when the reader is done, so the child is gone. *)
LEMMA DeleteWaits ==
  ASSUME SupervisorInv, NEW h \in Handlers, DeleteWaited(h)
  PROVE  SupervisorInv'
<1> USE NilIsNoObject DEF SupervisorInv, DeleteWaited, Done, sessionVars, brokerVars
<1>1. TypeOK'
  BY DEF TypeOK
<1>2. HandlersHold'
  BY DEF TypeOK, HandlersHold, ReadersFollow, TableIsOwned
<1>3. ReadersFollow'
  BY DEF TypeOK, HandlersHold, ReadersFollow
<1>4. NoOrphan'
  BY DEF TypeOK, NoOrphan, TableIsOwned, HandlersHold, ReadersFollow
<1>5. TableIsOwned'
  BY DEF TypeOK, TableIsOwned, HandlersHold, ReadersFollow
<1>6. DeleteAfterExit'
  BY DEF TypeOK, DeleteAfterExit, HandlersHold, ReadersFollow
<1> QED
  BY <1>1, <1>2, <1>3, <1>4, <1>5, <1>6

(* A stop only kills. *)
LEMMA Stops ==
  ASSUME SupervisorInv, Stop
  PROVE  SupervisorInv'
<1> USE NilIsNoObject DEF SupervisorInv, Stop, handlerVars, brokerVars
<1>1. TypeOK'
  BY DEF TypeOK
<1>2. HandlersHold'
  BY DEF TypeOK, HandlersHold, ReadersFollow, TableIsOwned
<1>3. ReadersFollow'
  BY DEF TypeOK, HandlersHold, ReadersFollow
<1>4. NoOrphan'
  BY DEF TypeOK, NoOrphan, TableIsOwned, HandlersHold, ReadersFollow
<1>5. TableIsOwned'
  BY DEF TypeOK, TableIsOwned, HandlersHold, ReadersFollow
<1>6. DeleteAfterExit'
  BY DEF TypeOK, DeleteAfterExit, HandlersHold, ReadersFollow
<1> QED
  BY <1>1, <1>2, <1>3, <1>4, <1>5, <1>6

(* A child that is gone orphans nobody. *)
LEMMA Exits ==
  ASSUME SupervisorInv, NEW o \in Object, ChildExits(o)
  PROVE  SupervisorInv'
<1> USE NilIsNoObject DEF SupervisorInv, ChildExits, handlerVars, brokerVars
<1>1. TypeOK'
  BY DEF TypeOK
<1>2. HandlersHold'
  BY DEF TypeOK, HandlersHold, ReadersFollow, TableIsOwned
<1>3. ReadersFollow'
  BY DEF TypeOK, HandlersHold, ReadersFollow
<1>4. NoOrphan'
  BY DEF TypeOK, NoOrphan, TableIsOwned, HandlersHold, ReadersFollow
<1>5. TableIsOwned'
  BY DEF TypeOK, TableIsOwned, HandlersHold, ReadersFollow
<1>6. DeleteAfterExit'
  BY DEF TypeOK, DeleteAfterExit, HandlersHold, ReadersFollow
<1> QED
  BY <1>1, <1>2, <1>3, <1>4, <1>5, <1>6

(* The reader finishes after its child. *)
LEMMA Finishes ==
  ASSUME SupervisorInv, NEW o \in Object, Finish(o)
  PROVE  SupervisorInv'
<1> USE NilIsNoObject DEF SupervisorInv, Finish, handlerVars, brokerVars
<1>1. TypeOK'
  BY DEF TypeOK
<1>2. HandlersHold'
  BY DEF TypeOK, HandlersHold, ReadersFollow, TableIsOwned
<1>3. ReadersFollow'
  BY DEF TypeOK, HandlersHold, ReadersFollow
<1>4. NoOrphan'
  BY DEF TypeOK, NoOrphan, TableIsOwned, HandlersHold, ReadersFollow
<1>5. TableIsOwned'
  BY DEF TypeOK, TableIsOwned, HandlersHold, ReadersFollow
<1>6. DeleteAfterExit'
  BY DEF TypeOK, DeleteAfterExit, HandlersHold, ReadersFollow
<1> QED
  BY <1>1, <1>2, <1>3, <1>4, <1>5, <1>6

(* Reap empties the table of its own session, whose child is gone. *)
LEMMA Reaps ==
  ASSUME SupervisorInv, NEW o \in Object, Reap(o)
  PROVE  SupervisorInv'
<1> USE NilIsNoObject DEF SupervisorInv, Reap, handlerVars, brokerVars
<1>1. TypeOK'
  BY DEF TypeOK
<1>2. HandlersHold'
  BY DEF TypeOK, HandlersHold, ReadersFollow, TableIsOwned
<1>3. ReadersFollow'
  BY DEF TypeOK, HandlersHold, ReadersFollow
<1>4. NoOrphan'
  BY DEF TypeOK, NoOrphan, TableIsOwned, HandlersHold, ReadersFollow
<1>5. TableIsOwned'
  BY DEF TypeOK, TableIsOwned, HandlersHold, ReadersFollow
<1>6. DeleteAfterExit'
  BY DEF TypeOK, DeleteAfterExit, HandlersHold, ReadersFollow
<1> QED
  BY <1>1, <1>2, <1>3, <1>4, <1>5, <1>6

(* The exit callback leaves the table alone. *)
LEMMA OnExits ==
  ASSUME SupervisorInv, NEW o \in Object, OnExit(o)
  PROVE  SupervisorInv'
<1> USE NilIsNoObject DEF SupervisorInv, OnExit, handlerVars
<1>1. TypeOK'
  BY DEF TypeOK
<1>2. HandlersHold'
  BY DEF TypeOK, HandlersHold, ReadersFollow, TableIsOwned
<1>3. ReadersFollow'
  BY DEF TypeOK, HandlersHold, ReadersFollow
<1>4. NoOrphan'
  BY DEF TypeOK, NoOrphan, TableIsOwned, HandlersHold, ReadersFollow
<1>5. TableIsOwned'
  BY DEF TypeOK, TableIsOwned, HandlersHold, ReadersFollow
<1>6. DeleteAfterExit'
  BY DEF TypeOK, DeleteAfterExit, HandlersHold, ReadersFollow
<1> QED
  BY <1>1, <1>2, <1>3, <1>4, <1>5, <1>6

(* Every step keeps the invariant. *)
LEMMA NextInv == SupervisorInv /\ [Next]_vars => SupervisorInv'
<1> SUFFICES ASSUME SupervisorInv, [Next]_vars PROVE SupervisorInv'
  OBVIOUS
<1>1. CASE UNCHANGED vars
  BY <1>1 DEF vars, handlerVars, sessionVars, brokerVars, SupervisorInv, TypeOK,
     HandlersHold, ReadersFollow, NoOrphan, TableIsOwned, DeleteAfterExit
<1>2. CASE SessionIdentity
  BY <1>2 DEF SessionIdentity, handlerVars, sessionVars, brokerVars,
     SupervisorInv, TypeOK, HandlersHold, ReadersFollow, NoOrphan,
     TableIsOwned, DeleteAfterExit
<1>3. CASE Stop
  BY <1>3, Stops
<1>4. ASSUME NEW h \in Handlers, Create(h) PROVE SupervisorInv'
  <2> USE DEF brokerVars, SupervisorInv
  <2>1. CASE StartMiss(h)
    <3>1. TypeOK'
      BY <2>1 DEF StartMiss, TypeOK, sessionVars
    <3> QED
      BY <2>1, <3>1, QuietHandler DEF StartMiss
  <2>2. CASE OpenHit(h)
    <3>1. TypeOK'
      BY <2>2 DEF OpenHit, TypeOK, sessionVars
    <3> QED
      BY <2>2, <3>1, QuietHandler DEF OpenHit
  <2>3. CASE OpenMiss(h)
    <3>1. opened + 1 \in Object /\ opened' \in 0..MaxForks
      BY <2>3, SupervisorAssumption DEF OpenMiss, TypeOK, Object
    <3>2. TypeOK'
      BY <2>3, <3>1 DEF OpenMiss, TypeOK, sessionVars
    <3> QED
      BY <2>3, <3>2, QuietHandler DEF OpenMiss
  <2>4. CASE OpenStore(h)
    <3>1. TypeOK'
      BY <2>4 DEF OpenStore, TypeOK, sessionVars
    <3> QED
      BY <2>4, <3>1, QuietHandler DEF OpenStore
  <2>5. CASE OpenFails(h) \/ CreateFails(h)
    <3>1. TypeOK'
      BY <2>5 DEF OpenFails, CreateFails, Returns, TypeOK, sessionVars
    <3> QED
      BY <2>5, <3>1, QuietHandler DEF OpenFails, CreateFails, Returns
  <2>6. CASE Fork(h)
    BY <2>6, Forks
  <2>7. CASE Register(h)
    BY <2>7, Registers
  <2>8. CASE RegisterLost(h)
    BY <2>8, Loses
  <2> QED
    BY <1>4, <2>1, <2>2, <2>3, <2>4, <2>5, <2>6, <2>7, <2>8 DEF Create
<1>5. ASSUME NEW h \in Handlers, DeleteSession(h) PROVE SupervisorInv'
  <2> USE DEF SupervisorInv
  <2>1. CASE DeleteMiss(h)
    <3>1. TypeOK'
      BY <2>1 DEF DeleteMiss, TypeOK, sessionVars, brokerVars
    <3> QED
      BY <2>1, <3>1, QuietHandler DEF DeleteMiss
  <2>2. CASE DeleteRemove(h)
    <3>1. transcript' \in BOOLEAN
      BY <2>2, Zenon DEF DeleteRemove
    <3>2. TypeOK'
      BY <2>2, <3>1 DEF DeleteRemove, Returns, TypeOK, sessionVars, brokerVars
    <3> QED
      BY <2>2, <3>2, QuietHandler DEF DeleteRemove, Returns
  <2> QED
    BY <1>5, <2>1, <2>2, DeleteGets, DeleteWaits DEF DeleteSession
<1>6. ASSUME NEW o \in Object, Session(o) PROVE SupervisorInv'
  <2>1. CASE ChildWrites(o)
    BY <2>1 DEF ChildWrites, handlerVars, sessionVars, brokerVars,
       SupervisorInv, TypeOK, HandlersHold, ReadersFollow, NoOrphan,
       TableIsOwned, DeleteAfterExit
  <2> QED
    BY <1>6, <2>1, Exits, Finishes, Reaps, OnExits DEF Session
<1> QED
  BY <1>1, <1>2, <1>3, <1>4, <1>5, <1>6 DEF Next

(* Every reachable state of the supervisor satisfies the inductive           *)
(* invariant: handlers hold sessions that were forked, readers follow their  *)
(* children, and the table names exactly the session that is being read.     *)
THEOREM SupervisorInvariant == Spec => []SupervisorInv
BY InitInv, NextInv, PTL DEF Spec

(* However many handlers create one id at once, no running child is left     *)
(* that neither the table nor a handler holds and nobody killed              *)
(* (Manager.Create's second look).                                           *)
THEOREM NoChildOrphaned == Spec => []NoOrphan
<1>1. SupervisorInv => NoOrphan
  BY DEF SupervisorInv
<1> QED
  BY <1>1, SupervisorInvariant, PTL

(* Manager.reap, which deletes by id, only ever removes its own session. *)
THEOREM ReapTakesItsOwn == Spec => []TableIsOwned
<1>1. SupervisorInv => TableIsOwned
  BY DEF SupervisorInv
<1> QED
  BY <1>1, SupervisorInvariant, PTL

(* handleDeleteSession removes the conversation only after the session it    *)
(* found is gone.                                                            *)
THEOREM DeletesAfterExit == Spec => []DeleteAfterExit
<1>1. SupervisorInv => DeleteAfterExit
  BY DEF SupervisorInv
<1> QED
  BY <1>1, SupervisorInvariant, PTL

-----------------------------------------------------------------------------
(* The machine the sessions run on is the same supervisor's: Resources, with *)
(* parameters of its own, and for every value they may have.                 *)

(* The limits a task keeps once it has asked for them. *)
TaskLimit == [done : BOOLEAN, mem : Nat, cpu : Nat]

(* The limit that counts is the container's where it has one, the platform's *)
(* where it has none, and the machine's memory where neither is set.         *)
LEMMA EnforcedIs ==
  ASSUME host \in Hosts
  PROVE  LET none == host.layout = "none" \/ host.cgMem = 0
         IN  /\ Enforced \in Nat
             /\ ~none => Enforced = host.cgMem
             /\ none /\ host.mem > 0 => Enforced = host.mem
             /\ none /\ host.mem = 0 => Enforced = host.ram
<1> DEFINE cg == IF host.layout = "none" THEN 0 ELSE host.cgMem
           S  == {n \in {cg, host.mem} : n > 0}
<1>1. /\ host.cgMem \in Nat /\ host.mem \in Nat /\ host.ram \in Nat
      /\ host.cgMem > 0 /\ host.mem > 0 => host.cgMem <= host.mem
  BY ResourcesAssumption DEF Host
<1>2. Enforced =
        IF S = {} THEN host.ram ELSE CHOOSE n \in S : \A k \in S : n <= k
  BY DEF Enforced
<1>3. CASE cg > 0
  <2>1. cg \in S /\ \A n \in S : (\A k \in S : n <= k) <=> n = cg
    BY <1>1, <1>3
  <2>2. (CHOOSE n \in S : \A k \in S : n <= k) = cg
    <3> HIDE DEF S, cg
    <3> QED
      BY <2>1
  <2> QED
    BY <1>1, <1>2, <1>3, <2>1, <2>2
<1>4. CASE cg = 0 /\ host.mem > 0
  <2>1. S = {host.mem}
    BY <1>1, <1>4
  <2>2. \A n \in S : (\A k \in S : n <= k) <=> n = host.mem
    BY <1>1, <2>1
  <2>3. (CHOOSE n \in S : \A k \in S : n <= k) = host.mem
    <3> HIDE DEF S, cg
    <3> QED
      BY <2>1, <2>2
  <2> QED
    BY <1>1, <1>2, <1>4, <2>1, <2>3
<1>5. CASE cg = 0 /\ host.mem = 0
  <2>1. S = {}
    BY <1>1, <1>5
  <2> QED
    BY <1>1, <1>2, <1>5, <2>1
<1> QED
  BY <1>1, <1>3, <1>4, <1>5

(* What the files say: without cgroups nothing, else what is in use or       *)
(* spent, and a limit where one is set.                                      *)
LEMMA FilesSay ==
  ASSUME ResourcesTypeOK
  PROVE  /\ readCgroupMemUsed.ok <=> host.layout # "none"
         /\ readCgroupCPUUsec.ok <=> host.layout # "none"
         /\ host.layout # "none" => readCgroupCPUUsec.v = spent
         /\ Asks(readCgroupMemLimit) <=>
              host.layout = "none" \/ host.cgMem = 0
         /\ ~Asks(readCgroupMemLimit) =>
              readCgroupMemLimit.v = host.cgMem
         /\ ~Asks(readCgroupCPUMax) =>
              readCgroupCPUMax.v = host.cgCpu
<1>1. /\ host.cgMem \in Nat /\ host.cgCpu \in Nat /\ used \in Nat /\ spent \in Nat
      /\ host.layout \in {"none", "v1", "v2"}
      /\ Absent # Unlimited /\ Absent \notin Nat /\ Unlimited \notin Nat
  BY ResourcesAssumption DEF Host, ResourcesTypeOK
<1>2. ASSUME NEW f, f # Absent
      PROVE  LET r == readCgroupBytes(Paths(f))
             IN  /\ r.ok <=> host.layout # "none"
                 /\ host.layout = "none" => r.v = 0
                 /\ host.layout # "none" => r.v = IF f = Unlimited THEN 0 ELSE f
  <2>1. CASE host.layout = "none"
    BY <2>1 DEF readCgroupBytes, Paths, Nothing
  <2>2. CASE host.layout = "v1"
    BY <1>2, <2>2 DEF readCgroupBytes, Paths
  <2>3. CASE host.layout = "v2"
    BY <1>2, <2>3 DEF readCgroupBytes, Paths
  <2> QED
    BY <1>1, <2>1, <2>2, <2>3
<1>3. /\ readCgroupMemUsed.ok <=> host.layout # "none"
      /\ readCgroupCPUUsec.ok <=> host.layout # "none"
      /\ host.layout # "none" => readCgroupCPUUsec.v = spent
  BY <1>1, <1>2 DEF readCgroupMemUsed, readCgroupCPUUsec
<1>4. ASSUME NEW n \in Nat
      PROVE  LET r == readCgroupBytes(Paths(Limit(n)))
             IN  /\ Asks(r) <=> host.layout = "none" \/ n = 0
                 /\ ~Asks(r) => r.v = n
  <2>1. CASE n = 0
    BY <1>1, <1>2, <2>1 DEF Limit, Asks
  <2>2. CASE n # 0
    BY <1>1, <1>2, <2>2 DEF Limit, Asks
  <2> QED
    BY <2>1, <2>2
<1> QED
  BY <1>1, <1>3, <1>4 DEF readCgroupMemLimit, readCgroupCPUMax

(* Whoever asks, the platform's limits are there afterwards: its own, or     *)
(* none, and none of a task with a limit only when it did not answer.        *)
LEMMA Fetched ==
  ASSUME ResourcesTypeOK, CacheIsTrue,
         NEW answers \in BOOLEAN, NEW want
  PROVE  LET c == ecsTaskLimits(answers, want)
         IN  /\ c \in TaskLimit /\ c.done /\ c.mem \in {0, host.mem}
             /\ taskLimit.done => c = taskLimit
             /\ c.mem = host.mem \/ unanswered
                \/ (c # taskLimit /\ ~answers /\ host.mem > 0)
<1>1. host.mem \in Nat /\ host.cpu \in Nat /\ taskLimit \in TaskLimit
  BY ResourcesAssumption DEF Host, ResourcesTypeOK, TaskLimit
<1>2. CASE taskLimit.done
  BY <1>1, <1>2 DEF ecsTaskLimits, CacheIsTrue
<1>3. CASE ~taskLimit.done /\ answers
  BY <1>1, <1>3 DEF ecsTaskLimits, fetchECSTaskLimits, TaskLimit
<1>4. CASE ~taskLimit.done /\ ~answers
  <2> DEFINE c == [NotAsked EXCEPT !.done = TRUE]
  <2>1. c \in TaskLimit /\ c.done /\ c.mem = 0
    BY DEF NotAsked, TaskLimit
  <2>2. ecsTaskLimits(answers, want) = c
    BY <1>4 DEF ecsTaskLimits, fetchECSTaskLimits
  <2>3. c # taskLimit
    BY <1>4, <2>1
  <2> HIDE DEF c
  <2> QED
    BY <1>1, <1>4, <2>1, <2>2, <2>3
<1> QED
  BY <1>2, <1>3, <1>4

(* What may be made of the cache: limits that are the platform's or none,    *)
(* and once asked for none only because there was no answer.                 *)
Kept(c, answers) ==
  /\ c \in TaskLimit /\ c.mem \in {0, host.mem}
  /\ c.done => \/ c.mem = host.mem \/ unanswered
               \/ c # taskLimit /\ ~answers /\ host.mem > 0

(* The cache as it is, and after asking. *)
LEMMA CacheKept ==
  ASSUME ResourcesTypeOK, CacheIsTrue,
         NEW answers \in BOOLEAN, NEW want
  PROVE  /\ Kept(taskLimit, answers)
         /\ Kept(ecsTaskLimits(answers, want), answers)
         /\ ecsTaskLimits(answers, want).done
<1>1. Kept(taskLimit, answers)
  BY DEF Kept, TaskLimit, ResourcesTypeOK, CacheIsTrue
<1> QED
  BY <1>1, Fetched DEF Kept

(* Keeping it keeps the cache true, and a task whose platform answered has   *)
(* its limit.                                                                *)
LEMMA CacheStep ==
  ASSUME ResourcesTypeOK, NEW answers \in BOOLEAN, NEW c, Kept(c, answers),
         Cache(c, answers), host' = host
  PROVE  /\ taskLimit' \in TaskLimit /\ unanswered' \in BOOLEAN
         /\ CacheIsTrue'
         /\ ~unanswered' => ~unanswered /\ (c.done => c.mem = host.mem)
<1>1. taskLimit' = c
  BY DEF Cache
<1>2. unanswered' = (unanswered \/ (c # taskLimit /\ ~answers /\ host.mem > 0))
  BY DEF Cache
<1>3. unanswered' \in BOOLEAN
  BY <1>2
<1>4. ~unanswered' => ~unanswered /\ (c.done => c.mem = host.mem)
  BY <1>2 DEF Kept
<1>5. CacheIsTrue'
  BY <1>1, <1>4 DEF CacheIsTrue, Kept
<1> QED
  BY <1>1, <1>3, <1>4, <1>5 DEF Kept

(* Whole MBs of a number of bytes. *)
LEMMA WholeMBs ==
  ASSUME NEW n \in Nat
  PROVE  n \div Mega \in Nat /\ (n >= Mega => n \div Mega # 0) /\ 0 \div Mega = 0
<1>1. Mega \in Nat /\ Mega > 0
  BY ResourcesAssumption
<1> QED
  BY <1>1, SMT

(* The limit a reader arrives at is the one enforced, or unknown; and with   *)
(* the platform's answer it is unknown only where none is set.               *)
LEMMA LimitOf ==
  ASSUME ResourcesTypeOK, host.layout # "none",
         NEW c \in TaskLimit, c.mem \in {0, host.mem}
  PROVE  LET n == taskMemoryLimitBytes(c)
         IN  /\ n \in Nat
             /\ n # 0 => n = Enforced /\ n >= Mega
             /\ (Asks(readCgroupMemLimit) => c.mem = host.mem) /\ n = 0
                => Enforced = host.ram
<1> DEFINE n == taskMemoryLimitBytes(c)
<1>1. /\ host \in Hosts /\ host.cgMem \in Nat /\ host.mem \in Nat /\ Mega \in Nat
      /\ {host.cgMem, host.mem} \cap 1..(Mega - 1) = {}
  BY ResourcesAssumption DEF Host, ResourcesTypeOK
<1>2. \A k \in {host.cgMem, host.mem} : k # 0 => k >= Mega
  BY <1>1
<1>3. CASE host.cgMem = 0
  <2>1. n = c.mem /\ Asks(readCgroupMemLimit)
    BY <1>3, FilesSay DEF taskMemoryLimitBytes
  <2>2. host.mem > 0 => Enforced = host.mem
    BY <1>1, <1>3, EnforcedIs
  <2>3. host.mem = 0 => Enforced = host.ram
    BY <1>1, <1>3, EnforcedIs
  <2> HIDE DEF n
  <2>4. n \in Nat /\ (n # 0 => n = Enforced /\ n >= Mega)
    BY <1>1, <1>2, <2>1, <2>2
  <2>5. c.mem = host.mem /\ n = 0 => Enforced = host.ram
    BY <2>1, <2>3
  <2> QED
    BY <2>1, <2>4, <2>5 DEF n
<1>4. CASE host.cgMem # 0
  <2>1. n = host.cgMem
    BY <1>4, FilesSay DEF taskMemoryLimitBytes
  <2>2. Enforced = host.cgMem
    BY <1>1, <1>4, EnforcedIs
  <2> QED
    BY <1>1, <1>2, <1>4, <2>1, <2>2
<1> QED
  BY <1>3, <1>4

(* What the report makes of it. *)
LEMMA HeadroomOf ==
  ASSUME ResourcesTypeOK, NEW c \in TaskLimit, c.mem \in {0, host.mem}
  PROVE  LET m == memoryHeadroomMB(c)
         IN  /\ m \in [free : Nat, limit : Nat]
             /\ m.limit # 0 =>
                  /\ m.limit = Enforced \div Mega
                  /\ m.free = (IF Enforced < used THEN 0
                               ELSE Enforced - used) \div Mega
             /\ /\ host.layout # "none" /\ Enforced # host.ram
                /\ Asks(readCgroupMemLimit) => c.mem = host.mem
                => m.limit = Enforced \div Mega
<1> DEFINE n == taskMemoryLimitBytes(c)
           m == memoryHeadroomMB(c)
           left == IF n < used THEN 0 ELSE n - used
<1>1. CASE host.layout = "none"
  <2>1. m = [free |-> 0, limit |-> 0]
    BY <1>1, FilesSay DEF memoryHeadroomMB
  <2> QED
    BY <1>1, <2>1
<1>2. CASE host.layout # "none" /\ n = 0
  <2>1. m = [free |-> 0, limit |-> 0]
    BY <1>2 DEF memoryHeadroomMB
  <2>2. (Asks(readCgroupMemLimit) => c.mem = host.mem)
        => Enforced = host.ram
    BY <1>2, LimitOf
  <2> QED
    BY <2>1, <2>2
<1>3. CASE host.layout # "none" /\ n # 0
  <2>1. n \in Nat /\ n = Enforced
    BY <1>3, LimitOf
  <2>2. m = [free |-> left \div Mega, limit |-> n \div Mega]
    BY <1>3, FilesSay DEF memoryHeadroomMB
  <2>3. left \in Nat
    <3>1. used \in Nat
      BY ResourcesAssumption DEF ResourcesTypeOK
    <3> HIDE DEF n
    <3> QED
      BY <2>1, <3>1
  <2>4. left \div Mega \in Nat /\ n \div Mega \in Nat
    <3> HIDE DEF left, n
    <3> QED
      BY <2>1, <2>3, WholeMBs
  <2>5. m.free = left \div Mega /\ m.limit = n \div Mega /\ m \in [free : Nat, limit : Nat]
    <3> HIDE DEF left, n, m
    <3> QED
      BY <2>2, <2>4
  <2>6. left = IF Enforced < used THEN 0 ELSE Enforced - used
    BY <2>1
  <2> HIDE DEF left, n
  <2> QED
    BY <2>1, <2>5, <2>6
<1> QED
  BY <1>1, <1>2, <1>3

(* The counters of a sample are numbers. *)
LEMMA SampleTypes ==
  ASSUME NEW x \in Sample
  PROVE  x.spent \in 0..MaxCpu /\ x.spent \in Nat /\ x.rx \in Nat
<1>1. Traffic \subseteq Nat /\ MaxCpu \in Nat
  BY ResourcesAssumption
<1>2. x.rx \in Traffic \cup {0} /\ x.spent \in 0..MaxCpu
  BY DEF Sample
<1>3. \A n \in Traffic \cup {0} : n \in Nat
  BY <1>1
<1>4. \A n \in 0..MaxCpu : n \in Nat
  BY <1>1
<1> QED
  BY <1>2, <1>3, <1>4

(* A report is true of the machine it was made on. *)
LEMMA ReportStep ==
  ASSUME ResourcesInv,
         NEW answers \in BOOLEAN, Report(answers)
  PROVE  ResourcesInv'
<1> DEFINE asks == Asks(readCgroupMemLimit)
           c == IF asks THEN ecsTaskLimits(answers, "mem") ELSE taskLimit
           m == memoryHeadroomMB(c)
<1> USE DEF ResourcesInv
<1>1. /\ report' = [age |-> 0, sessions |-> 0, mem |-> m, was |-> used]
      /\ Cache(c, answers)
      /\ UNCHANGED <<host, used, spent, net, ring, shown>>
  BY DEF Report
<1>2. Kept(c, answers) /\ (asks => c.done)
  BY CacheKept
<1>3. /\ taskLimit' \in TaskLimit /\ unanswered' \in BOOLEAN /\ CacheIsTrue'
      /\ ~unanswered' => ~unanswered /\ (c.done => c.mem = host.mem)
  <2> HIDE DEF c
  <2> QED
    BY <1>1, <1>2, CacheStep
<1>4. /\ m \in [free : Nat, limit : Nat]
      /\ m.limit # 0 =>
           /\ m.limit = Enforced \div Mega
           /\ m.free = (IF Enforced < used THEN 0
                        ELSE Enforced - used) \div Mega
      /\ host.layout # "none" /\ Enforced # host.ram /\ (asks => c.mem = host.mem)
         => m.limit = Enforced \div Mega
  <2> HIDE DEF c
  <2> QED
    BY <1>2, HeadroomOf DEF Kept
<1>5. Enforced' = Enforced
  BY <1>1 DEF Enforced
<1> HIDE DEF c, m, asks
<1>6. /\ report' \in MemoryReport /\ report'.mem = m /\ report'.was = used
  <2>1. used \in Uses
    BY DEF ResourcesTypeOK
  <2> QED
    BY <1>1, <1>4, <2>1 DEF MemoryReport
<1>7. ResourcesTypeOK'
  BY <1>1, <1>3, <1>6 DEF ResourcesTypeOK, TaskLimit
<1>8. ReportIsTrue'
  BY <1>4, <1>5, <1>6 DEF ReportIsTrue
<1>9. LimitIsKnown'
  BY <1>1, <1>2, <1>3, <1>4, <1>5, <1>6 DEF LimitIsKnown
<1>10. CountersAreTrue' /\ HistoryIsHonest'
  BY <1>1 DEF CountersAreTrue, HistoryIsHonest
<1> QED
  BY <1>3, <1>7, <1>8, <1>9, <1>10

(* An answer to the console is about the limit that is enforced. *)
LEMMA UsageStep ==
  ASSUME ResourcesInv,
         NEW answers \in BOOLEAN, usage(answers)
  PROVE  ResourcesInv'
<1> DEFINE asks   == Asks(readCgroupMemLimit)
           quota  == IF Asks(readCgroupCPUMax)
                     THEN ecsTaskLimits(answers, "cpu") ELSE taskLimit
           cached == IF readCgroupMemUsed.ok /\ asks /\ ~quota.done
                     THEN ecsTaskLimits(answers, "mem") ELSE quota
           cores  == taskCPULimitCores(quota)
           limit  == taskMemoryLimitBytes(cached)
           cpus   == IF ~readCgroupCPUUsec.ok THEN 0
                     ELSE IF cores = 0 THEN host.cpus ELSE cores
           total  == IF ~readCgroupMemUsed.ok THEN 0
                     ELSE IF limit \div Mega = 0 THEN machineMemory \div Mega
                     ELSE limit \div Mega
<1> USE DEF ResourcesInv
<1>1. /\ shown' = [cpus |-> cpus, total |-> total, rx |-> RxBytesPerSec]
      /\ Cache(cached, answers)
      /\ UNCHANGED <<host, used, spent, net, ring, report>>
  BY DEF usage
<1>2. Kept(quota, answers)
  BY CacheKept
<1>3. Kept(cached, answers) /\ (host.layout # "none" /\ asks => cached.done)
  <2> HIDE DEF quota
  <2> QED
    BY <1>2, CacheKept, FilesSay
<1>4. /\ taskLimit' \in TaskLimit /\ unanswered' \in BOOLEAN /\ CacheIsTrue'
      /\ ~unanswered' => ~unanswered /\ (cached.done => cached.mem = host.mem)
  <2> HIDE DEF cached
  <2> QED
    BY <1>1, <1>3, CacheStep
<1>5. cpus \in Nat
  <2>1. host.cpus \in Nat /\ host.cgCpu \in Nat
    BY ResourcesAssumption DEF Host, ResourcesTypeOK
  <2>2. cores \in Nat
    <3> HIDE DEF quota
    <3> QED
      BY <1>2, <2>1, FilesSay DEF Kept, TaskLimit, taskCPULimitCores
  <2> HIDE DEF cores
  <2> QED
    BY <2>1, <2>2
<1>6. host.ram \in Nat /\ machineMemory = host.ram
  BY ResourcesAssumption DEF Host, ResourcesTypeOK, machineMemory
<1>7. host.layout # "none" =>
        /\ limit \in Nat /\ (limit # 0 => limit = Enforced /\ limit >= Mega)
        /\ (asks => cached.mem = host.mem) /\ limit = 0 => Enforced = host.ram
  <2> HIDE DEF cached
  <2> QED
    BY <1>3, LimitOf DEF Kept
<1>8. total \in Nat
  <2> HIDE DEF limit, asks
  <2> QED
    BY <1>6, <1>7, WholeMBs, FilesSay
<1>9. RxBytesPerSec \in Int
  <2>1. CASE Len(ring) < 2
    BY <2>1 DEF RxBytesPerSec
  <2>2. CASE ~(Len(ring) < 2)
    <3>1. ring \in Seq(Sample)
      BY DEF ResourcesTypeOK
    <3>2. Len(ring) \in Nat /\ Len(ring) \in DOMAIN ring /\ Len(ring) - 1 \in DOMAIN ring
      BY <2>2, <3>1
    <3>3. \A i \in DOMAIN ring : ring[i].rx \in Nat
      BY <3>1, SampleTypes
    <3> QED
      BY <2>2, <3>2, <3>3 DEF RxBytesPerSec, Last
  <2> QED
    BY <2>1, <2>2
<1>10. Enforced' = Enforced
  BY <1>1 DEF Enforced
<1>11. host.layout # "none" /\ (asks => cached.mem = host.mem)
       => total = Enforced \div Mega
  <2> HIDE DEF limit, asks, cached
  <2> QED
    <3> SUFFICES ASSUME host.layout # "none", asks => cached.mem = host.mem
                 PROVE  total = Enforced \div Mega
      OBVIOUS
    <3>1. CASE limit = 0
      BY <1>6, <1>7, <3>1, WholeMBs, FilesSay
    <3>2. CASE limit # 0
      <4>1. limit \in Nat /\ limit = Enforced /\ limit >= Mega
        BY <1>7, <3>2
      <4>2. limit \div Mega # 0
        BY <4>1, WholeMBs
      <4> QED
        BY <4>1, <4>2, FilesSay
    <3> QED
      BY <3>1, <3>2
<1> HIDE DEF cpus, total, cores, limit, cached, quota, asks
<1>12. /\ shown' \in [cpus : Nat, total : Nat, rx : Int] /\ shown'.total = total
  BY <1>1, <1>5, <1>8, <1>9
<1>13. ResourcesTypeOK'
  BY <1>1, <1>4, <1>12 DEF ResourcesTypeOK, TaskLimit
<1>14. ReportIsTrue'
  BY <1>1, <1>10 DEF ReportIsTrue
<1>15. LimitIsKnown'
  BY <1>1, <1>3, <1>4, <1>10, <1>11, <1>12 DEF LimitIsKnown
<1>16. CountersAreTrue' /\ HistoryIsHonest'
  BY <1>1 DEF CountersAreTrue, HistoryIsHonest
<1> QED
  BY <1>4, <1>13, <1>14, <1>15, <1>16

(* The ring after a sample: the sample at its end, and before it only        *)
(* samples that were there.                                                  *)
LEMMA RingAfter ==
  ASSUME ResourcesTypeOK, NEW cur \in Sample
  PROVE  LET next == Pushed(cur)
         IN  /\ next \in Seq(Sample) /\ Len(next) <= RingSize
             /\ next # <<>> /\ next[Len(next)] = cur
             /\ \A i \in DOMAIN next :
                  next[i] = cur \/ \E j \in DOMAIN ring : next[i] = ring[j]
<1> DEFINE longer == Append(ring, cur)
<1>1. /\ ring \in Seq(Sample) /\ Len(ring) \in Nat /\ Len(ring) <= RingSize
      /\ RingSize \in Nat /\ RingSize > 0
  BY ResourcesAssumption DEF ResourcesTypeOK
<1>2. /\ longer \in Seq(Sample) /\ Len(longer) = Len(ring) + 1
      /\ longer[Len(longer)] = cur
      /\ \A i \in 1..Len(ring) : longer[i] = ring[i]
  BY <1>1
<1>3. \A i \in DOMAIN longer : longer[i] = cur \/ \E j \in DOMAIN ring : longer[i] = ring[j]
  BY <1>1, <1>2
<1>4. CASE Len(longer) > RingSize
  <2> DEFINE t == Tail(longer)
  <2>1. /\ t \in Seq(Sample) /\ Len(t) = Len(longer) - 1
        /\ \A i \in 1..Len(t) : t[i] = longer[i + 1]
    <3> HIDE DEF longer
    <3> QED
      BY <1>1, <1>2
  <2>2. Pushed(cur) = t
    BY <1>4 DEF Pushed
  <2> HIDE DEF t, longer
  <2>3. Len(t) \in Nat /\ Len(t) <= RingSize /\ Len(t) > 0 /\ Len(t) + 1 = Len(longer)
    BY <1>1, <1>2, <1>4, <2>1
  <2>4. t # <<>> /\ t[Len(t)] = cur
    BY <1>2, <2>1, <2>3
  <2>5. \A i \in DOMAIN t : i + 1 \in DOMAIN longer /\ t[i] = longer[i + 1]
    BY <1>2, <2>1, <2>3
  <2> QED
    BY <1>3, <2>1, <2>2, <2>3, <2>4, <2>5
<1>5. CASE ~(Len(longer) > RingSize)
  <2>1. Pushed(cur) = longer
    BY <1>5 DEF Pushed
  <2> HIDE DEF longer
  <2>2. Len(longer) <= RingSize /\ longer # <<>>
    BY <1>1, <1>2, <1>5
  <2> QED
    BY <1>2, <1>3, <2>1, <2>2
<1> QED
  BY <1>4, <1>5

(* A sample shows no more than was spent since the last one, whatever was    *)
(* read.                                                                     *)
LEMMA TickStep ==
  ASSUME ResourcesInv,
         NEW cpuOK \in BOOLEAN, NEW netOK \in BOOLEAN, tick(cpuOK, netOK)
  PROVE  ResourcesInv'
<1> DEFINE last == Last(ring)
           cpu == IF cpuOK THEN readCgroupCPUUsec.v ELSE 0
           rx  == readNetDev(netOK)
           cur == IF ring = <<>>
                  THEN [cpu |-> cpu, rx |-> rx, cores |-> 0, bps |-> 0,
                        did |-> spent, spent |-> spent]
                  ELSE [cpu |-> cpu, rx |-> rx, cores |-> CoresOf(cpu, last.cpu),
                        bps |-> BpsOf(rx, last.rx),
                        did |-> spent - last.spent, spent |-> spent]
<1> USE DEF ResourcesInv
<1>1. /\ ring' = Pushed(cur)
      /\ cpuOK => readCgroupCPUUsec.ok
      /\ UNCHANGED <<host, used, spent, net, taskLimit, report, shown, unanswered>>
  BY DEF tick
<1>2. cpu \in {0, spent} /\ spent \in 0..MaxCpu /\ MaxCpu \in Nat
  BY <1>1, FilesSay, ResourcesAssumption DEF ResourcesTypeOK
<1>3. rx \in Traffic \cup {0} /\ Traffic \subseteq Nat
  BY ResourcesAssumption DEF ResourcesTypeOK, readNetDev
<1>4. ASSUME ring # <<>>
      PROVE  /\ last.cpu \in {0, last.spent} /\ last.spent \in 0..spent
             /\ last.rx \in Nat
  <2>1. ring \in Seq(Sample) /\ Len(ring) \in DOMAIN ring
    BY <1>4 DEF ResourcesTypeOK
  <2>2. last = ring[Len(ring)] /\ last \in Sample
    BY <2>1 DEF Last
  <2>3. last.cpu \in {0, last.spent} /\ last.spent <= spent
    BY <1>4, <2>1, <2>2 DEF CountersAreTrue
  <2>4. last.spent \in Nat /\ last.rx \in Nat
    BY <2>2, SampleTypes
  <2> QED
    BY <1>2, <2>3, <2>4
<1> HIDE DEF cpu, rx, last
<1>5. ASSUME ring # <<>>
      PROVE  /\ CoresOf(cpu, last.cpu) \in {0, spent - last.spent}
             /\ BpsOf(rx, last.rx) \in Nat
             /\ spent - last.spent \in 0..MaxCpu
  <2>1. CoresOf(cpu, last.cpu) \in {0, spent - last.spent}
    BY <1>2, <1>4, <1>5 DEF CoresOf
  <2>2. BpsOf(rx, last.rx) \in Nat
    BY <1>3, <1>4, <1>5 DEF BpsOf
  <2> QED
    BY <1>2, <1>4, <1>5, <2>1, <2>2
<1>6. /\ cur \in Sample /\ cur.cpu \in {0, cur.spent} /\ cur.spent = spent
      /\ cur.cores \in {0, cur.did} /\ cur.bps >= 0
  <2>1. CASE ring = <<>>
    BY <1>2, <1>3, <2>1 DEF Sample
  <2>2. CASE ring # <<>>
    <3>1. /\ cur.cpu = cpu /\ cur.rx = rx /\ cur.spent = spent
          /\ cur.cores = CoresOf(cpu, last.cpu)
          /\ cur.bps = BpsOf(rx, last.rx) /\ cur.did = spent - last.spent
      BY <2>2
    <3>2. CoresOf(cpu, last.cpu) \in Int /\ cpu \in 0..MaxCpu
      BY <1>2, <1>5, <2>2
    <3>3. cur \in Sample
      BY <1>2, <1>3, <1>5, <2>2, <3>2 DEF Sample
    <3> HIDE DEF cur
    <3> QED
      BY <1>2, <1>5, <2>2, <3>1, <3>3
  <2> QED
    BY <2>1, <2>2
<1> HIDE DEF cur
<1>7. /\ ring' \in Seq(Sample) /\ Len(ring') <= RingSize
      /\ ring' # <<>> /\ ring'[Len(ring')] = cur
      /\ \A i \in DOMAIN ring' : ring'[i] = cur \/ \E j \in DOMAIN ring : ring'[i] = ring[j]
  BY <1>1, <1>6, RingAfter
<1>8. ResourcesTypeOK'
  BY <1>1, <1>7 DEF ResourcesTypeOK
<1>9. CountersAreTrue'
  <2>1. \A i \in DOMAIN ring' : ring'[i].cpu \in {0, ring'[i].spent}
    BY <1>6, <1>7 DEF CountersAreTrue
  <2>2. ring'[Len(ring')].spent <= spent'
    BY <1>1, <1>2, <1>6, <1>7
  <2> QED
    BY <2>1, <2>2 DEF CountersAreTrue
<1>10. HistoryIsHonest'
  BY <1>6, <1>7 DEF HistoryIsHonest
<1>11. CacheIsTrue' /\ ReportIsTrue' /\ LimitIsKnown'
  BY <1>1 DEF CacheIsTrue, ReportIsTrue, LimitIsKnown,
              Enforced
<1> QED
  BY <1>8, <1>9, <1>10, <1>11

(* What the sessions do to the machine leaves what was made of it alone. *)
LEMMA LoadStep ==
  ASSUME ResourcesInv,
         \/ \E u \in Uses : Allocate(u)
         \/ Compute
         \/ \E n \in Traffic : Transfer(n)
  PROVE  ResourcesInv'
<1> USE DEF ResourcesInv
<1>1. /\ UNCHANGED <<host, taskLimit, ring, report, shown, unanswered>>
      /\ used' \in Uses /\ net' \in Traffic
  BY DEF Allocate, Compute, Transfer, ResourcesTypeOK
<1>2. spent' \in 0..MaxCpu /\ spent' >= spent
  BY ResourcesAssumption DEF Allocate, Compute, Transfer, ResourcesTypeOK
<1>3. ResourcesTypeOK'
  BY <1>1, <1>2 DEF ResourcesTypeOK
<1>4. CountersAreTrue'
  <2>1. ring # <<>> => ring[Len(ring)].spent \in Int
    <3> SUFFICES ASSUME ring # <<>> PROVE ring[Len(ring)].spent \in Int
      OBVIOUS
    <3>1. ring[Len(ring)] \in Sample
      BY DEF ResourcesTypeOK
    <3> QED
      BY <3>1 DEF Sample
  <2>2. spent \in Int /\ spent' \in Int
    BY <1>2 DEF ResourcesTypeOK
  <2> QED
    BY <1>1, <1>2, <2>1, <2>2 DEF CountersAreTrue
<1>5. HistoryIsHonest' /\ CacheIsTrue'
  BY <1>1 DEF HistoryIsHonest, CacheIsTrue
<1>6. ReportIsTrue' /\ LimitIsKnown'
  BY <1>1 DEF ReportIsTrue, LimitIsKnown, Enforced
<1> QED
  BY <1>3, <1>4, <1>5, <1>6

(* The inductive invariant of the machine (TypeOK, CacheIsTrue, ReportIsTrue, *)
(* LimitIsKnown, CountersAreTrue and HistoryIsHonest) holds in every state,   *)
(* for every machine, ring size and load.                                     *)
THEOREM MachineInvariant == ResourcesSpec => []ResourcesInv
<1>1. ResourcesInit => ResourcesInv
  <2> SUFFICES ASSUME ResourcesInit PROVE ResourcesInv
    OBVIOUS
  <2>1. taskLimit = [done |-> FALSE, mem |-> 0, cpu |-> 0] /\ ring = <<>>
        /\ report = None /\ shown = None /\ unanswered = FALSE
    BY DEF ResourcesInit, NotAsked
  <2>2. ResourcesTypeOK
    <3>1. taskLimit \in [done : BOOLEAN, mem : Nat, cpu : Nat]
      BY <2>1
    <3>2. ring \in Seq(Sample) /\ Len(ring) = 0
      BY <2>1
    <3>3. RingSize \in Nat /\ MaxCpu \in Nat
      BY ResourcesAssumption
    <3>4. spent \in 0..MaxCpu /\ Len(ring) <= RingSize
      BY <3>2, <3>3 DEF ResourcesInit
    <3>5. host \in Hosts /\ used \in Uses /\ net \in Traffic
      BY DEF ResourcesInit
    <3> QED
      BY <2>1, <3>1, <3>2, <3>4, <3>5 DEF ResourcesTypeOK
  <2>3. CacheIsTrue
    BY <2>1 DEF CacheIsTrue
  <2> QED
    BY <2>1, <2>2, <2>3 DEF ResourcesInv, ReportIsTrue,
       LimitIsKnown, CountersAreTrue, HistoryIsHonest
<1>2. ResourcesInv /\ [ResourcesNext]_resourcesVars => ResourcesInv'
  <2> SUFFICES ASSUME ResourcesInv, [ResourcesNext]_resourcesVars
               PROVE  ResourcesInv'
    OBVIOUS
  <2>1. ASSUME NEW cpuOK \in BOOLEAN, NEW netOK \in BOOLEAN, tick(cpuOK, netOK)
        PROVE  ResourcesInv'
    BY <2>1, TickStep
  <2>2. ASSUME NEW answers \in BOOLEAN, Report(answers) PROVE ResourcesInv'
    BY <2>2, ReportStep
  <2>3. ASSUME NEW answers \in BOOLEAN, usage(answers) PROVE ResourcesInv'
    BY <2>3, UsageStep
  <2>4. CASE \/ \E u \in Uses : Allocate(u)
             \/ Compute
             \/ \E n \in Traffic : Transfer(n)
    BY <2>4, LoadStep
  <2>5. CASE UNCHANGED resourcesVars
    BY <2>5 DEF resourcesVars, ResourcesInv, ResourcesTypeOK, CacheIsTrue,
       ReportIsTrue, LimitIsKnown, CountersAreTrue,
       HistoryIsHonest, Enforced
  <2> QED
    BY <2>1, <2>2, <2>3, <2>4, <2>5 DEF ResourcesNext
<1> QED
  BY <1>1, <1>2, PTL DEF ResourcesSpec

(* What a policy requires is what a session costs, at least. *)
LEMMA RequiredIsPositive ==
  ASSUME NEW p \in AdmissionPolicy, NEW n \in Nat
  PROVE  Required(p, n) \in Int /\ Required(p, n) >= 1
<1>1. MinFreeFloorMB \in Nat /\ MinFreeFloorMB >= 1
  BY AdmissionAssumption
<1>2. PICK k \in Nat : k = n * p.pct
  <2>1. p.pct \in Nat
    BY DEF AdmissionPolicy
  <2> QED
    BY <2>1
<1>3. k \div 100 \in Int
  BY <1>2
<1>4. Required(p, n) =
        IF k \div 100 < MinFreeFloorMB THEN MinFreeFloorMB ELSE k \div 100
  BY <1>2 DEF Required
<1> QED
  BY <1>1, <1>3, <1>4

(* A report that lets a session in under a memory policy was made with that  *)
(* much of the limit that is really enforced left (memoryHeadroomMB, admits). *)
THEOREM RoomTheorem == ResourcesSpec => []RoomIsReal
<1>1. ResourcesInv => RoomIsReal
  <2> SUFFICES ASSUME ResourcesInv, report # None, report.mem.limit # 0,
                      NEW p \in Policies, p.kind = "min_free_memory_pct",
                      admits(p, report)
               PROVE  (Enforced - report.was) \div Mega
                        >= Required(p, Enforced \div Mega)
    BY DEF RoomIsReal
  <2> DEFINE e == Enforced
             w == report.was
  <2>1. e \in Nat /\ w \in Nat /\ p \in AdmissionPolicy
    <3>1. host \in Hosts /\ report \in MemoryReport
      BY DEF ResourcesInv, ResourcesTypeOK
    <3> QED
      BY <3>1, EnforcedIs, ResourcesAssumption DEF MemoryReport
  <2>2. /\ report.mem.limit = e \div Mega
        /\ report.mem.free = (IF e < w THEN 0 ELSE e - w) \div Mega
    BY DEF ResourcesInv, ReportIsTrue
  <2>3. report.mem.free >= Required(p, report.mem.limit)
    <3>1. fresh(report)
      <4>1. report \in MemoryReport
        BY DEF ResourcesInv, ResourcesTypeOK
      <4>2. report.age = 0
        BY <4>1 DEF MemoryReport
      <4> QED
        BY <4>2, AdmissionAssumption DEF fresh
    <3> QED
      BY <3>1 DEF admits, byMemory
  <2>4. Required(p, e \div Mega) \in Int /\ Required(p, e \div Mega) >= 1
    <3>1. e \div Mega \in Nat
      BY <2>1, WholeMBs
    <3> HIDE DEF e
    <3> QED
      BY <2>1, <3>1, RequiredIsPositive
  <2> HIDE DEF e, w
  <2>5. ~(e < w)
    <3> SUFFICES ASSUME e < w PROVE FALSE
      OBVIOUS
    <3>1. report.mem.free = 0
      BY <2>2, WholeMBs
    <3>2. 0 >= Required(p, e \div Mega)
      BY <2>2, <2>3, <3>1
    <3> QED
      BY <2>4, <3>2
  <2> QED
    BY <2>2, <2>3, <2>5 DEF e, w
<1> QED
  BY <1>1, MachineInvariant, PTL

(* Once the platform has answered, no report is unknown and no answer to the *)
(* console is about the host (ecsTaskLimits, usage).                         *)
THEOREM LimitTheorem == ResourcesSpec => []LimitIsKnown
<1>1. ResourcesInv => LimitIsKnown
  BY DEF ResourcesInv
<1> QED
  BY <1>1, MachineInvariant, PTL

(* The history shows no CPU time that was not spent between its samples, and *)
(* no negative rate, whatever reads failed (tick).                           *)
THEOREM HistoryTheorem == ResourcesSpec => []HistoryIsHonest
<1>1. ResourcesInv => HistoryIsHonest
  BY DEF ResourcesInv
<1> QED
  BY <1>1, MachineInvariant, PTL
=============================================================================

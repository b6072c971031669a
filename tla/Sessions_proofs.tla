-------------------------- MODULE Sessions_proofs --------------------------
(***************************************************************************)
(* Proofs about Sessions, for any number of sessions and handlers, any     *)
(* timeouts, policies and reports, and however long a report stays fresh   *)
(* and reports, sweeps and commands take: the sweep spares what is in use  *)
(* or opted out, and a delete that is not forced ends nothing its listing  *)
(* could have shown.                                                       *)
(***************************************************************************)
EXTENDS Sessions, FiniteSetTheorems, TLAPS

-----------------------------------------------------------------------------
(* The inductive invariant. *)

(* Only use is counted. *)
UseCounted == \A s \in Sessions : ~Used(proc[s]) => inUse[s] = 0

(* An activity that lets a session count as idle under some timeout. *)
Quiet(a) == ~a.att /\ a.tool > 0

(* A session that a report shows quiet has been in use no longer than since  *)
(* it was measured: while it is on its way, and while it is filed and some   *)
(* sweep may still act on it.                                                *)
SentHolds ==
  sent # None =>
    /\ sent.age = 0
    /\ \A s \in DOMAIN sent.act : Quiet(sent.act[s]) => inUse[s] <= sent.slack
Usable(rep) == rep.age <= FreshFor + MaxSlack - rep.slack
ReportHolds ==
  report # None =>
    \A s \in DOMAIN report.act :
      Quiet(report.act[s]) /\ Usable(report) => inUse[s] <= report.age + report.slack

(* One that a sweep has found, or may yet find, idle has been in use no      *)
(* longer than the report was fresh and the sweep has slack; and so for the  *)
(* commands it has sent.                                                     *)
SweepHolds ==
  /\ sweep.pc # "act" => sweep.todo = {}
  /\ sweep.pc = "read" =>
       /\ sweep.act \in Activities
       /\ \A s \in DOMAIN sweep.act :
            Quiet(sweep.act[s]) => inUse[s] <= FreshFor + sweep.slack
  /\ \A s \in sweep.todo : inUse[s] <= FreshFor + sweep.slack
StopsHold == \A m \in stops : inUse[m.s] <= FreshFor + m.slack /\ ~m.out

(* A session that was opted out when the sweep began and not patched since   *)
(* is opted out, or its record has gone; the sweep that has read the rows    *)
(* has none of them left.                                                    *)
OptedOut ==
  /\ sweep.pc # "read" => sweep.out = {}
  /\ \A s \in sweep.out :
       row[s] # Unborn /\ (Recorded(s) => idleTimeout(row[s]) = 0)

(* A handler has a session: one that is not born yet and its alone before    *)
(* the insert, and one that was born afterwards.                             *)
Born ==
  \A r \in Requests :
    /\ req[r].pc # "idle" => req[r].s \in Sessions
    /\ req[r].pc = "insert" =>
         /\ row[req[r].s] = Unborn
         /\ \A q \in Requests : req[q].pc = "insert" /\ req[q].s = req[r].s => q = r
    /\ req[r].pc \in {"start", "list", "kill", "drop"} => row[req[r].s] # Unborn

(* A delete that is not forced goes for a dead session, unless it is excused.*)
KillsDead ==
  \A r \in Requests :
    /\ req[r].pc = "list" => ~req[r].force
    /\ req[r].pc = "kill" /\ ~req[r].force /\ ~req[r].excused => ~Live(req[r].s)

SessionsInv ==
  /\ TypeOK /\ UseCounted /\ SentHolds /\ ReportHolds /\ SweepHolds /\ StopsHold
  /\ OptedOut /\ Born /\ KillsDead

-----------------------------------------------------------------------------
(* Types of what the actions are made of. *)

(* An activity map is one over some sessions. *)
LEMMA ActivitiesType ==
  /\ \A D \in SUBSET Sessions : \A f \in [D -> SessionActivity] : f \in Activities
  /\ \A f \in Activities :
       DOMAIN f \subseteq Sessions /\ \A s \in DOMAIN f : f[s] \in SessionActivity
  BY DEF Activities

LEMMA IdleTypes ==
  Idle \in Request /\ NotSweeping \in Sweeper /\ NoProcess \in SessionProcess
  BY SessionsAssumption DEF Idle, Request, NotSweeping, Sweeper, NoProcess, SessionProcess

(* A handler that begins, and one that goes on. *)
Begun(s, force, pc) == [Idle EXCEPT !.s = s, !.force = force, !.pc = pc]
Going(s, pc) == [Idle EXCEPT !.s = s, !.pc = pc]

LEMMA BegunFields ==
  ASSUME NEW s \in Sessions \cup {None}, NEW force \in BOOLEAN,
         NEW pc \in {"idle", "insert", "start", "list", "kill", "drop"}
  PROVE  /\ Begun(s, force, pc) \in Request /\ Begun(s, force, pc).s = s
         /\ Begun(s, force, pc).force = force /\ Begun(s, force, pc).pc = pc
         /\ Going(s, pc) \in Request /\ Going(s, pc).s = s /\ Going(s, pc).pc = pc
<1> DEFINE a == [Idle EXCEPT !.s = s]
           b == [a EXCEPT !.force = force]
<1>1. a \in Request /\ a.s = s
  BY IdleTypes DEF Request
<1>2. Begun(s, force, pc) = [b EXCEPT !.pc = pc] /\ Going(s, pc) = [a EXCEPT !.pc = pc]
  BY DEF Begun, Going
<1> HIDE DEF a
<1>3. b \in Request /\ b.s = s /\ b.force = force
  BY <1>1 DEF Request
<1> HIDE DEF b
<1> QED
  BY <1>1, <1>2, <1>3 DEF Request

(* A process that changes in one respect. *)
LEMMA ProcessFields ==
  ASSUME NEW p \in SessionProcess, NEW b \in BOOLEAN,
         NEW st \in {"none", "running", "stopping"}
  PROVE  /\ [p EXCEPT !.tool = b] \in SessionProcess
         /\ [p EXCEPT !.att = b] \in SessionProcess
         /\ [p EXCEPT !.st = st] \in SessionProcess
         /\ [p EXCEPT !.att = b, !.st = st] \in SessionProcess
         /\ [p EXCEPT !.tool = b].st = p.st
         /\ [p EXCEPT !.att = b].st = p.st
         /\ [p EXCEPT !.st = st].st = st
         /\ [p EXCEPT !.att = b, !.st = st].st = st
<1> DEFINE a == [p EXCEPT !.att = b]
<1>1. a \in SessionProcess /\ a.st = p.st
  BY DEF SessionProcess
<1>2. [p EXCEPT !.att = b, !.st = st] = [a EXCEPT !.st = st]
  OBVIOUS
<1> HIDE DEF a
<1>3. [a EXCEPT !.st = st] \in SessionProcess /\ [a EXCEPT !.st = st].st = st
  BY <1>1 DEF SessionProcess
<1>4. /\ [p EXCEPT !.tool = b] \in SessionProcess /\ [p EXCEPT !.tool = b].st = p.st
      /\ [p EXCEPT !.st = st] \in SessionProcess /\ [p EXCEPT !.st = st].st = st
  BY DEF SessionProcess
<1> QED
  BY <1>1, <1>2, <1>3, <1>4 DEF a

(* What a patch stores is what the column holds. *)
LEMMA Int32Type ==
  ASSUME NEW v \in Nat, Int32(v) >= 0
  PROVE  Int32(v) \in 0..(Width \div 2 - 1)
<1> DEFINE h == Width \div 2
           m == (v + h) % Width
<1>1. h \in Nat /\ 2 * h = Width
  BY SessionsAssumption
<1>2. m \in 0..(Width - 1)
  BY <1>1, SessionsAssumption
<1>3. Int32(v) = m - h
  BY DEF Int32
<1> QED
  BY <1>1, <1>2, <1>3

(* Ages count up to their bound. *)
LEMMA OlderType ==
  ASSUME NEW cap \in Nat, NEW age \in 0..cap
  PROVE  Older(age, cap) \in 0..cap /\ Older(age, cap) <= age + 1
  BY DEF Older

-----------------------------------------------------------------------------
(* Which steps touch what. *)

LEMMA WhoWrites ==
  ASSUME [Next]_vars
  PROVE  /\ \/ UNCHANGED row \/ DeleteWorkspace
            \/ \E r \in Requests : Insert(r) \/ Drop(r)
            \/ \E s \in Sessions : \E v \in PatchValues \cup {Inherit} : Patch(s, v)
         /\ UNCHANGED sent \/ sent' = None \/ Tick \/ Measures
         /\ UNCHANGED report \/ report' = None \/ Tick \/ File
         /\ \/ UNCHANGED sweep \/ TaskGone \/ TunnelLost \/ Tick \/ Sweeps
            \/ \E s \in Sessions : \E v \in PatchValues \cup {Inherit} : Patch(s, v)
         /\ stops' \subseteq stops \/ Tick \/ \E s \in Sessions : SweepStops(s)
         /\ \/ UNCHANGED req \/ TaskGone \/ TunnelLost
            \/ \E r \in Requests : Handler(r) \/ \E s \in Sessions : Asked(r, s)
            \/ \E s \in Sessions : Attaches(s)
         /\ \/ UNCHANGED <<proc, ages>> \/ TaskGone \/ Tick \/ Measures
            \/ \E s \in Sessions : Process(s) \/ StopsArrive(s)
            \/ \E r \in Requests : Start(r) \/ Kill(r)
<1>1. CASE UNCHANGED vars
  BY <1>1 DEF vars, records, filed, reaper
<1>2. CASE TaskGone \/ TunnelLost \/ Redials \/ Tick \/ DeleteWorkspace \/ File
  BY <1>2
  DEF TaskGone, TunnelLost, Severed, Redials, Tick, DeleteWorkspace, File, records, filed,
      reaper
<1>3. ASSUME NEW mem \in Memory, Measure(mem)
      PROVE  UNCHANGED <<row, report, sweep, stops, req>>
  BY <1>3 DEF Measure, records, reaper
<1>4. CASE SweepBegins \/ SweepReads \/ SweepBlind \/ SweepForgets \/ SweepNotes
  BY <1>4
  DEF Sweeps, SweepBegins, SweepReads, SweepBlind, SweepForgets, SweepNotes, records, filed
<1>5. ASSUME NEW s \in Sessions, SweepStops(s) \/ SweepMisses(s)
      PROVE  /\ UNCHANGED <<row, sent, report, req, proc, ages>>
             /\ SweepStops(s) \/ stops' = stops
  BY <1>5 DEF SweepStops, SweepMisses, records, filed
<1>6. ASSUME NEW r \in Requests, Handler(r)
      PROVE  /\ UNCHANGED row \/ Insert(r) \/ Drop(r)
             /\ UNCHANGED <<sent, report, sweep, stops>>
             /\ UNCHANGED <<proc, ages>> \/ Start(r) \/ Kill(r)
  BY <1>6
  DEF Handler, Insert, Start, Fails, List, ListFails, Kill, Drop, records, filed, reaper
<1>7. ASSUME NEW r \in Requests, NEW s \in Sessions, Asked(r, s)
      PROVE  UNCHANGED <<row, sent, report, sweep, stops, proc, ages>>
  BY <1>7 DEF Asked, Create, Resume, Delete, records, filed, reaper
<1>8. ASSUME NEW s \in Sessions, Process(s)
      PROVE  /\ UNCHANGED <<row, sent, report, sweep, stops>>
             /\ UNCHANGED req \/ Attaches(s)
  BY <1>8
  DEF Process, Writes, Attaches, ToolStarts, ToolEnds, Detaches, Exits, Stop, records,
      filed, reaper
<1>9. ASSUME NEW s \in Sessions, NEW v \in PatchValues \cup {Inherit}, Patch(s, v)
      PROVE  UNCHANGED <<sent, report, stops, req, proc, ages>>
  BY <1>9 DEF Patch, filed
<1>10. ASSUME NEW s \in Sessions, StopsArrive(s)
       PROVE  UNCHANGED <<row, sent, report, sweep, req>> /\ stops' \subseteq stops
  BY <1>10 DEF StopsArrive, StopArrives, records, filed
<1> QED
  BY <1>1, <1>2, <1>3, <1>4, <1>5, <1>6, <1>7, <1>8, <1>9, <1>10
  DEF Next, Measures, Sweeps
-----------------------------------------------------------------------------
(* Processes and what counts their use. *)

(* Without a tick nothing has been in use for longer. *)
Milder == \A s \in Sessions : inUse'[s] <= inUse[s]

ProcTypes ==
  /\ proc \in [Sessions -> SessionProcess]
  /\ output \in [Sessions -> 0..Longest] /\ lastTool \in [Sessions -> 0..Longest]
  /\ inUse \in [Sessions -> 0..(FreshFor + MaxSlack + 1)]

LEMMA SetProcStep ==
  ASSUME TypeOK, UseCounted, NEW s \in Sessions, NEW p \in SessionProcess, SetProc(s, p)
  PROVE  ProcTypes' /\ UseCounted' /\ Milder
<1>1. /\ proc' = [proc EXCEPT ![s] = p] /\ proc \in [Sessions -> SessionProcess]
      /\ inUse' = [inUse EXCEPT ![s] = IF Used(p) THEN @ ELSE 0]
      /\ inUse \in [Sessions -> 0..(FreshFor + MaxSlack + 1)]
      /\ output \in [Sessions -> 0..Longest] /\ lastTool \in [Sessions -> 0..Longest]
  BY DEF SetProc, TypeOK
<1>2. inUse' \in [Sessions -> 0..(FreshFor + MaxSlack + 1)] /\ Milder
  BY <1>1, SessionsAssumption, AdmissionAssumption DEF Milder
<1>3. output' \in [Sessions -> 0..Longest] /\ lastTool' \in [Sessions -> 0..Longest]
  BY <1>1, SessionsAssumption DEF SetProc
<1>4. UseCounted'
  BY <1>1 DEF UseCounted
<1> QED
  BY <1>1, <1>2, <1>3, <1>4 DEF ProcTypes

(* The steps that move a process, and to what. *)
LEMMA ProcessMoves ==
  ASSUME TypeOK, Born,
         \/ \E s \in Sessions : Process(s) \/ StopsArrive(s)
         \/ \E r \in Requests : Start(r) \/ Kill(r)
  PROVE  \/ \E s \in Sessions : Writes(s)
         \/ \E s \in Sessions : \E p \in SessionProcess : SetProc(s, p)
<1> DEFINE Moves == \E s \in Sessions : \E p \in SessionProcess : SetProc(s, p)
<1>1. \A s \in Sessions : proc[s] \in SessionProcess
  BY DEF TypeOK
<1>2. \A s \in Sessions, force \in BOOLEAN : Stopped(s, force) \in SessionProcess
  BY <1>1, IdleTypes, ProcessFields DEF Stopped
<1>3. ASSUME NEW s \in Sessions, ToolStarts(s) \/ ToolEnds(s) \/ Detaches(s) \/ Exits(s)
      PROVE  Moves
  BY <1>1, <1>3, IdleTypes, ProcessFields DEF ToolStarts, ToolEnds, Detaches, Exits
<1>4. ASSUME NEW s \in Sessions, Attaches(s) PROVE Moves
  <2> DEFINE st == IF Live(s) THEN proc[s].st ELSE "running"
             p == [proc[s] EXCEPT !.att = TRUE, !.st = st]
  <2>1. st \in {"none", "running", "stopping"}
    BY <1>1 DEF SessionProcess
  <2>2. SetProc(s, p)
    BY <1>4 DEF Attaches
  <2> HIDE DEF st
  <2>3. p \in SessionProcess
    BY <1>1, <2>1, ProcessFields
  <2> QED
    BY <2>2, <2>3
<1>5. ASSUME NEW s \in Sessions,
             StopsArrive(s) \/ \E force \in BOOLEAN : Stop(s, force)
      PROVE  Moves
  BY <1>2, <1>5 DEF StopsArrive, StopArrives, Stop
<1>6. ASSUME NEW r \in Requests, Kill(r) PROVE Moves
  BY <1>6, IdleTypes DEF Kill, Born
<1>7. ASSUME NEW r \in Requests, Start(r) PROVE Moves
  <2>1. req[r].s \in Sessions
    BY <1>7 DEF Start, Born
  <2>2. [NoProcess EXCEPT !.st = "running"] \in SessionProcess
    BY IdleTypes, ProcessFields
  <2> QED
    BY <1>1, <1>7, <2>1, <2>2 DEF Start
<1> QED
  BY <1>3, <1>4, <1>5, <1>6, <1>7 DEF Process

LEMMA TickUse ==
  ASSUME TypeOK, UseCounted, Tick
  PROVE  /\ ProcTypes' /\ UseCounted'
         /\ \A s \in Sessions : inUse'[s] <= inUse[s] + 1
<1> DEFINE C == FreshFor + MaxSlack + 1
<1>1. C \in Nat /\ Longest \in Nat
  BY SessionsAssumption, AdmissionAssumption
<1>2. /\ proc' = proc /\ proc \in [Sessions -> SessionProcess]
      /\ output \in [Sessions -> 0..Longest] /\ lastTool \in [Sessions -> 0..Longest]
      /\ inUse \in [Sessions -> 0..C]
      /\ inUse' = [s \in Sessions |-> IF Used(proc[s]) THEN Older(inUse[s], C) ELSE 0]
  BY DEF Tick, TypeOK
<1>3. output' \in [Sessions -> 0..Longest] /\ lastTool' \in [Sessions -> 0..Longest]
  <2>1. \A n \in 0..Longest : Older(n, Longest) \in 0..Longest
    BY <1>1, OlderType
  <2> QED
    BY <1>2, <2>1 DEF Tick
<1> HIDE DEF C
<1>4. \A n \in 0..C : Older(n, C) \in 0..C /\ Older(n, C) <= n + 1
  BY <1>1, OlderType
<1>5. inUse' \in [Sessions -> 0..C] /\ \A s \in Sessions : inUse'[s] <= inUse[s] + 1
  BY <1>1, <1>2, <1>4
<1>6. UseCounted'
  BY <1>2 DEF UseCounted
<1> QED
  BY <1>2, <1>3, <1>5, <1>6 DEF ProcTypes, C

LEMMA ProcStep ==
  ASSUME TypeOK, UseCounted, Born, [Next]_vars
  PROVE  ProcTypes' /\ UseCounted' /\ (Tick \/ Milder)
<1>0. /\ proc \in [Sessions -> SessionProcess]
      /\ output \in [Sessions -> 0..Longest] /\ lastTool \in [Sessions -> 0..Longest]
      /\ inUse \in [Sessions -> 0..(FreshFor + MaxSlack + 1)]
  BY DEF TypeOK
<1>1. CASE UNCHANGED <<proc, inUse>> /\ UNCHANGED output /\ UNCHANGED lastTool
  BY <1>0, <1>1, SessionsAssumption, AdmissionAssumption DEF ProcTypes, UseCounted, Milder
<1>2. CASE TaskGone
  <2>1. ProcTypes'
    BY <1>2, IdleTypes, SessionsAssumption, AdmissionAssumption DEF TaskGone, ProcTypes
  <2>2. UseCounted' /\ Milder
    BY <1>0, <1>2, SessionsAssumption, AdmissionAssumption DEF TaskGone, UseCounted, Milder
  <2> QED
    BY <2>1, <2>2
<1>3. CASE Tick
  BY <1>3, TickUse
<1>4. ASSUME NEW mem \in Memory, Measure(mem)
      PROVE  ProcTypes' /\ UseCounted' /\ Milder
  <2>1. lastTool' \in [Sessions -> 0..Longest]
    BY <1>0, <1>4, SessionsAssumption DEF Measure, observe
  <2>2. UNCHANGED <<proc, output, inUse>>
    BY <1>4 DEF Measure
  <2> QED
    BY <1>0, <2>1, <2>2, SessionsAssumption, AdmissionAssumption
    DEF ProcTypes, UseCounted, Milder
<1>5. ASSUME NEW s \in Sessions, Writes(s)
      PROVE  ProcTypes' /\ UseCounted' /\ Milder
  <2>1. output' \in [Sessions -> 0..Longest]
    BY <1>0, <1>5, SessionsAssumption DEF Writes
  <2>2. UNCHANGED <<proc, lastTool, inUse>>
    BY <1>5 DEF Writes
  <2> QED
    BY <1>0, <2>1, <2>2, SessionsAssumption, AdmissionAssumption
    DEF ProcTypes, UseCounted, Milder
<1>6. ASSUME NEW s \in Sessions, NEW p \in SessionProcess, SetProc(s, p)
      PROVE  ProcTypes' /\ UseCounted' /\ Milder
  BY <1>6, SetProcStep
<1> QED
  BY <1>1, <1>2, <1>3, <1>4, <1>5, <1>6, WhoWrites, ProcessMoves DEF Measures, ages

-----------------------------------------------------------------------------
(* The reports. *)

(* A report says of a session that it is quiet only when nobody uses it. *)
LEMMA MeasureStep ==
  ASSUME TypeOK, UseCounted, NEW mem \in Memory, Measure(mem)
  PROVE  sent' \in Headroom /\ SentHolds'
<1> DEFINE D == {s \in Sessions : Live(s)}
           rep == [age |-> 0, slack |-> 0, sessions |-> Count, mem |-> mem,
                   act |-> sessionActivity]
<1>1. sent' = rep /\ UNCHANGED inUse
  BY DEF Measure
<1>2. Count \in 0..Cardinality(Sessions)
  <2>1. IsFiniteSet(D) /\ Cardinality(D) <= Cardinality(Sessions)
    BY SessionsAssumption, FS_Subset
  <2>2. Cardinality(D) \in Nat /\ Cardinality(Sessions) \in Nat
    BY <2>1, SessionsAssumption, FS_CardinalityType
  <2> QED
    BY <2>1, <2>2 DEF Count
<1>3. \A s \in D : /\ proc[s].att \in BOOLEAN /\ output[s] \in 0..Longest
                   /\ observe(s, hasRunningTool(s)) \in 0..Longest
  BY SessionsAssumption DEF TypeOK, SessionProcess, observe
<1>4. sessionActivity \in [D -> SessionActivity]
  BY <1>3 DEF sessionActivity, SessionActivity
<1>5. sessionActivity \in Activities
  BY <1>4, ActivitiesType
<1>6. 0 \in 0..(FreshFor + MaxSlack + 1) /\ 0 \in 0..MaxSlack
  BY AdmissionAssumption, SessionsAssumption
<1>7. rep \in Headroom
  BY <1>2, <1>5, <1>6 DEF Headroom
<1>8. ASSUME NEW s \in D, Quiet(sessionActivity[s]) PROVE inUse[s] = 0
  <2>1. sessionActivity[s] = [att |-> proc[s].att, output |-> output[s],
                              tool |-> observe(s, hasRunningTool(s))]
    BY DEF sessionActivity
  <2>2. ~proc[s].att /\ observe(s, hasRunningTool(s)) > 0
    BY <1>8, <2>1 DEF Quiet
  <2>3. ~hasRunningTool(s)
    BY <2>2 DEF observe
  <2>4. ~Used(proc[s])
    BY <2>2, <2>3 DEF hasRunningTool, Used
  <2> QED
    BY <2>4 DEF UseCounted
<1>9. DOMAIN sessionActivity = D
  BY <1>4
<1> QED
  BY <1>1, <1>7, <1>8, <1>9 DEF SentHolds

(* What a report is made of. *)
LEMMA ReportFields ==
  ASSUME NEW rep \in Headroom
  PROVE  /\ rep.age \in Nat /\ rep.age <= FreshFor + MaxSlack + 1
         /\ rep.slack \in Nat /\ rep.slack <= MaxSlack
         /\ rep.act \in Activities /\ \A s \in DOMAIN rep.act : s \in Sessions
<1>1. /\ rep.age \in 0..(FreshFor + MaxSlack + 1) /\ rep.slack \in 0..MaxSlack
      /\ rep.act \in Activities
  BY DEF Headroom
<1> QED
  BY <1>1, ActivitiesType, AdmissionAssumption, SessionsAssumption

(* A report ages with the sessions, ... *)
LEMMA ReportAges ==
  ASSUME TypeOK, UseCounted, ReportHolds, Tick
  PROVE  report' \in Headroom \cup {None} /\ ReportHolds'
<1>1. CASE report = None
  BY <1>1 DEF Tick, ReportHolds
<1>2. CASE report # None
  <2> DEFINE cap == FreshFor + MaxSlack - report.slack + 1
             n == Older(report.age, cap)
  <2>1. /\ report \in Headroom /\ report' = [report EXCEPT !.age = n]
        /\ inUse \in [Sessions -> Nat] /\ inUse' \in [Sessions -> Nat]
        /\ \A s \in Sessions : inUse'[s] <= inUse[s] + 1
    BY <1>2, TickUse, AdmissionAssumption, SessionsAssumption DEF Tick, TypeOK, ProcTypes
  <2>2. /\ report.age \in Nat /\ report.age <= FreshFor + MaxSlack + 1
        /\ report.slack \in Nat /\ report.slack <= MaxSlack
        /\ FreshFor \in Nat /\ MaxSlack \in Nat
    BY <2>1, ReportFields, AdmissionAssumption, SessionsAssumption
  <2>3. /\ n \in 0..(FreshFor + MaxSlack + 1)
        /\ n <= FreshFor + MaxSlack - report.slack =>
             n = report.age + 1 /\ report.age <= FreshFor + MaxSlack - report.slack
    BY <2>2 DEF Older
  <2> HIDE DEF n
  <2>4. /\ report' \in Headroom /\ report'.age = n /\ report'.act = report.act
        /\ report'.slack = report.slack
    BY <2>1, <2>3 DEF Headroom
  <2>5. ASSUME NEW s \in DOMAIN report.act, Quiet(report.act[s]),
               n <= FreshFor + MaxSlack - report.slack
        PROVE  inUse'[s] <= n + report.slack
    <3>1. inUse[s] <= report.age + report.slack
      BY <1>2, <2>3, <2>5 DEF ReportHolds, Usable
    <3>2. s \in Sessions
      BY <2>1, ReportFields
    <3>3. inUse[s] \in Nat /\ inUse'[s] \in Nat /\ inUse'[s] <= inUse[s] + 1
      BY <2>1, <3>2
    <3> QED
      BY <2>2, <2>3, <2>5, <3>1, <3>3
  <2> QED
    BY <2>4, <2>5 DEF ReportHolds, Usable
<1> QED
  BY <1>1, <1>2

(* ... filed or on its way. *)
LEMMA SentAges ==
  ASSUME TypeOK, UseCounted, SentHolds, Tick
  PROVE  sent' \in Headroom \cup {None} /\ SentHolds'
<1>1. CASE sent = None
  BY <1>1 DEF Tick, SentHolds
<1>2. CASE sent # None
  <2> DEFINE n == sent.slack + 1
  <2>1. /\ sent \in Headroom /\ sent' = [sent EXCEPT !.slack = n] /\ sent.slack < MaxSlack
        /\ inUse \in [Sessions -> Nat] /\ inUse' \in [Sessions -> Nat]
        /\ \A s \in Sessions : inUse'[s] <= inUse[s] + 1
    BY <1>2, TickUse, AdmissionAssumption, SessionsAssumption DEF Tick, TypeOK, ProcTypes
  <2>2. sent.slack \in Nat /\ MaxSlack \in Nat
    BY <2>1, ReportFields, SessionsAssumption
  <2>3. n \in 0..MaxSlack
    BY <2>1, <2>2
  <2> HIDE DEF n
  <2>4. /\ sent' \in Headroom /\ sent'.age = sent.age /\ sent'.act = sent.act
        /\ sent'.slack = n
    BY <2>1, <2>3 DEF Headroom
  <2>5. ASSUME NEW s \in DOMAIN sent.act, Quiet(sent.act[s]) PROVE inUse'[s] <= n
    <3>1. inUse[s] <= sent.slack /\ s \in Sessions
      BY <1>2, <2>1, <2>5, ReportFields DEF SentHolds
    <3> QED
      BY <2>1, <2>2, <3>1 DEF n
  <2> QED
    BY <1>2, <2>4, <2>5 DEF SentHolds
<1> QED
  BY <1>1, <1>2

LEMMA ReportsStep ==
  ASSUME TypeOK, UseCounted, SentHolds, ReportHolds, Born, [Next]_vars
  PROVE  /\ sent' \in Headroom \cup {None} /\ SentHolds'
         /\ report' \in Headroom \cup {None} /\ ReportHolds'
<1>1. CASE Tick
  BY <1>1, ReportAges, SentAges
<1>2. CASE ~Tick
  <2>0. sent \in Headroom \cup {None} /\ report \in Headroom \cup {None}
    BY DEF TypeOK
  <2>1. /\ \A s \in Sessions : inUse'[s] <= inUse[s]
        /\ inUse \in [Sessions -> Nat] /\ inUse' \in [Sessions -> Nat]
    BY <1>2, ProcStep, AdmissionAssumption, SessionsAssumption
    DEF Milder, TypeOK, ProcTypes
  <2>2. ASSUME UNCHANGED sent
        PROVE  sent' \in Headroom \cup {None} /\ SentHolds'
    <3>1. ASSUME sent # None, NEW s \in DOMAIN sent.act, Quiet(sent.act[s])
          PROVE  inUse'[s] <= sent.slack
      <4>1. inUse[s] <= sent.slack /\ s \in Sessions /\ sent.slack \in Nat
        BY <2>0, <3>1, ReportFields DEF SentHolds
      <4> QED
        BY <2>1, <4>1
    <3> QED
      BY <2>0, <2>2, <3>1 DEF SentHolds
  <2>3. sent' \in Headroom \cup {None} /\ SentHolds'
    <3>1. CASE sent' = None
      BY <3>1 DEF SentHolds
    <3> QED
      BY <1>2, <2>2, <3>1, WhoWrites, MeasureStep DEF Measures
  <2>4. ASSUME UNCHANGED report
        PROVE  report' \in Headroom \cup {None} /\ ReportHolds'
    <3>1. ASSUME report # None, NEW s \in DOMAIN report.act, Quiet(report.act[s]),
                 Usable(report)
          PROVE  inUse'[s] <= report.age + report.slack
      <4>1. /\ inUse[s] <= report.age + report.slack /\ s \in Sessions
            /\ report.age \in Nat /\ report.slack \in Nat
        BY <2>0, <3>1, ReportFields DEF ReportHolds
      <4> QED
        BY <2>1, <4>1
    <3> QED
      BY <2>0, <2>4, <3>1 DEF ReportHolds
  <2>5. ASSUME File
        PROVE  report' \in Headroom \cup {None} /\ ReportHolds'
    <3>1. report' = sent /\ sent # None /\ sent \in Headroom /\ UNCHANGED inUse
      BY <2>0, <2>5 DEF File, ages
    <3>2. ASSUME NEW s \in DOMAIN sent.act, Quiet(sent.act[s])
          PROVE  inUse[s] <= sent.age + sent.slack
      BY <3>1, <3>2, ReportFields DEF SentHolds
    <3> QED
      BY <3>1, <3>2 DEF ReportHolds
  <2>6. ASSUME report' = None
        PROVE  report' \in Headroom \cup {None} /\ ReportHolds'
    BY <2>6 DEF ReportHolds
  <2> QED
    BY <1>2, <2>3, <2>4, <2>5, <2>6, WhoWrites
<1> QED
  BY <1>1, <1>2

-----------------------------------------------------------------------------
(* The rows. *)

(* A row that was born stays so, and changes by a patch or by going. *)
LEMMA RowStep ==
  ASSUME TypeOK, Born, [Next]_vars
  PROVE  /\ row' \in [Sessions -> RowValue]
         /\ \A s \in Sessions :
              /\ row[s] # Unborn =>
                   /\ row'[s] # Unborn
                   /\ \/ row'[s] \in {row[s], Gone}
                      \/ \E v \in PatchValues \cup {Inherit} : Patch(s, v)
              /\ row[s] = Unborn =>
                   \/ row'[s] = Unborn
                   \/ \E r \in Requests : Insert(r) /\ req[r].s = s
<1>1. row \in [Sessions -> RowValue] /\ Unborn \notin {Inherit, Gone} /\ Unborn \notin Nat
  BY SessionsAssumption DEF TypeOK
<1>2. CASE UNCHANGED row
  BY <1>1, <1>2
<1>3. CASE DeleteWorkspace
  BY <1>1, <1>3 DEF DeleteWorkspace, Recorded, RowValue
<1>4. ASSUME NEW r \in Requests, Drop(r)
      PROVE  /\ row' \in [Sessions -> RowValue] /\ req[r].s \in Sessions
             /\ row' = [row EXCEPT ![req[r].s] = Gone] /\ row[req[r].s] # Unborn
  BY <1>1, <1>4 DEF Drop, Born, RowValue
<1>5. ASSUME NEW r \in Requests, Insert(r)
      PROVE  /\ row' \in [Sessions -> RowValue] /\ req[r].s \in Sessions
             /\ row' = [row EXCEPT ![req[r].s] = IF wsRow THEN Inherit ELSE Gone]
             /\ row[req[r].s] = Unborn
  BY <1>1, <1>5 DEF Insert, Born, RowValue
<1>6. ASSUME NEW s \in Sessions, NEW v \in PatchValues \cup {Inherit}, Patch(s, v)
      PROVE  /\ row' \in [Sessions -> RowValue] /\ row'[s] # Unborn /\ row[s] # Unborn
             /\ \A x \in Sessions : x # s => row'[x] = row[x]
  <2> DEFINE new == IF v = Inherit THEN v ELSE Int32(v)
  <2>1. new \in RowValue /\ new # Unborn
    BY <1>1, <1>6, Int32Type, SessionsAssumption DEF Patch, RowValue
  <2>2. row' = [row EXCEPT ![s] = new] /\ Recorded(s)
    BY <1>6 DEF Patch
  <2> HIDE DEF new
  <2> QED
    BY <1>1, <2>1, <2>2 DEF Recorded
<1>7. CASE \E r \in Requests : Drop(r)
  BY <1>1, <1>4, <1>7
<1>8. CASE \E r \in Requests : Insert(r)
  BY <1>1, <1>5, <1>8
<1>9. CASE \E s \in Sessions : \E v \in PatchValues \cup {Inherit} : Patch(s, v)
  BY <1>1, <1>6, <1>9
<1> QED
  BY <1>2, <1>3, <1>7, <1>8, <1>9, WhoWrites

-----------------------------------------------------------------------------
(* The sweep. *)

(* What a step that is no tick may leave of a sweep: what is still to be     *)
(* done and what is opted out shrink, the rest stays.                        *)
Shrinks ==
  /\ sweep'.pc = sweep.pc /\ sweep'.act = sweep.act /\ sweep'.slack = sweep.slack
  /\ sweep'.todo \subseteq sweep.todo /\ sweep'.out \subseteq sweep.out

LEMMA ShrinkHolds ==
  ASSUME TypeOK, ProcTypes', Milder, SweepHolds, Shrinks PROVE SweepHolds'
<1>1. /\ sweep.act \in Activities => \A s \in DOMAIN sweep.act : s \in Sessions
      /\ sweep.todo \subseteq Sessions /\ FreshFor + sweep.slack \in Nat
  BY ActivitiesType, AdmissionAssumption, SessionsAssumption DEF TypeOK, Sweeper
<1>2. ASSUME NEW s \in Sessions, inUse[s] <= FreshFor + sweep.slack
      PROVE  inUse'[s] <= FreshFor + sweep.slack
  <2>1. inUse[s] \in Nat /\ inUse'[s] \in Nat /\ inUse'[s] <= inUse[s]
    BY AdmissionAssumption, SessionsAssumption DEF TypeOK, ProcTypes, Milder
  <2> QED
    BY <1>1, <1>2, <2>1
<1> QED
  BY <1>1, <1>2 DEF SweepHolds, Shrinks

(* The steps that shrink it. *)
LEMMA SweepShrinks ==
  ASSUME TypeOK,
         \/ Severed
         \/ \E s \in Sessions : SweepStops(s) \/ SweepMisses(s)
         \/ \E s \in Sessions : \E v \in PatchValues \cup {Inherit} : Patch(s, v)
  PROVE  sweep' \in Sweeper /\ Shrinks
<1>1. sweep \in Sweeper
  BY DEF TypeOK
<1>2. CASE Severed
  <2> DEFINE a == [sweep EXCEPT !.todo = {}]
  <2>1. /\ a \in Sweeper /\ a.pc = sweep.pc /\ a.act = sweep.act /\ a.slack = sweep.slack
        /\ a.todo = {} /\ a.out = sweep.out
    BY <1>1 DEF Sweeper
  <2>2. sweep' = [a EXCEPT !.out = {}]
    BY <1>2 DEF Severed
  <2> HIDE DEF a
  <2> QED
    BY <2>1, <2>2 DEF Sweeper, Shrinks
<1>3. ASSUME NEW s \in Sessions, SweepStops(s) \/ SweepMisses(s)
      PROVE  sweep' \in Sweeper /\ Shrinks
  <2>1. sweep' = [sweep EXCEPT !.todo = @ \ {s}]
    BY <1>3 DEF SweepStops, SweepMisses
  <2> QED
    BY <1>1, <2>1 DEF Sweeper, Shrinks
<1>4. ASSUME NEW s \in Sessions, NEW v \in PatchValues \cup {Inherit}, Patch(s, v)
      PROVE  sweep' \in Sweeper /\ Shrinks
  <2>1. sweep' = [sweep EXCEPT !.out = @ \ {s}]
    BY <1>4 DEF Patch
  <2> QED
    BY <1>1, <2>1 DEF Sweeper, Shrinks
<1> QED
  BY <1>2, <1>3, <1>4

(* The steps that start it, or end it. *)
LEMMA SweepEnds ==
  ASSUME sweep' = NotSweeping
  PROVE  sweep' \in Sweeper /\ SweepHolds' /\ OptedOut'
  BY IdleTypes DEF NotSweeping, SweepHolds, OptedOut

LEMMA SweepBeginsStep ==
  ASSUME TypeOK, ReportHolds, SweepBegins
  PROVE  sweep' \in Sweeper /\ SweepHolds' /\ OptedOut'
<1>1. /\ report \in Headroom /\ report # None /\ report.act \in Activities
      /\ report.age \in Nat /\ report.slack \in Nat /\ report.slack <= MaxSlack
      /\ FreshFor \in Nat /\ MaxSlack \in Nat
      /\ inUse \in [Sessions -> Nat] /\ UNCHANGED <<inUse, row>>
  BY ReportFields, AdmissionAssumption, SessionsAssumption
  DEF SweepBegins, TypeOK, ages, records
<1>2. PICK lag \in 0..(MaxSlack - report.slack) :
        /\ Actionable(report, lag)
        /\ sweep' = [NotSweeping EXCEPT !.pc = "read", !.act = report.act,
             !.slack = report.slack + lag,
             !.out = {s \in Sessions : Recorded(s) /\ idleTimeout(row[s]) = 0}]
  BY DEF SweepBegins
<1> DEFINE outs == {s \in Sessions : Recorded(s) /\ idleTimeout(row[s]) = 0}
           n == report.slack + lag
           a == [NotSweeping EXCEPT !.pc = "read"]
           b == [a EXCEPT !.act = report.act]
           c == [b EXCEPT !.slack = n]
<1>3. n \in 0..MaxSlack /\ report.age + report.slack <= FreshFor + n /\ Usable(report)
  BY <1>1, <1>2 DEF Actionable, Usable
<1>4. a \in Sweeper /\ a.pc = "read" /\ a.todo = {}
  BY IdleTypes DEF NotSweeping, Sweeper
<1>5. sweep' = [c EXCEPT !.out = outs] /\ outs \subseteq Sessions
  BY <1>2
<1> HIDE DEF a, n
<1>6. b \in Sweeper /\ b.pc = "read" /\ b.act = report.act /\ b.todo = {}
  BY <1>1, <1>4 DEF Sweeper
<1> HIDE DEF b, outs
<1>7. /\ c \in Sweeper /\ c.pc = "read" /\ c.act = report.act /\ c.todo = {}
      /\ c.slack = n
  BY <1>3, <1>6 DEF Sweeper
<1> HIDE DEF c
<1>8. /\ sweep' \in Sweeper /\ sweep'.pc = "read" /\ sweep'.act = report.act
      /\ sweep'.todo = {} /\ sweep'.slack = n /\ sweep'.out = outs
  BY <1>5, <1>7 DEF Sweeper
<1>9. ASSUME NEW s \in DOMAIN report.act, Quiet(report.act[s])
      PROVE  inUse[s] <= FreshFor + n
  <2>1. inUse[s] <= report.age + report.slack /\ s \in Sessions
    BY <1>1, <1>3, <1>9, ReportFields DEF ReportHolds
  <2> QED
    BY <1>1, <1>3, <2>1
<1>10. SweepHolds'
  BY <1>1, <1>8, <1>9 DEF SweepHolds
<1>11. OptedOut'
  BY <1>1, <1>8 DEF OptedOut, outs, Recorded
<1> QED
  BY <1>8, <1>10, <1>11

(* The timeout of a recorded session. *)
LEMMA TimeoutType ==
  ASSUME TypeOK, NEW s \in Sessions, Recorded(s)
  PROVE  idleTimeout(row[s]) \in Nat
  BY SessionsAssumption DEF TypeOK, RowValue, Recorded, idleTimeout

(* What the rows make idle is quiet and not opted out. *)
LEMMA IdleIsQuiet ==
  ASSUME TypeOK, sweep.act \in Activities, NEW s \in DOMAIN sweep.act, State(s) = "idle"
  PROVE  s \in Sessions /\ Recorded(s) /\ idleTimeout(row[s]) # 0 /\ Quiet(sweep.act[s])
<1>1. s \in Sessions /\ sweep.act[s] \in SessionActivity
  BY ActivitiesType
<1>2. /\ Recorded(s) /\ idleTimeout(row[s]) # 0
      /\ classify(sweep.act[s], idleTimeout(row[s])) = "idle"
  BY DEF State
<1>3. idleTimeout(row[s]) \in Nat /\ sweep.act[s].tool \in Nat
  BY <1>1, <1>2, TimeoutType, SessionsAssumption DEF SessionActivity
<1>4. ~sweep.act[s].att /\ ~(sweep.act[s].tool < idleTimeout(row[s]))
  BY <1>2 DEF classify
<1> QED
  BY <1>1, <1>2, <1>3, <1>4 DEF Quiet

LEMMA SweepReadsStep ==
  ASSUME TypeOK, SweepHolds, OptedOut, SweepReads
  PROVE  sweep' \in Sweeper /\ SweepHolds' /\ OptedOut'
<1> DEFINE idle == {s \in DOMAIN sweep.act : State(s) = "idle"}
           a == [sweep EXCEPT !.pc = "act"]
           b == [a EXCEPT !.act = None]
           c == [b EXCEPT !.todo = idle]
<1>1. /\ sweep \in Sweeper /\ sweep.act \in Activities /\ UNCHANGED <<inUse, row>>
      /\ \A s \in DOMAIN sweep.act :
           Quiet(sweep.act[s]) => inUse[s] <= FreshFor + sweep.slack
  BY DEF SweepReads, SweepHolds, TypeOK, ages, records
<1>2. /\ idle \subseteq Sessions
      /\ \A s \in idle : inUse[s] <= FreshFor + sweep.slack
  BY <1>1, IdleIsQuiet
<1>3. sweep.out \cap idle = {}
  BY <1>1, IdleIsQuiet DEF OptedOut
<1>4. sweep' = [c EXCEPT !.out = @ \cap idle]
  BY DEF SweepReads
<1>5. a \in Sweeper /\ a.pc = "act" /\ a.slack = sweep.slack /\ a.out = sweep.out
  BY <1>1 DEF Sweeper
<1> HIDE DEF a
<1>6. b \in Sweeper /\ b.pc = "act" /\ b.slack = sweep.slack /\ b.out = sweep.out
  BY <1>5 DEF Sweeper
<1> HIDE DEF b, idle
<1>7. /\ c \in Sweeper /\ c.pc = "act" /\ c.slack = sweep.slack /\ c.out = sweep.out
      /\ c.todo = idle
  BY <1>2, <1>6 DEF Sweeper
<1> HIDE DEF c
<1>8. /\ sweep' \in Sweeper /\ sweep'.pc = "act" /\ sweep'.slack = sweep.slack
      /\ sweep'.out = {} /\ sweep'.todo = idle
  BY <1>3, <1>4, <1>7 DEF Sweeper
<1>9. SweepHolds' /\ OptedOut'
  BY <1>1, <1>2, <1>8 DEF SweepHolds, OptedOut
<1> QED
  BY <1>8, <1>9

LEMMA SweepBlindStep ==
  ASSUME TypeOK, SweepHolds, SweepBlind
  PROVE  sweep' \in Sweeper /\ SweepHolds' /\ OptedOut'
<1> DEFINE a == [sweep EXCEPT !.pc = "act"]
           b == [a EXCEPT !.act = None]
<1>1. sweep \in Sweeper /\ sweep.todo = {}
  BY DEF SweepBlind, SweepHolds, TypeOK
<1>2. sweep' = [b EXCEPT !.out = {}]
  BY DEF SweepBlind
<1>3. a \in Sweeper /\ a.pc = "act" /\ a.todo = {}
  BY <1>1 DEF Sweeper
<1> HIDE DEF a
<1>4. b \in Sweeper /\ b.pc = "act" /\ b.todo = {}
  BY <1>3 DEF Sweeper
<1> HIDE DEF b
<1>5. sweep' \in Sweeper /\ sweep'.pc = "act" /\ sweep'.todo = {} /\ sweep'.out = {}
  BY <1>2, <1>4 DEF Sweeper
<1> QED
  BY <1>5 DEF SweepHolds, OptedOut

(* The clock goes on, for the sweep as for the sessions. *)
LEMMA SweepAges ==
  ASSUME TypeOK, UseCounted, SweepHolds, OptedOut, Tick
  PROVE  sweep' \in Sweeper /\ SweepHolds' /\ OptedOut'
<1>1. /\ sweep \in Sweeper /\ UNCHANGED row /\ FreshFor \in Nat /\ MaxSlack \in Nat
      /\ \A s \in Sessions : /\ inUse[s] \in Nat /\ inUse'[s] \in Nat
                             /\ inUse'[s] <= inUse[s] + 1
  BY TickUse, SessionsAssumption, AdmissionAssumption DEF Tick, TypeOK, ProcTypes, records
<1>2. CASE sweep.pc = "idle"
  BY <1>1, <1>2 DEF Tick, SweepHolds, OptedOut, Recorded
<1>3. CASE sweep.pc # "idle"
  <2>1. sweep' = [sweep EXCEPT !.slack = @ + 1] /\ sweep.slack < MaxSlack
    BY <1>3 DEF Tick
  <2>2. sweep.slack \in 0..MaxSlack
    BY <1>1 DEF Sweeper
  <2>3. /\ sweep' \in Sweeper /\ sweep'.pc = sweep.pc /\ sweep'.act = sweep.act
        /\ sweep'.todo = sweep.todo /\ sweep'.out = sweep.out
        /\ sweep'.slack = sweep.slack + 1
    BY <1>1, <2>1, <2>2 DEF Sweeper
  <2>4. \A s \in Sessions :
          inUse[s] <= FreshFor + sweep.slack => inUse'[s] <= FreshFor + sweep'.slack
    BY <1>1, <2>2, <2>3
  <2>5. /\ sweep.act \in Activities => \A s \in DOMAIN sweep.act : s \in Sessions
        /\ sweep.todo \subseteq Sessions
    BY <1>1, ActivitiesType DEF Sweeper
  <2>6. SweepHolds'
    BY <2>3, <2>4, <2>5 DEF SweepHolds
  <2>7. OptedOut'
    BY <1>1, <2>3 DEF OptedOut, Recorded
  <2> QED
    BY <2>3, <2>6, <2>7
<1> QED
  BY <1>2, <1>3

(* Who is opted out stays so until patched. *)
LEMMA ShrinkOut ==
  ASSUME TypeOK, Born, OptedOut, Shrinks, [Next]_vars PROVE OptedOut'
<1>1. sweep.out \subseteq Sessions
  BY DEF TypeOK, Sweeper
<1>2. ASSUME NEW s \in sweep'.out
      PROVE  row'[s] # Unborn /\ (Recorded(s)' => idleTimeout(row'[s]) = 0)
  <2>1. s \in sweep.out /\ s \in Sessions
    BY <1>1 DEF Shrinks
  <2>2. row[s] # Unborn /\ (Recorded(s) => idleTimeout(row[s]) = 0)
    BY <2>1 DEF OptedOut
  <2>3. ~\E v \in PatchValues \cup {Inherit} : Patch(s, v)
    BY <1>2 DEF Patch, TypeOK, Sweeper
  <2>4. row'[s] # Unborn /\ row'[s] \in {row[s], Gone}
    BY <2>1, <2>2, <2>3, RowStep
  <2> QED
    BY <2>2, <2>4 DEF Recorded
<1> QED
  BY <1>2 DEF OptedOut, Shrinks

LEMMA SweepStep ==
  ASSUME TypeOK, UseCounted, ReportHolds, SweepHolds, OptedOut, Born, [Next]_vars
  PROVE  sweep' \in Sweeper /\ SweepHolds' /\ OptedOut'
<1>1. CASE Tick
  BY <1>1, SweepAges
<1>2. CASE ~Tick
  <2>1. Milder /\ ProcTypes'
    BY <1>2, ProcStep
  <2>2. ASSUME sweep' \in Sweeper /\ Shrinks
        PROVE  sweep' \in Sweeper /\ SweepHolds' /\ OptedOut'
    BY <2>1, <2>2, ShrinkHolds, ShrinkOut
  <2>3. CASE UNCHANGED sweep
    BY <2>2, <2>3 DEF TypeOK, Shrinks
  <2>4. CASE \/ TaskGone \/ TunnelLost
             \/ \E s \in Sessions : SweepStops(s) \/ SweepMisses(s)
             \/ \E s \in Sessions : \E v \in PatchValues \cup {Inherit} : Patch(s, v)
    BY <2>2, <2>4, SweepShrinks DEF TaskGone, TunnelLost
  <2>5. CASE SweepForgets \/ SweepNotes
    BY <2>5, SweepEnds DEF SweepForgets, SweepNotes
  <2> QED
    BY <1>2, <2>3, <2>4, <2>5, WhoWrites, SweepBeginsStep, SweepReadsStep, SweepBlindStep
    DEF Sweeps
<1> QED
  BY <1>1, <1>2

(* A command carries the sweep's slack, and its own ticks. *)
LEMMA StopsStep ==
  ASSUME TypeOK, UseCounted, SweepHolds, StopsHold, OptedOut, Born, [Next]_vars
  PROVE  stops' \subseteq StopCommand /\ StopsHold'
<1>1. /\ stops \subseteq StopCommand /\ FreshFor \in Nat /\ MaxSlack \in Nat
      /\ inUse \in [Sessions -> Nat]
  BY AdmissionAssumption, SessionsAssumption DEF TypeOK
<1>2. \A m \in stops : m.s \in Sessions /\ m.slack \in 0..MaxSlack
  BY <1>1 DEF StopCommand
<1>3. CASE Tick
  <2>1. /\ inUse' \in [Sessions -> Nat] /\ \A s \in Sessions : inUse'[s] <= inUse[s] + 1
        /\ stops' = {[m EXCEPT !.slack = @ + 1] : m \in stops}
        /\ \A m \in stops : m.slack < MaxSlack
    BY <1>3, TickUse, AdmissionAssumption, SessionsAssumption DEF Tick, ProcTypes
  <2>2. ASSUME NEW m \in stops, NEW k, k = [m EXCEPT !.slack = @ + 1]
        PROVE  k \in StopCommand /\ inUse'[k.s] <= FreshFor + k.slack /\ ~k.out
    <3>1. m \in StopCommand /\ m.slack + 1 \in 0..MaxSlack
      BY <1>1, <1>2, <2>1
    <3>2. k \in StopCommand /\ k.s = m.s /\ k.slack = m.slack + 1 /\ k.out = m.out
      BY <2>2, <3>1 DEF StopCommand
    <3>3. inUse[m.s] <= FreshFor + m.slack /\ ~m.out
      BY DEF StopsHold
    <3>4. inUse'[m.s] <= FreshFor + (m.slack + 1)
      BY <1>1, <1>2, <2>1, <3>3
    <3> QED
      BY <3>2, <3>3, <3>4
  <2> QED
    BY <2>1, <2>2 DEF StopsHold
<1>4. CASE ~Tick
  <2>1. inUse' \in [Sessions -> Nat] /\ \A s \in Sessions : inUse'[s] <= inUse[s]
    BY <1>4, ProcStep, AdmissionAssumption, SessionsAssumption DEF ProcTypes, Milder
  <2>2. \A m \in stops : inUse'[m.s] <= FreshFor + m.slack /\ ~m.out
    BY <1>1, <1>2, <2>1 DEF StopsHold
  <2>3. CASE stops' \subseteq stops
    BY <1>1, <2>2, <2>3 DEF StopsHold
  <2>4. ASSUME NEW s \in Sessions, SweepStops(s)
        PROVE  stops' \subseteq StopCommand /\ StopsHold'
    <3> DEFINE k == [s |-> s, slack |-> sweep.slack, out |-> FALSE]
    <3>1. sweep.slack \in 0..MaxSlack /\ s \in sweep.todo /\ sweep.out = {}
      BY <2>4 DEF SweepStops, SweepHolds, OptedOut, TypeOK, Sweeper
    <3>2. stops' = stops \cup {k} /\ UNCHANGED inUse
      <4>1. (s \in sweep.out) = FALSE
        BY <3>1
      <4> QED
        BY <2>4, <4>1 DEF SweepStops, ages
    <3>3. k \in StopCommand /\ k.s = s /\ k.slack = sweep.slack /\ ~k.out
      BY <3>1 DEF StopCommand
    <3>4. inUse[s] <= FreshFor + sweep.slack
      BY <3>1 DEF SweepHolds
    <3> HIDE DEF k
    <3> QED
      BY <1>1, <3>2, <3>3, <3>4 DEF StopsHold
  <2> QED
    BY <1>4, <2>3, <2>4, WhoWrites
<1> QED
  BY <1>3, <1>4

-----------------------------------------------------------------------------
(* The handlers. *)

(* How a handler goes on: it returns, it keeps its place and its session, or *)
(* a delete goes from its listing to the kill and to the row.                *)
After == {"start", "list", "kill", "drop"}
GoesOn(r) ==
  \/ req'[r].pc = "idle"
  \/ req'[r].pc = req[r].pc /\ req'[r].s = req[r].s
  \/ req[r].pc \in After /\ req'[r].pc \in After /\ req'[r].s = req[r].s

(* Handlers that only go on keep what they stand on. *)
LEMMA GoOnBorn ==
  ASSUME TypeOK, Born, [Next]_vars, req' \in [Requests -> Request],
         \A r \in Requests : GoesOn(r)
  PROVE  Born'
<1> SUFFICES ASSUME NEW r \in Requests
             PROVE  /\ req'[r].pc # "idle" => req'[r].s \in Sessions
                    /\ req'[r].pc = "insert" =>
                         /\ row'[req'[r].s] = Unborn
                         /\ \A q \in Requests :
                              req'[q].pc = "insert" /\ req'[q].s = req'[r].s => q = r
                    /\ req'[r].pc \in {"start", "list", "kill", "drop"} =>
                         row'[req'[r].s] # Unborn
  BY DEF Born
<1>1. \A q \in Requests :
        req'[q].pc = "insert" => req[q].pc = "insert" /\ req'[q].s = req[q].s
  BY DEF GoesOn, After
<1>2. req'[r].pc # "idle" => req'[r].s = req[r].s /\ req[r].pc # "idle"
  BY DEF GoesOn, After
<1>3. req'[r].pc # "idle" => req'[r].s \in Sessions
  BY <1>2 DEF Born
<1>4. ASSUME req'[r].pc = "insert"
      PROVE  /\ row'[req'[r].s] = Unborn
             /\ \A q \in Requests : req'[q].pc = "insert" /\ req'[q].s = req'[r].s => q = r
  <2>1. /\ req[r].pc = "insert" /\ req'[r].s = req[r].s /\ row[req[r].s] = Unborn
        /\ req[r].s \in Sessions
        /\ \A q \in Requests : req[q].pc = "insert" /\ req[q].s = req[r].s => q = r
    BY <1>1, <1>4 DEF Born
  <2>2. ASSUME NEW q \in Requests, Insert(q) PROVE req[q].s # req[r].s
    <3>1. req'[q].pc = "idle"
      BY <2>2 DEF Insert, Returns, Idle, TypeOK
    <3> QED
      BY <1>4, <2>1, <2>2, <3>1 DEF Insert
  <2> QED
    BY <1>1, <2>1, <2>2, RowStep
<1>5. ASSUME req'[r].pc \in {"start", "list", "kill", "drop"}
      PROVE  row'[req'[r].s] # Unborn
  <2>1. req'[r].s = req[r].s /\ req[r].pc \in {"start", "list", "kill", "drop"}
    BY <1>5 DEF GoesOn, After
  <2>2. req[r].s \in Sessions /\ row[req[r].s] # Unborn
    BY <2>1 DEF Born
  <2> QED
    BY <2>1, <2>2, RowStep
<1> QED
  BY <1>3, <1>4, <1>5

(* A handler that begins. *)
LEMMA BeginBorn ==
  ASSUME TypeOK, Born, NEW r \in Requests, NEW s \in Sessions, Asked(r, s)
  PROVE  req' \in [Requests -> Request] /\ Born'
<1>1. /\ req \in [Requests -> Request] /\ UNCHANGED row
      /\ row[s] = Unborn => \A q \in Requests : req[q].s # s
  BY SessionsAssumption DEF Asked, Create, Resume, Delete, Recorded, TypeOK, records
<1>2. PICK force \in BOOLEAN, pc \in {"insert", "start", "list", "kill", "drop"} :
        /\ req' = [req EXCEPT ![r] = Begun(s, force, pc)]
        /\ pc = "insert" <=> row[s] = Unborn
  BY DEF Asked, Create, Resume, Delete, Begin, Begun, Recorded
<1>3. /\ Begun(s, force, pc) \in Request /\ Begun(s, force, pc).s = s
      /\ Begun(s, force, pc).pc = pc
  BY BegunFields
<1>4. req' \in [Requests -> Request]
  BY <1>1, <1>2, <1>3
<1>5. /\ req'[r].s = s /\ req'[r].pc = pc
      /\ \A q \in Requests : q # r => req'[q] = req[q]
  BY <1>1, <1>2, <1>3
<1> QED
  BY <1>1, <1>2, <1>4, <1>5 DEF Born

(* Excusing leaves everything else of a handler. *)
LEMMA ExcusedFields ==
  ASSUME TypeOK, NEW s
  PROVE  /\ Excused(s) \in [Requests -> Request]
         /\ \A q \in Requests :
              /\ Excused(s)[q].pc = req[q].pc /\ Excused(s)[q].s = req[q].s
              /\ Excused(s)[q].force = req[q].force
              /\ ~Excused(s)[q].excused =>
                   ~req[q].excused /\ ~(req[q].s = s /\ req[q].pc = "kill" /\ ~req[q].force)
<1> DEFINE e(q) == req[q].excused \/ (req[q].s = s /\ req[q].pc = "kill" /\ ~req[q].force)
<1>1. req \in [Requests -> Request]
  BY DEF TypeOK
<1>2. \A q \in Requests : e(q) \in BOOLEAN
  BY <1>1 DEF Request
<1>3. Excused(s) = [q \in Requests |-> [req[q] EXCEPT !.excused = e(q)]]
  BY DEF Excused
<1> HIDE DEF e
<1>4. ASSUME NEW q \in Requests
      PROVE  /\ [req[q] EXCEPT !.excused = e(q)] \in Request
             /\ [req[q] EXCEPT !.excused = e(q)].pc = req[q].pc
             /\ [req[q] EXCEPT !.excused = e(q)].s = req[q].s
             /\ [req[q] EXCEPT !.excused = e(q)].force = req[q].force
             /\ [req[q] EXCEPT !.excused = e(q)].excused = e(q)
  BY <1>1, <1>2 DEF Request
<1>5. \A q \in Requests :
        /\ Excused(s)[q] \in Request
        /\ Excused(s)[q].pc = req[q].pc /\ Excused(s)[q].s = req[q].s
        /\ Excused(s)[q].force = req[q].force /\ Excused(s)[q].excused = e(q)
  BY <1>3, <1>4
<1>6. Excused(s) \in [Requests -> Request]
  BY <1>3, <1>5
<1> QED
  BY <1>5, <1>6 DEF e

(* What a delete knows when it goes for the process: what it knew, or that   *)
(* it has just seen the session dead.                                        *)
Looked(r) ==
  /\ req'[r].pc = "list" => ~req'[r].force
  /\ req'[r].pc = "kill" /\ ~req'[r].force /\ ~req'[r].excused =>
       \/ /\ req[r].pc = "kill" /\ ~req[r].force /\ ~req[r].excused
          /\ req'[r].s = req[r].s
       \/ req'[r].s \in Sessions /\ ~Live(req'[r].s) /\ UNCHANGED proc

LEMMA Stays ==
  ASSUME KillsDead, NEW r \in Requests, req'[r] = req[r]
  PROVE  GoesOn(r) /\ Looked(r)
  BY DEF KillsDead, GoesOn, Looked

LEMMA Returned ==
  ASSUME NEW r \in Requests, req'[r] = Idle PROVE GoesOn(r) /\ Looked(r)
  BY DEF Idle, GoesOn, Looked

LEMMA HandlerMoves ==
  ASSUME TypeOK, Born, KillsDead, NEW r \in Requests, Handler(r)
  PROVE  req' \in [Requests -> Request] /\ \A q \in Requests : GoesOn(q) /\ Looked(q)
<1>1. req \in [Requests -> Request] /\ req[r] \in Request
  BY DEF TypeOK
<1>2. CASE Returns(r)
  BY <1>1, <1>2, IdleTypes, Stays, Returned DEF Returns
<1>3. CASE Kill(r) /\ Goto(r, "drop")
  <2> DEFINE g == Going(req[r].s, "drop")
  <2>1. g \in Request /\ g.s = req[r].s /\ g.pc = "drop"
    BY <1>1, BegunFields DEF Request
  <2>2. req' = [req EXCEPT ![r] = g] /\ req[r].pc = "kill"
    BY <1>3 DEF Kill, Goto, Going
  <2> HIDE DEF g
  <2>3. /\ req' \in [Requests -> Request] /\ req'[r] = g
        /\ \A q \in Requests : q # r => req'[q] = req[q]
    BY <1>1, <2>1, <2>2
  <2>4. GoesOn(r) /\ Looked(r)
    BY <2>1, <2>2, <2>3 DEF GoesOn, Looked, After
  <2> QED
    BY <2>3, <2>4, Stays
<1>4. CASE List(r) /\ ~Returns(r)
  <2> DEFINE g == [req[r] EXCEPT !.pc = "kill"]
  <2>1. /\ g \in Request /\ g.s = req[r].s /\ g.pc = "kill"
        /\ req[r].pc = "list" /\ req[r].s \in Sessions
    BY <1>1, <1>4 DEF Request, List, Born
  <2>2. req' = [req EXCEPT ![r] = g] /\ ~Live(req[r].s) /\ UNCHANGED proc
    BY <1>4 DEF List, RefusesLive
  <2> HIDE DEF g
  <2>3. /\ req' \in [Requests -> Request] /\ req'[r] = g
        /\ \A q \in Requests : q # r => req'[q] = req[q]
    BY <1>1, <2>1, <2>2
  <2>4. GoesOn(r) /\ Looked(r)
    BY <2>1, <2>2, <2>3 DEF GoesOn, Looked, After
  <2> QED
    BY <2>3, <2>4, Stays
<1>5. CASE ListFails(r)
  <2> DEFINE a == [req[r] EXCEPT !.pc = "kill"]
             g == [a EXCEPT !.excused = TRUE]
  <2>1. a \in Request /\ a.s = req[r].s /\ a.pc = "kill" /\ req[r].pc = "list"
    BY <1>1, <1>5 DEF Request, ListFails
  <2>2. req' = [req EXCEPT ![r] = g]
    BY <1>1, <1>5 DEF ListFails
  <2> HIDE DEF a
  <2>3. g \in Request /\ g.s = req[r].s /\ g.pc = "kill" /\ g.excused
    BY <2>1 DEF Request
  <2> HIDE DEF g
  <2>4. /\ req' \in [Requests -> Request] /\ req'[r] = g
        /\ \A q \in Requests : q # r => req'[q] = req[q]
    BY <1>1, <2>2, <2>3
  <2>5. GoesOn(r) /\ Looked(r)
    BY <2>1, <2>3, <2>4 DEF GoesOn, Looked, After
  <2> QED
    BY <2>4, <2>5, Stays
<1>6. CASE Start(r)
  <2> DEFINE x == Excused(req[r].s)
  <2>1. x \in [Requests -> Request] /\ req' = [x EXCEPT ![r] = Idle]
    BY <1>6, ExcusedFields DEF Start
  <2>2. /\ req' \in [Requests -> Request] /\ req'[r] = Idle
        /\ \A q \in Requests : q # r => req'[q] = x[q]
    BY <2>1, IdleTypes
  <2>3. ASSUME NEW q \in Requests, q # r PROVE GoesOn(q) /\ Looked(q)
    BY <2>2, <2>3, ExcusedFields DEF GoesOn, Looked, KillsDead
  <2> QED
    BY <2>2, <2>3, Returned
<1> QED
  BY <1>2, <1>3, <1>4, <1>5, <1>6 DEF Handler, Insert, Fails, List, Kill, Drop

LEMMA RequestStep ==
  ASSUME TypeOK, Born, KillsDead, [Next]_vars
  PROVE  req' \in [Requests -> Request] /\ Born' /\ \A r \in Requests : Looked(r)
<1>1. req \in [Requests -> Request]
  BY DEF TypeOK
<1>2. ASSUME req' \in [Requests -> Request], \A r \in Requests : GoesOn(r) /\ Looked(r)
      PROVE  req' \in [Requests -> Request] /\ Born' /\ \A r \in Requests : Looked(r)
  BY <1>2, GoOnBorn
<1>3. CASE UNCHANGED req
  BY <1>1, <1>2, <1>3, Stays
<1>4. CASE TaskGone \/ TunnelLost
  <2>1. \A r \in Requests : req'[r] \in {Idle, req[r]}
    BY <1>4 DEF TaskGone, TunnelLost, Severed
  <2>2. req' \in [Requests -> Request]
    BY <1>1, <1>4, IdleTypes DEF TaskGone, TunnelLost, Severed
  <2> QED
    BY <1>2, <2>1, <2>2, Stays, Returned
<1>5. ASSUME NEW s \in Sessions, Attaches(s)
      PROVE  req' \in [Requests -> Request] /\ Born' /\ \A r \in Requests : Looked(r)
  <2>1. req' = Excused(s)
    BY <1>5 DEF Attaches
  <2>2. \A r \in Requests : GoesOn(r) /\ Looked(r)
    BY <2>1, ExcusedFields DEF GoesOn, Looked, KillsDead
  <2> QED
    BY <1>2, <2>1, <2>2, ExcusedFields
<1>6. ASSUME NEW r \in Requests, NEW s \in Sessions, Asked(r, s)
      PROVE  req' \in [Requests -> Request] /\ Born' /\ \A q \in Requests : Looked(q)
  <2>1. PICK force \in BOOLEAN, pc \in {"insert", "start", "list", "kill", "drop"} :
          /\ req' = [req EXCEPT ![r] = Begun(s, force, pc)]
          /\ pc = "list" => ~force
          /\ pc = "kill" => force
    BY <1>6 DEF Asked, Create, Resume, Delete, Begin, Begun
  <2>2. Begun(s, force, pc).pc = pc /\ Begun(s, force, pc).force = force
    BY BegunFields
  <2>3. /\ req'[r].pc = pc /\ req'[r].force = force
        /\ \A q \in Requests : q # r => req'[q] = req[q]
    BY <1>1, <2>1, <2>2
  <2>4. Looked(r)
    BY <2>1, <2>3 DEF Looked
  <2> QED
    BY <1>6, <2>3, <2>4, BeginBorn, Stays
<1> QED
  BY <1>2, <1>3, <1>4, <1>5, <1>6, HandlerMoves, WhoWrites

(* A process comes to life by a start or an attachment only. *)
LEMMA LiveStep ==
  ASSUME TypeOK, Born, [Next]_vars, NEW s \in Sessions, ~Live(s), Live(s)'
  PROVE  Attaches(s) \/ \E r \in Requests : Start(r) /\ req[r].s = s
<1>1. proc \in [Sessions -> SessionProcess] /\ proc[s].st = "none" /\ proc'[s].st # "none"
  BY DEF Live, TypeOK
<1>2. NoProcess.st = "none"
  BY DEF NoProcess
<1>3. ASSUME UNCHANGED proc PROVE FALSE
  BY <1>1, <1>3
<1>4. ASSUME NEW x \in Sessions, NEW p, SetProc(x, p),
             p.st = "none" \/ p.st = proc[x].st
      PROVE  FALSE
  BY <1>1, <1>4 DEF SetProc
<1>5. ASSUME NEW x \in Sessions, Process(x), ~Attaches(x) PROVE FALSE
  <2>1. CASE Writes(x)
    BY <1>3, <2>1 DEF Writes
  <2>2. CASE ToolStarts(x) \/ ToolEnds(x) \/ Detaches(x)
    <3>1. /\ [proc[x] EXCEPT !.tool = TRUE].st = proc[x].st
          /\ [proc[x] EXCEPT !.tool = FALSE].st = proc[x].st
          /\ [proc[x] EXCEPT !.att = FALSE].st = proc[x].st
      BY <1>1 DEF SessionProcess
    <3> QED
      BY <1>4, <2>2, <3>1 DEF ToolStarts, ToolEnds, Detaches
  <2>3. CASE Exits(x)
    BY <1>2, <1>4, <2>3 DEF Exits
  <2>4. ASSUME NEW force \in BOOLEAN, Stop(x, force) PROVE FALSE
    BY <1>1, <2>4 DEF Stop, SetProc, Live
  <2> QED
    BY <1>5, <2>1, <2>2, <2>3, <2>4 DEF Process
<1>6. ASSUME NEW x \in Sessions, StopsArrive(x) PROVE FALSE
  BY <1>1, <1>2, <1>6 DEF StopsArrive, StopArrives, SetProc, Stopped, Live
<1>7. ASSUME NEW x \in Sessions, Attaches(x), x # s PROVE FALSE
  BY <1>1, <1>7 DEF Attaches, SetProc
<1>8. ASSUME NEW r \in Requests, Start(r), req[r].s # s PROVE FALSE
  BY <1>1, <1>8 DEF Start, SetProc
<1>9. ASSUME NEW r \in Requests, Kill(r) PROVE FALSE
  BY <1>1, <1>2, <1>4, <1>9 DEF Kill, Born
<1>10. CASE TaskGone
  BY <1>1, <1>2, <1>10 DEF TaskGone
<1>11. CASE Tick \/ Measures
  BY <1>3, <1>11 DEF Tick, Measures, Measure
<1> QED
  BY <1>3, <1>5, <1>6, <1>7, <1>8, <1>9, <1>10, <1>11, WhoWrites

LEMMA KillStep ==
  ASSUME TypeOK, Born, KillsDead, [Next]_vars PROVE KillsDead'
<1> SUFFICES ASSUME NEW r \in Requests
             PROVE  /\ req'[r].pc = "list" => ~req'[r].force
                    /\ req'[r].pc = "kill" /\ ~req'[r].force /\ ~req'[r].excused
                         => proc'[req'[r].s].st = "none"
  BY DEF KillsDead, Live
<1>1. Looked(r)
  BY RequestStep
<1>2. ASSUME req'[r].pc = "kill", ~req'[r].force, ~req'[r].excused,
             proc'[req'[r].s].st # "none"
      PROVE  FALSE
  <2>1. ~(~Live(req'[r].s) /\ UNCHANGED proc)
    BY <1>2 DEF Live
  <2>2. /\ req[r].pc = "kill" /\ ~req[r].force /\ ~req[r].excused /\ req'[r].s = req[r].s
    BY <1>1, <1>2, <2>1 DEF Looked
  <2>3. PICK s \in Sessions : s = req[r].s
    BY <2>2 DEF Born
  <2>4. ~Live(s) /\ Live(s)'
    BY <1>2, <2>2, <2>3 DEF KillsDead, Live
  <2>5. Excused(s)[r].excused
    BY <2>2, <2>3, ExcusedFields
  <2>6. CASE Attaches(s)
    BY <1>2, <2>5, <2>6 DEF Attaches
  <2>7. ASSUME NEW q \in Requests, Start(q), req[q].s = s PROVE FALSE
    <3>1. q # r
      BY <2>2, <2>7 DEF Start
    <3>2. req' = [Excused(s) EXCEPT ![q] = Idle]
      BY <2>7 DEF Start
    <3>3. req'[r] = Excused(s)[r]
      BY <3>1, <3>2, ExcusedFields
    <3> QED
      BY <1>2, <2>5, <3>3
  <2> QED
    BY <2>4, <2>6, <2>7, LiveStep
<1>3. req'[r].pc = "list" => ~req'[r].force
  BY <1>1 DEF Looked
<1> QED
  BY <1>2, <1>3

-----------------------------------------------------------------------------
(* The invariant and what follows from it. *)

LEMMA InitInv == Init => SessionsInv
<1> SUFFICES ASSUME Init PROVE SessionsInv
  OBVIOUS
<1>1. TypeOK
  <2>1. /\ row \in [Sessions -> RowValue] /\ proc \in [Sessions -> SessionProcess]
        /\ sweep \in Sweeper /\ req \in [Requests -> Request]
        /\ sent \in Headroom \cup {None} /\ report \in Headroom \cup {None}
        /\ stops \subseteq StopCommand
    BY IdleTypes DEF Init, RowValue
  <2>2. /\ output \in [Sessions -> 0..Longest] /\ lastTool \in [Sessions -> 0..Longest]
        /\ inUse \in [Sessions -> 0..(FreshFor + MaxSlack + 1)]
    BY SessionsAssumption, AdmissionAssumption DEF Init
  <2>3. /\ wsRow \in BOOLEAN /\ task \in BOOLEAN
        /\ tunnel \in BOOLEAN /\ (tunnel => task)
    BY DEF Init
  <2> QED
    BY <2>1, <2>2, <2>3 DEF TypeOK
<1>2. UseCounted /\ SentHolds /\ ReportHolds /\ SweepHolds /\ StopsHold /\ OptedOut
  BY DEF Init, UseCounted, SentHolds, ReportHolds, StopsHold, SweepHolds, OptedOut, NotSweeping
<1>3. Born /\ KillsDead
  BY DEF Init, Idle, Born, KillsDead
<1> QED
  BY <1>1, <1>2, <1>3 DEF SessionsInv

LEMMA NextInv == SessionsInv /\ [Next]_vars => SessionsInv'
<1> SUFFICES ASSUME SessionsInv, [Next]_vars PROVE SessionsInv'
  OBVIOUS
<1>0. /\ TypeOK /\ UseCounted /\ SentHolds /\ ReportHolds /\ SweepHolds /\ StopsHold
      /\ OptedOut /\ Born /\ KillsDead
  BY DEF SessionsInv
<1>1. /\ wsRow' \in BOOLEAN /\ task' \in BOOLEAN /\ tunnel' \in BOOLEAN
      /\ tunnel' => task'
  <2>1. /\ wsRow \in BOOLEAN /\ task \in BOOLEAN /\ tunnel \in BOOLEAN
        /\ tunnel => task
    BY <1>0 DEF TypeOK
  <2>2. CASE TaskGone \/ TunnelLost \/ Redials
    BY <2>1, <2>2 DEF TaskGone, TunnelLost, Severed, Redials, records
  <2>3. CASE Tick \/ UNCHANGED vars
    BY <2>1, <2>3 DEF Tick, records, machine, vars
  <2>4. CASE DeleteWorkspace
    BY <2>1, <2>4 DEF DeleteWorkspace, machine
  <2>5. CASE Measures \/ File \/ Sweeps
    <3>1. ASSUME \/ File \/ SweepBegins \/ SweepReads \/ SweepBlind
                 \/ SweepForgets \/ SweepNotes
          PROVE  UNCHANGED <<wsRow, task, tunnel>>
      <4>1. UNCHANGED <<records, machine>>
        BY <3>1
        DEF File, SweepBegins, SweepReads, SweepBlind, SweepForgets, SweepNotes
      <4> QED
        BY <4>1 DEF records, machine
    <3>2. CASE Measures
      BY <2>1, <3>2 DEF Measures, Measure, records, machine
    <3>3. ASSUME NEW s \in Sessions, SweepStops(s) \/ SweepMisses(s)
          PROVE  UNCHANGED <<wsRow, task, tunnel>>
      BY <3>3 DEF SweepStops, SweepMisses, records, machine
    <3> QED
      BY <2>1, <2>5, <3>1, <3>2, <3>3 DEF Sweeps
  <2>6. ASSUME NEW r \in Requests, Handler(r)
        PROVE  UNCHANGED <<wsRow, task, tunnel>>
    BY <2>6 DEF Handler, Insert, Start, Fails, List, ListFails, Kill, Drop, records, machine
  <2>7. ASSUME NEW r \in Requests, NEW s \in Sessions, Asked(r, s)
        PROVE  /\ UNCHANGED wsRow
               /\ UNCHANGED <<task, tunnel>> \/ (task' = TRUE /\ tunnel' = TRUE)
    BY <2>7 DEF Asked, Create, Resume, Delete, Ensured, records, machine
  <2>8. ASSUME NEW s \in Sessions,
               Process(s) \/ StopsArrive(s) \/ \E v \in PatchValues \cup {Inherit} : Patch(s, v)
        PROVE  UNCHANGED <<wsRow, task, tunnel>>
    BY <2>8
    DEF Process, Writes, Attaches, ToolStarts, ToolEnds, Detaches, Exits, Stop, Patch,
        StopsArrive, StopArrives, records, machine
  <2> QED
    BY <2>1, <2>2, <2>3, <2>4, <2>5, <2>6, <2>7, <2>8 DEF Next
<1>2. ProcTypes' /\ UseCounted'
  BY <1>0, ProcStep
<1>3. row' \in [Sessions -> RowValue]
  BY <1>0, RowStep
<1>4. /\ sent' \in Headroom \cup {None} /\ SentHolds'
      /\ report' \in Headroom \cup {None} /\ ReportHolds'
  BY <1>0, ReportsStep
<1>5. sweep' \in Sweeper /\ SweepHolds' /\ OptedOut'
  BY <1>0, SweepStep
<1>6. req' \in [Requests -> Request] /\ Born' /\ KillsDead'
  BY <1>0, RequestStep, KillStep
<1>7. stops' \subseteq StopCommand /\ StopsHold'
  BY <1>0, StopsStep
<1>8. TypeOK'
  BY <1>1, <1>2, <1>3, <1>4, <1>5, <1>6, <1>7 DEF TypeOK, ProcTypes
<1> QED
  BY <1>2, <1>4, <1>5, <1>6, <1>7, <1>8 DEF SessionsInv

(* The invariant holds however handlers, sweeps, reports, ticks, clients and *)
(* losses of the tunnel, the task and the workspace interleave.              *)
THEOREM SessionsInvariant == Spec => []SessionsInv
  BY InitInv, NextInv, PTL DEF Spec

(* Types; in particular a stored override is one that the column holds       *)
(* (handlePatchSession).                                                     *)
THEOREM SessionsTypes == Spec => []TypeOK
  BY SessionsInvariant, PTL DEF SessionsInv

(* The reaper stops nothing that was in use for longer than a report is      *)
(* fresh and the report's delivery, the ticker's lag, the sweep and the      *)
(* command took together, and nothing that was opted out when the sweep      *)
(* began and left so, whatever the session looked like in the report it goes *)
(* by (stopIdleSessions).                                                    *)
THEOREM SweepsSpare == Spec => SweepSpares
<1>1. SessionsInv /\ [Next]_vars =>
        [\A m \in stops : SweptDown(m) =>
           inUse[m.s] <= FreshFor + m.slack /\ ~m.out]_vars
  BY DEF SessionsInv, StopsHold
<1> QED
  BY <1>1, SessionsInvariant, PTL DEF Spec, SweepSpares

(* A delete that is not forced ends no process that was there when it        *)
(* listed the sessions, only one started since or when the listing failed    *)
(* (handleDeleteSession).                                                    *)
THEOREM DeletesSpare == Spec => DeleteSpares
<1>1. SessionsInv /\ [Next]_vars =>
        [\A r \in Requests : KilledUnforced(r) => req[r].excused]_vars
  BY DEF SessionsInv, KillsDead, KilledUnforced
<1> QED
  BY <1>1, SessionsInvariant, PTL DEF Spec, DeleteSpares

=============================================================================

------------------------------ MODULE Sessions ------------------------------
(***************************************************************************)
(* The sessions of one workspace over their life: the control plane's      *)
(* handlers that create, resume, attach to, stop, patch and delete one,    *)
(* the admission of a new one, the reports the task sends about them and   *)
(* the sweep that stops the idle ones on those reports.                    *)
(*                                                                         *)
(* Placing a task is Placement's, the handover of its tunnel Tunnels', and *)
(* what a command does inside the task Supervisor's.  Time is a tick; ages *)
(* are counted up to the longest timeout.                                  *)
(***************************************************************************)
EXTENDS Admission, FiniteSets

CONSTANTS
  Sessions,     \* session ids, each created once
  Requests,     \* handlers that run at a time
  WsTimeout,    \* the workspace's idle_timeout_secs, in ticks
  PatchValues,  \* the timeouts a client sends, in ticks
  Width,        \* values of an int32
  Longest,      \* bound: no timeout and no age counts further
  MaxFlight,    \* bound: reports, sweeps and stops begun and not over
  MaxSlack,     \* bound: ticks lost between a measurement and the stop it leads to
  Policies,     \* admission policies the workspace is given
  Memory,       \* what a report may say of free memory and of its limit
  ProcsOK,      \* whether the task has a /proc to walk
  Inherit,      \* an override that is NULL
  Unborn, Gone  \* no row yet, and no row any more

ASSUME SessionsAssumption ==
  /\ WsTimeout \in 0..Longest /\ PatchValues \subseteq Nat
  /\ Width \in Nat \ {0} /\ Width % 2 = 0
  /\ Longest \in Nat /\ MaxSlack \in Nat /\ MaxFlight \in Nat
  /\ IsFiniteSet(Sessions)
  /\ Policies \subseteq AdmissionPolicy
  /\ Memory \subseteq [free : Nat, limit : Nat]
  /\ ProcsOK \in BOOLEAN
  /\ {None, Inherit, Unborn, Gone} \cap Nat = {}
  /\ Unborn \notin {Inherit, Gone}

VARIABLES
  wsRow,      \* whether the workspace's row is there
  row,        \* session -> Unborn, Gone, or its idle_timeout_secs
  task,       \* whether the task runs
  tunnel,     \* whether its tunnel is registered
  proc,       \* session -> its process on the task
  output,     \* session -> ticks since it last wrote or called the model
  lastTool,   \* session -> ticks since a tool of its was seen running
  sent,       \* the report on its way, None
  report,     \* activityStore's report of the workspace, None
  sweep,      \* the reaper
  stops,      \* the reaper's commands that the task has not carried out
  req,        \* the handlers
  inUse       \* history: session -> ticks it has been attached to or had a tool

machine == <<task, tunnel>>
ages    == <<output, lastTool, inUse>>
records == <<wsRow, row>>
filed   == <<sent, report>>
reaper  == <<sweep, stops>>
vars    == <<records, machine, proc, ages, filed, reaper, req>>

Idle == [s |-> None, force |-> FALSE, pc |-> "idle", excused |-> FALSE]
NotSweeping == [pc |-> "idle", act |-> None, todo |-> {},
                slack |-> 0, out |-> {}]
NoProcess == [st |-> "none", att |-> FALSE, tool |-> FALSE]

(* A task's report: what it has left, and what each session is doing.  What  *)
(* is decided on it carries its slack along: the ticks the message took, the *)
(* sweep came after its ticker's time and took, and the command took.        *)
SessionActivity == [att : BOOLEAN, output : 0..Longest, tool : 0..Longest]
Activities == UNION {[D -> SessionActivity] : D \in SUBSET Sessions}
Headroom ==
  [age : 0..(FreshFor + MaxSlack + 1), slack : 0..MaxSlack,
   sessions : 0..Cardinality(Sessions), mem : Memory, act : Activities]

(* A session's row, its process, a handler and the reaper. *)
RowValue == {Unborn, Gone, Inherit} \cup 0..(Width \div 2 - 1)
SessionProcess == [st : {"none", "running", "stopping"}, att : BOOLEAN, tool : BOOLEAN]
Request ==
  [s : Sessions \cup {None}, force : BOOLEAN, excused : BOOLEAN,
   pc : {"idle", "insert", "start", "list", "kill", "drop"}]
Sweeper ==
  [pc : {"idle", "read", "act"}, act : Activities \cup {None},
   todo : SUBSET Sessions, out : SUBSET Sessions, slack : 0..MaxSlack]
StopCommand == [s : Sessions, slack : 0..MaxSlack, out : BOOLEAN]

Init ==
  /\ wsRow = TRUE /\ row = [s \in Sessions |-> Unborn]
  /\ task = FALSE /\ tunnel = FALSE
  /\ proc = [s \in Sessions |-> NoProcess]
  /\ output = [s \in Sessions |-> 0] /\ lastTool = [s \in Sessions |-> 0]
  /\ sent = None /\ report = None /\ sweep = NotSweeping /\ stops = {}
  /\ req = [r \in Requests |-> Idle]
  /\ inUse = [s \in Sessions |-> 0]

Recorded(s) == row[s] \notin {Unborn, Gone}
Live(s) == proc[s].st # "none"
Count == Cardinality({s \in Sessions : Live(s)})
Used(p) == p.st # "none" /\ (p.att \/ p.tool)
InFlight ==
  (IF sent = None THEN 0 ELSE 1) + (IF sweep.pc = "idle" THEN 0 ELSE 1)
    + Cardinality(stops)
Older(age, cap) == IF age < cap THEN age + 1 ELSE age

(* Whether the bookkeeping of the session goes: its process ended or starts. *)
Forgets(s, p) == p.st = "none" \/ proc[s].st = "none"

(* A process changes; what counts its use starts over when it ends. *)
SetProc(s, p) ==
  /\ proc' = [proc EXCEPT ![s] = p]
  /\ output' = [output EXCEPT ![s] = IF Forgets(s, p) THEN 0 ELSE @]
  /\ lastTool' = [lastTool EXCEPT ![s] = IF Forgets(s, p) THEN 0 ELSE @]
  /\ inUse' = [inUse EXCEPT ![s] = IF Used(p) THEN @ ELSE 0]

-----------------------------------------------------------------------------
(* idleTimeout, and what a patch stores *)

(* The timeout of a session with this override, 0 when it is off. *)
idleTimeout(override) == IF override = Inherit THEN WsTimeout ELSE override

(* int32(v); the column's check then refuses a negative one. *)
Int32(v) == ((v + Width \div 2) % Width) - Width \div 2

-----------------------------------------------------------------------------
(* The task, its tunnel and its processes *)

(* The tunnel goes, and with it its report; the commands handlers and the    *)
(* sweep still have for it fail, a handler's with 503.  The task may have    *)
(* read some of those that were sent.                                        *)
Severed ==
  /\ tunnel' = FALSE /\ sent' = None /\ report' = None
  /\ req' = [r \in Requests |->
       IF req[r].pc \in {"start", "list", "kill"} THEN Idle ELSE req[r]]
  /\ sweep' = [sweep EXCEPT !.todo = {}, !.out = {}]

TaskGone ==
  /\ task /\ task' = FALSE /\ Severed /\ stops' = {}
  /\ proc' = [s \in Sessions |-> NoProcess]
  /\ output' = [s \in Sessions |-> 0] /\ lastTool' = [s \in Sessions |-> 0]
  /\ inUse' = [s \in Sessions |-> 0]
  /\ UNCHANGED records

TunnelLost ==
  /\ tunnel /\ Severed /\ stops' \in SUBSET stops
  /\ UNCHANGED <<records, task, proc, ages>>

Redials ==
  /\ task /\ ~tunnel /\ tunnel' = TRUE
  /\ UNCHANGED <<records, task, proc, ages, filed, reaper, req>>

(* Output, or a request to the model. *)
Writes(s) ==
  /\ Live(s) /\ output[s] # 0
  /\ output' = [output EXCEPT ![s] = 0]
  /\ UNCHANGED <<records, machine, proc, lastTool, inUse, filed, reaper, req>>

ToolStarts(s) ==
  /\ Live(s) /\ ~proc[s].tool
  /\ SetProc(s, [proc[s] EXCEPT !.tool = TRUE])
  /\ UNCHANGED <<records, machine, filed, reaper, req>>

ToolEnds(s) ==
  /\ proc[s].tool
  /\ SetProc(s, [proc[s] EXCEPT !.tool = FALSE])
  /\ UNCHANGED <<records, machine, filed, reaper, req>>

Detaches(s) ==
  /\ proc[s].att
  /\ SetProc(s, [proc[s] EXCEPT !.att = FALSE])
  /\ UNCHANGED <<records, machine, filed, reaper, req>>

Exits(s) ==
  /\ Live(s)
  /\ SetProc(s, NoProcess)
  /\ UNCHANGED <<records, machine, filed, reaper, req>>

(* The clock.  What has used up its slack is done first. *)
Tick ==
  /\ sent # None => sent.slack < MaxSlack
  /\ sweep.pc # "idle" => sweep.slack < MaxSlack
  /\ \A m \in stops : m.slack < MaxSlack
  /\ output' = [s \in Sessions |->
       IF Live(s) THEN Older(output[s], Longest) ELSE output[s]]
  /\ lastTool' = [s \in Sessions |->
       IF Live(s) THEN Older(lastTool[s], Longest) ELSE lastTool[s]]
  /\ inUse' = [s \in Sessions |->
       IF Used(proc[s]) THEN Older(inUse[s], FreshFor + MaxSlack + 1) ELSE 0]
  /\ report' = IF report = None THEN None
               ELSE [report EXCEPT !.age = Older(@, FreshFor + MaxSlack - report.slack + 1)]
  /\ sent' = IF sent = None THEN None ELSE [sent EXCEPT !.slack = @ + 1]
  /\ sweep' = IF sweep.pc = "idle" THEN sweep ELSE [sweep EXCEPT !.slack = @ + 1]
  /\ stops' = {[m EXCEPT !.slack = @ + 1] : m \in stops}
  /\ UNCHANGED <<records, machine, proc, req>>

(* Slip: a session without a tool is seeded with the time of the look. *)
ObserveNow(s, toolRunning) == 0

(* activityTracker: seeded with the session's start. *)
observe(s, toolRunning) == IF toolRunning THEN 0 ELSE lastTool[s]

(* Without /proc a tool counts as running. *)
hasRunningTool(s) == ~ProcsOK \/ proc[s].tool

(* Every live session's last signals, as durations. *)
sessionActivity ==
  [s \in {x \in Sessions : Live(x)} |->
     [att |-> proc[s].att, output |-> output[s],
      tool |-> observe(s, hasRunningTool(s))]]

(* Bound: the next report after a tick at the earliest. *)
OneATick == report # None => report.age > 0

(* reportHeadroom's message. *)
Measure(mem) ==
  /\ tunnel /\ sent = None /\ InFlight < MaxFlight
  /\ OneATick
  /\ lastTool' = [s \in Sessions |->
       IF Live(s) THEN observe(s, hasRunningTool(s)) ELSE lastTool[s]]
  /\ sent' = [age |-> 0, slack |-> 0, sessions |-> Count, mem |-> mem,
              act |-> sessionActivity]
  /\ UNCHANGED <<records, machine, proc, output, inUse, report, reaper, req>>

(* handleEvent: ReceivedAt is the time of the filing, not of the look. *)
File ==
  /\ sent # None
  /\ report' = sent /\ sent' = None
  /\ UNCHANGED <<records, machine, proc, ages, reaper, req>>

-----------------------------------------------------------------------------
(* The handlers *)

Begin(r, s, force, pc) ==
  /\ req[r].pc = "idle"
  /\ req' = [req EXCEPT ![r] = [Idle EXCEPT !.s = s, !.force = force, !.pc = pc]]
Returns(r) == req' = [req EXCEPT ![r] = Idle]
Goto(r, pc) == req' = [req EXCEPT ![r] = [Idle EXCEPT !.s = req[r].s, !.pc = pc]]

(* ensureWorkspace and checkPreflight: the tunnel that is there, or that of  *)
(* a task placed now.  A request that fails here has changed no session.     *)
Ensured ==
  /\ task => tunnel
  /\ task' = TRUE /\ tunnel' = TRUE

(* handleCreateSession, admitted by the policy of the moment.  A refusal     *)
(* changes nothing.                                                          *)
Create(r, s) ==
  /\ wsRow /\ row[s] = Unborn
  /\ \A q \in Requests : req[q].s # s
  /\ \E p \in Policies : admits(p, report)
  /\ Ensured
  /\ Begin(r, s, FALSE, "insert")
  /\ UNCHANGED <<records, proc, ages, filed, reaper>>

(* handleResumeSession. *)
Resume(r, s) ==
  /\ Recorded(s)
  /\ Ensured
  /\ Begin(r, s, FALSE, "start")
  /\ UNCHANGED <<records, proc, ages, filed, reaper>>

(* 503: a command, or the statement before it, that fails without having     *)
(* been done.                                                                *)
Fails(r) ==
  /\ req[r].pc \in {"insert", "start", "kill", "drop"}
  /\ Returns(r)
  /\ UNCHANGED <<records, machine, proc, ages, filed, reaper>>

(* createSessionRecord; the workspace may have gone. *)
Insert(r) ==
  /\ req[r].pc = "insert"
  /\ row' = [row EXCEPT ![req[r].s] = IF wsRow THEN Inherit ELSE Gone]
  /\ Returns(r)
  /\ UNCHANGED <<wsRow, machine, proc, ages, filed, reaper>>

(* A process forked or found; a delete that has looked already is excused    *)
(* from having seen it (history).                                            *)
Excused(s) ==
  [q \in Requests |-> [req[q] EXCEPT !.excused =
     @ \/ (req[q].s = s /\ req[q].pc = "kill" /\ ~req[q].force)]]

(* MsgStartSession: the process there is, or a new one. *)
Start(r) ==
  /\ req[r].pc = "start"
  /\ LET s == req[r].s
     IN  /\ SetProc(s, IF Live(s) THEN proc[s] ELSE [NoProcess EXCEPT !.st = "running"])
         /\ req' = [Excused(s) EXCEPT ![r] = Idle]
  /\ UNCHANGED <<records, machine, filed, reaper>>

(* A client attaches through the relay, which creates the process when there *)
(* is none.  The credential was minted while there was a row.                *)
Attaches(s) ==
  /\ task /\ row[s] # Unborn /\ ~proc[s].att
  /\ SetProc(s, [proc[s] EXCEPT !.att = TRUE,
                                !.st = IF Live(s) THEN @ ELSE "running"])
  /\ req' = Excused(s)
  /\ UNCHANGED <<records, machine, filed, reaper>>

(* What a stop does to the process: SIGHUP, or SIGKILL. *)
Stopped(s, force) ==
  IF force \/ ~Live(s) THEN NoProcess ELSE [proc[s] EXCEPT !.st = "stopping"]

(* handleStopSession: with no tunnel, or no process, it is stopped already.  *)
Stop(s, force) ==
  /\ Recorded(s) /\ tunnel /\ Live(s)
  /\ SetProc(s, Stopped(s, force))
  /\ UNCHANGED <<records, machine, filed, reaper, req>>

(* handlePatchSession. *)
Patch(s, v) ==
  /\ Recorded(s) /\ row[s] # v
  /\ v # Inherit => Int32(v) >= 0
  /\ row' = [row EXCEPT ![s] = IF v = Inherit THEN v ELSE Int32(v)]
  /\ sweep' = [sweep EXCEPT !.out = @ \ {s}]
  /\ UNCHANGED <<wsRow, machine, proc, ages, filed, stops, req>>

(* handleDeleteSession: without a tunnel only a forced one goes on. *)
Delete(r, s, force) ==
  /\ Recorded(s) /\ (tunnel \/ force)
  /\ IF tunnel THEN Begin(r, s, force, IF force THEN "kill" ELSE "list")
     ELSE Begin(r, s, FALSE, "drop")
  /\ UNCHANGED <<records, machine, proc, ages, filed, reaper>>

(* Slip: only a session somebody is attached to is still running. *)
RefusesAttached(s) == proc[s].att

RefusesLive(s) == Live(s)

(* liveSessions: 409 for a live session. *)
List(r) ==
  /\ req[r].pc = "list"
  /\ IF RefusesLive(req[r].s) THEN Returns(r)
     ELSE req' = [req EXCEPT ![r].pc = "kill"]
  /\ UNCHANGED <<records, machine, proc, ages, filed, reaper>>

(* The listing fails, which reads like an empty one. *)
ListFails(r) ==
  /\ req[r].pc = "list"
  /\ req' = [req EXCEPT ![r].pc = "kill", ![r].excused = TRUE]
  /\ UNCHANGED <<records, machine, proc, ages, filed, reaper>>

(* MsgDeleteSession; the answer may be lost. *)
Kill(r) ==
  /\ req[r].pc = "kill"
  /\ SetProc(req[r].s, NoProcess)
  /\ Goto(r, "drop") \/ Returns(r)
  /\ UNCHANGED <<records, machine, filed, reaper>>

Drop(r) ==
  /\ req[r].pc = "drop"
  /\ row' = [row EXCEPT ![req[r].s] = Gone]
  /\ Returns(r)
  /\ UNCHANGED <<wsRow, machine, proc, ages, filed, reaper>>

(* The workspace's row goes once its task is stopped, and its sessions' with *)
(* it.                                                                       *)
DeleteWorkspace ==
  /\ wsRow /\ ~task /\ wsRow' = FALSE
  /\ row' = [s \in Sessions |-> IF Recorded(s) THEN Gone ELSE row[s]]
  /\ UNCHANGED <<machine, proc, ages, filed, reaper, req>>
-----------------------------------------------------------------------------
(* sweep, for this workspace *)

(* Slip: any report will do. *)
HaveReport(rep, lag) == rep # None

(* Fresh by the time the ticker fired, lag ticks ago: behind a slow sweep    *)
(* that is a tick it had missed.                                             *)
Actionable(rep, lag) == rep # None /\ rep.age - lag <= FreshFor

(* The reports are copied; silence is not idle. *)
SweepBegins ==
  /\ sweep.pc = "idle" /\ report # None /\ InFlight < MaxFlight
  /\ \E lag \in 0..(MaxSlack - report.slack) :
       /\ Actionable(report, lag)
       /\ sweep' = [NotSweeping EXCEPT !.pc = "read", !.act = report.act,
            !.slack = report.slack + lag,
            !.out = {s \in Sessions : Recorded(s) /\ idleTimeout(row[s]) = 0}]
  /\ UNCHANGED <<records, machine, proc, ages, filed, stops, req>>

classify(a, timeout) ==
  IF a.att \/ a.output < timeout THEN "busy"
  ELSE IF a.tool < timeout THEN "pinned" ELSE "idle"

(* What the sweep makes of a reported session: one without a record is not   *)
(* ours, one that is opted out is busy.                                      *)
State(s) ==
  IF ~Recorded(s) THEN "unknown"
  ELSE IF idleTimeout(row[s]) = 0 THEN "busy"
  ELSE classify(sweep.act[s], idleTimeout(row[s]))

(* getWorkspaceByName, and stopIdleSessions' look at the overrides and for   *)
(* the tunnel.                                                               *)
SweepReads ==
  /\ sweep.pc = "read" /\ wsRow
  /\ LET idle == {s \in DOMAIN sweep.act : State(s) = "idle"}
     IN  /\ DOMAIN sweep.act # {} => tunnel
         /\ sweep' = [sweep EXCEPT !.pc = "act", !.act = None,
              !.todo = idle, !.out = @ \cap idle]
  /\ UNCHANGED <<records, machine, proc, ages, filed, stops, req>>

(* Without overrides or a tunnel nothing is stopped. *)
SweepBlind ==
  /\ sweep.pc = "read" /\ wsRow /\ DOMAIN sweep.act # {}
  /\ sweep' = [sweep EXCEPT !.pc = "act", !.act = None, !.out = {}]
  /\ UNCHANGED <<records, machine, proc, ages, filed, stops, req>>

(* A workspace that cannot be read counts as deleted. *)
SweepForgets ==
  /\ sweep.pc = "read"
  /\ sweep' = NotSweeping /\ report' = None
  /\ UNCHANGED <<records, machine, proc, ages, sent, stops, req>>

(* The stop is sent, and the sweep goes on with its answer or without one    *)
(* when that takes longer than the command waits; ...                        *)
SweepStops(s) ==
  /\ s \in sweep.todo
  /\ stops' = stops \cup {[s |-> s, slack |-> sweep.slack, out |-> s \in sweep.out]}
  /\ sweep' = [sweep EXCEPT !.todo = @ \ {s}]
  /\ UNCHANGED <<records, machine, proc, ages, filed, req>>

(* ... one that cannot be sent is left for the next sweep. *)
SweepMisses(s) ==
  /\ s \in sweep.todo
  /\ sweep' = [sweep EXCEPT !.todo = @ \ {s}]
  /\ UNCHANGED <<records, machine, proc, ages, filed, stops, req>>

(* The task stops whatever process the id has by now. *)
StopArrives(m) ==
  /\ m \in stops /\ stops' = stops \ {m}
  /\ SetProc(m.s, Stopped(m.s, FALSE))
  /\ UNCHANGED <<records, machine, filed, sweep, req>>

(* notePinned, whether it writes or fails: the column it keeps is shown and  *)
(* never read.  The warm hold that follows is Placement's.                   *)
SweepNotes ==
  /\ sweep.pc = "act" /\ sweep.todo = {}
  /\ sweep' = NotSweeping
  /\ UNCHANGED <<records, machine, proc, ages, filed, stops, req>>

-----------------------------------------------------------------------------
Handler(r) ==
  \/ Insert(r) \/ Start(r) \/ Fails(r)
  \/ List(r) \/ ListFails(r) \/ Kill(r) \/ Drop(r)

Asked(r, s) ==
  \/ Create(r, s) \/ Resume(r, s)
  \/ \E force \in BOOLEAN : Delete(r, s, force)

Process(s) ==
  \/ Writes(s) \/ Attaches(s) \/ ToolStarts(s) \/ ToolEnds(s) \/ Detaches(s) \/ Exits(s)
  \/ \E force \in BOOLEAN : Stop(s, force)

Measures == \E mem \in Memory : Measure(mem)

StopsArrive(s) == \E m \in stops : m.s = s /\ StopArrives(m)

Sweeps ==
  \/ SweepBegins \/ SweepReads \/ SweepBlind \/ SweepForgets
  \/ SweepNotes
  \/ \E s \in Sessions : SweepStops(s) \/ SweepMisses(s)

Next ==
  \/ TaskGone \/ TunnelLost \/ Redials \/ Tick \/ Measures \/ File \/ Sweeps
  \/ DeleteWorkspace
  \/ \E r \in Requests : Handler(r) \/ \E s \in Sessions : Asked(r, s)
  \/ \E s \in Sessions :
       Process(s) \/ StopsArrive(s) \/ \E v \in PatchValues \cup {Inherit} : Patch(s, v)

Spec == Init /\ [][Next]_vars

(* The clock goes on, the task reports on its ticker and the reaper sweeps   *)
(* on its own, a report and a command that are sent arrive; what can fail    *)
(* does not fail every time; a process that was hung up on exits.  Nothing   *)
(* is assumed of clients, tools, tunnels or handlers.                        *)
Fairness ==
  /\ SF_vars(Tick) /\ SF_vars(Measures) /\ WF_vars(File) /\ WF_vars(Sweeps)
  /\ SF_vars(SweepBegins) /\ SF_vars(SweepReads)
  /\ \A s \in Sessions : /\ SF_vars(SweepStops(s)) /\ WF_vars(StopsArrive(s))
                          /\ WF_vars(proc[s].st = "stopping" /\ Exits(s))

FairSpec == Spec /\ Fairness

-----------------------------------------------------------------------------
(* Types.  A stored override is one the column holds: handlePatchSession     *)
(* cuts the client's number to 32 bits, and a negative one is refused.       *)
TypeOK ==
  /\ wsRow \in BOOLEAN /\ task \in BOOLEAN /\ tunnel \in BOOLEAN
  /\ tunnel => task
  /\ row \in [Sessions -> RowValue]
  /\ proc \in [Sessions -> SessionProcess]
  /\ output \in [Sessions -> 0..Longest] /\ lastTool \in [Sessions -> 0..Longest]
  /\ inUse \in [Sessions -> 0..(FreshFor + MaxSlack + 1)]
  /\ sent \in Headroom \cup {None} /\ report \in Headroom \cup {None}
  /\ sweep \in Sweeper /\ stops \subseteq StopCommand
  /\ req \in [Requests -> Request]

SweptDown(m) ==
  m \notin stops' /\ proc[m.s].st = "running" /\ proc'[m.s].st = "stopping"

(* The reaper stops a session for being idle only if it has been attached to *)
(* or has had a tool running for no longer than a report counts as fresh and *)
(* what this stop lost on its way: the report's delivery, the ticker's lag,  *)
(* the sweep and the command, each of which the code leaves open.  One that  *)
(* was opted out when the sweep began and was left so is not stopped at all  *)
(* (stopIdleSessions, classify, fresh, activityTracker).                     *)
SweepSpares ==
  [][\A m \in stops : SweptDown(m) =>
       inUse[m.s] <= FreshFor + m.slack /\ ~m.out]_vars

KilledUnforced(r) ==
  /\ req[r].pc = "kill" /\ ~req[r].force /\ req'[r].pc # "kill"
  /\ Live(req[r].s) /\ proc'[req[r].s] = NoProcess

(* An unforced delete ends no process that its own listing could have shown: *)
(* only one started since, or when the listing failed (handleDeleteSession). *)
DeleteSpares ==
  [][\A r \in Requests : KilledUnforced(r) => req[r].excused]_vars

(* A session that nobody is attached to, that writes nothing and runs no     *)
(* tool does not stay for ever in a task that reports (the reaper).          *)
Abandoned(s) ==
  /\ tunnel /\ wsRow /\ Recorded(s) /\ idleTimeout(row[s]) > 0
  /\ proc[s].st = "running" /\ ~Used(proc[s]) /\ output[s] = Longest
IdleIsStopped == \A s \in Sessions : []<>~Abandoned(s)
=============================================================================

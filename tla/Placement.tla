------------------------------ MODULE Placement ------------------------------
(***************************************************************************)
(* One workspace name: its database row, the placements that want a task   *)
(* behind it (mgmtapi.ensureWorkspace), the customer's runner that starts  *)
(* and stops the task, the task itself dialling in with a credential bound *)
(* to a generation, the idle reaper that stops it, and the delete handler. *)
(*                                                                         *)
(* A process is one goroutine of the control plane: a request or a         *)
(* background placement (Callers), or the reaper.  Each action is the code *)
(* between two points where another goroutine can run: a database          *)
(* statement, a command on a tunnel, a wait.  A process works on ws[p],    *)
(* the copy of the row it read first, exactly as the handlers do.          *)
(*                                                                         *)
(* A task reference (an ECS ARN) is opaque; here it is the placement that  *)
(* created it, the record's incarnation and the generation it carries.     *)
(* Incarnations tell a deleted workspace from one created later under the  *)
(* same name: in the code they are the row's uuid.                         *)
(***************************************************************************)
EXTENDS Integers, FiniteSets

CONSTANTS
  Callers,      \* goroutines that may place or delete
  Reaper,       \* the sweeper goroutine
  None,         \* SQL NULL, an empty Go string
  MaxInc,       \* bound: how often the name is created
  MaxGen,       \* bound: generations of one incarnation
  MaxRestarts,  \* bound: restarts of the control plane
  Reaping,      \* whether the idle reaper runs
  Deleting,     \* whether the workspace may be deleted
  Faults        \* the failures the environment may produce, see Fault

Fault == {"db",       \* a statement fails, or the request's context is done
          "link",     \* the runner's tunnel goes down
          "answer",   \* a command's reply misses its deadline
          "start",    \* RunTask places nothing
          "stop",     \* StopTask is refused
          "preserve", \* the disk cannot be snapshotted, or not deleted
          "lookup",   \* ListTasks fails, or misses a task
          "token",    \* a client token outlives ECS's memory of it
          "drop",     \* a workspace tunnel drops
          "exit"}     \* a task dies by itself

ASSUME PlacementAssumption ==
  /\ Reaper \notin Callers
  /\ MaxInc \in Nat \ {0} /\ MaxGen \in Nat \ {0} /\ MaxRestarts \in Nat
  /\ Reaping \in BOOLEAN /\ Deleting \in BOOLEAN
  /\ Faults \subseteq Fault
  /\ None \notin Callers \cup {Reaper}
  /\ None \notin [inc : 1..MaxInc, gen : 1..MaxGen]

VARIABLES
  row,       \* the workspace's database row
  pc, ws,    \* per process: where it is, and the row as it read it
  gen,       \* per process: the generation it took
  ans,       \* per process: the reply to the command it is waiting on
  wake,      \* per process: whether its registry waiter was handed a tunnel
  lock,      \* who holds the workspace's ensureLocks mutex
  startReq,  \* start_workspace commands in the runner's hands
  stopReq,   \* stop_workspace commands in the runner's hands
  life,      \* per reference: whether the task runs, or was told to stop
  conn,      \* per reference: the task's control tunnel
  vols,      \* EBS volumes that exist, by the task they belong to
  snaps,     \* snapshots that exist, by the task whose disk they hold
  report,    \* the activity store's entry for this workspace, while fresh
  seen,      \* the report the sweep under way read
  runnerUp,  \* whether the organization's runner holds a tunnel
  restarts,  \* control plane restarts so far
  tokens,    \* tasks whose client token ECS remembers
  blind      \* history: tasks placed beside one the lookup missed

procVars == <<pc, ws, gen, ans, wake, lock, seen>>
reqVars  == <<startReq, stopReq>>
taskVars == <<life, conn>>
diskVars == <<vols, snaps>>
ecsVars  == <<tokens, blind>>
vars == <<row, procVars, reqVars, taskVars, diskVars, report, runnerUp,
          restarts, ecsVars>>

Proc == Callers \cup {Reaper}
Ref  == [inc : 1..MaxInc, gen : 1..MaxGen]
Row  == [live   : BOOLEAN, inc : 0..MaxInc,
         status : {"stopped", "starting", "active"},
         ref    : Ref \cup {None}, gen : 0..MaxGen,
         snap   : Ref \cup {None}, failed : BOOLEAN,
         hold   : {"none", "running", "expired"}]
Label == {"idle", "lock", "grace", "place", "send", "command", "dispatch",
          "wait", "stop", "stopping", "drop", "collect", "delete", "sweep", "reaped"}
Answer == [kind : {"none", "ok", "error"}, ref : Ref \cup {None}]

NoAnswer == [kind |-> "none", ref |-> None]
Ok(r)    == [kind |-> "ok", ref |-> r]
Error    == [kind |-> "error", ref |-> None]

(* The row of a workspace just inserted, schema.sql's defaults. *)
Inserted(i, status) ==
  [live |-> TRUE, inc |-> i, status |-> status, ref |-> None, gen |-> 0,
   snap |-> None, failed |-> FALSE, hold |-> "none"]
NoRow == [live |-> FALSE, inc |-> 0, status |-> "stopped", ref |-> None,
          gen |-> 0, snap |-> None, failed |-> FALSE, hold |-> "none"]

Tunnels == {r \in Ref : conn[r] = "up"}
(* A statement's outcomes: with the "db" fault it may also fail. *)
DbOutcome == IF "db" \in Faults THEN BOOLEAN ELSE {TRUE}

Init ==
  /\ row = NoRow
  /\ pc = [p \in Proc |-> "idle"]
  /\ ws = [p \in Proc |-> NoRow]
  /\ gen = [p \in Proc |-> 0]
  /\ ans = [p \in Proc |-> NoAnswer]
  /\ wake = [p \in Proc |-> FALSE]
  /\ lock = None
  /\ startReq = {} /\ stopReq = {}
  /\ life = [r \in Ref |-> "none"]
  /\ conn = [r \in Ref |-> "down"]
  /\ vols = {} /\ snaps = {}
  /\ report = "none" /\ seen = "none"
  /\ runnerUp = TRUE
  /\ restarts = 0
  /\ tokens = {} /\ blind = {}

-----------------------------------------------------------------------------
(* Database statements.  Each is WHERE id = $1, so it misses a row that was *)
(* deleted, even when the name has been created again.                      *)

(* (Slip: WHERE name = $1.)                                                  *)
HitByName(p) == row.live
Hit(p) == row.live /\ row.inc = ws[p].inc

(* setWorkspaceStatus clears last_error, failWorkspacePlacement sets it. *)
WithStatus(status, ref, failed) ==
  [row EXCEPT !.status = status, !.ref = ref, !.failed = failed]
SetStatus(p, status, ref, failed) ==
  \E ok \in DbOutcome :
    row' = IF ok /\ Hit(p) THEN WithStatus(status, ref, failed) ELSE row

(* UPDATE workspace SET generation = generation + 1 ... RETURNING.  (Slip:   *)
(* counting on from the copy.)                                               *)
NextGenerationStale(p) == ws[p].gen + 1
NextGeneration(p) == row.gen + 1

-----------------------------------------------------------------------------
(* ensureWorkspace *)

(* A handler or goroutine ends, and its locals with it. *)
Ends(p) == /\ pc' = [pc EXCEPT ![p] = "idle"]
           /\ ws' = [ws EXCEPT ![p] = NoRow]
           /\ gen' = [gen EXCEPT ![p] = 0]
           /\ ans' = [ans EXCEPT ![p] = NoAnswer]
           /\ wake' = [wake EXCEPT ![p] = FALSE]

(* Leaving ensureWorkspace: the deferred unlock.  (Slip: it is forgotten.) *)
ReturnLocked(p) == Ends(p) /\ UNCHANGED lock
Return(p) == Ends(p) /\ lock' = None

(* notePlacementFailure: may a task exist?  It answers from the caller's own *)
(* copy of the row.  (Slip: a status the schema does not know.)              *)
FailureStatusFailed(p, dispatched) ==
  IF dispatched # None THEN "starting" ELSE "failed"
FailureStatus(p, dispatched) ==
  IF dispatched # None THEN "starting"
  ELSE IF ws[p].ref # None THEN ws[p].status ELSE "stopped"
FailureRef(p, dispatched) ==
  IF dispatched # None THEN dispatched ELSE ws[p].ref
NotePlacementFailure(p, dispatched) ==
  /\ SetStatus(p, FailureStatus(p, dispatched), FailureRef(p, dispatched), TRUE)
  /\ Return(p)

(* handleCreateWorkspace: the insert, then startPlacement's synchronous     *)
(* "starting" and the goroutine that places with the record it was handed.  *)
CreateWorkspace(p) ==
  /\ pc[p] = "idle" /\ ~row.live /\ row.inc < MaxInc
  /\ \E ok \in DbOutcome :
       LET new == Inserted(row.inc + 1, IF ok THEN "starting" ELSE "stopped")
       IN /\ row' = new
          /\ ws' = [ws EXCEPT ![p] = new]
  /\ pc' = [pc EXCEPT ![p] = "lock"]
  /\ UNCHANGED <<gen, ans, wake, lock, seen, reqVars, taskVars, diskVars,
                 report, runnerUp, restarts, ecsVars>>

(* requireWorkspace: the row is read, long before the lock is held. *)
ReadWorkspace(p) ==
  /\ pc[p] = "idle" /\ row.live
  /\ ws' = [ws EXCEPT ![p] = row]
  /\ pc' = [pc EXCEPT ![p] = "lock"]
  /\ UNCHANGED <<row, gen, ans, wake, lock, seen, reqVars, taskVars,
                 diskVars, report, runnerUp, restarts, ecsVars>>

(* Locked, and a tunnel is registered: that is the answer. *)
PickHit(p) ==
  /\ pc[p] = "lock" /\ lock = None
  /\ Tunnels # {}
  /\ Ends(p)
  /\ UNCHANGED <<row, lock, seen, reqVars, taskVars, diskVars, report,
                 runnerUp, restarts, ecsVars>>

MayReconnect(p) == ws[p].ref # None /\ ws[p].status \in {"active", "starting"}

(* Locked, and no tunnel: wait out the reconnect grace when the record names *)
(* a task, else place.  (Slip: ensureLocks not taken.)                       *)
LockIgnored(p) == TRUE
LockFree(p) == lock = None
PickMiss(p) ==
  /\ pc[p] = "lock" /\ LockFree(p)
  /\ Tunnels = {}
  /\ lock' = p
  /\ wake' = [wake EXCEPT ![p] = FALSE]
  /\ pc' = [pc EXCEPT ![p] = IF MayReconnect(p) THEN "grace" ELSE "place"]
  /\ UNCHANGED <<row, ws, gen, ans, seen, reqVars, taskVars, diskVars,
                 report, runnerUp, restarts, ecsVars>>

GraceHit(p) ==
  /\ pc[p] = "grace" /\ wake[p]
  /\ Return(p)
  /\ UNCHANGED <<row, seen, reqVars, taskVars, diskVars, report, runnerUp,
                 restarts, ecsVars>>

(* The grace ends.  A tunnel handed over at the same moment may lose: the    *)
(* select takes either ready case.                                           *)
GraceOver(p) ==
  /\ pc[p] = "grace"
  /\ pc' = [pc EXCEPT ![p] = "place"]
  /\ UNCHANGED <<row, ws, gen, ans, wake, lock, seen, reqVars, taskVars,
                 diskVars, report, runnerUp, restarts, ecsVars>>

NoRunner(p) ==
  /\ pc[p] = "place" /\ ~runnerUp
  /\ NotePlacementFailure(p, None)
  /\ UNCHANGED <<seen, reqVars, taskVars, diskVars, report, runnerUp,
                 restarts, ecsVars>>

(* PickRunner answered; nextGeneration. *)
TakeGeneration(p) ==
  /\ pc[p] = "place" /\ runnerUp
  /\ Hit(p) /\ NextGeneration(p) <= MaxGen
  /\ row' = [row EXCEPT !.gen = NextGeneration(p)]
  /\ gen' = [gen EXCEPT ![p] = NextGeneration(p)]
  /\ pc' = [pc EXCEPT ![p] = "send"]
  /\ UNCHANGED <<ws, ans, wake, lock, seen, reqVars, taskVars, diskVars,
                 report, runnerUp, restarts, ecsVars>>

NoGeneration(p) ==
  /\ pc[p] = "place" /\ runnerUp
  /\ ~Hit(p) \/ "db" \in Faults
  /\ NotePlacementFailure(p, None)
  /\ UNCHANGED <<seen, reqVars, taskVars, diskVars, report, runnerUp,
                 restarts, ecsVars>>

(* The bound MaxGen: a caller that would pass it gives up, changing nothing. *)
OutOfGenerations(p) ==
  /\ pc[p] = "place" /\ runnerUp
  /\ Hit(p) /\ NextGeneration(p) > MaxGen
  /\ Return(p)
  /\ UNCHANGED <<row, seen, reqVars, taskVars, diskVars, report, runnerUp,
                 restarts, ecsVars>>

(* The row says "starting", with no reference. *)
MarkStarting(p) ==
  /\ pc[p] = "send"
  /\ SetStatus(p, "starting", None, FALSE)
  /\ pc' = [pc EXCEPT ![p] = "command"]
  /\ UNCHANGED <<ws, gen, ans, wake, lock, seen, reqVars, taskVars, diskVars,
                 report, runnerUp, restarts, ecsVars>>

(* The command goes out, carrying the snapshot of the caller's copy. *)
SendStart(p) ==
  /\ pc[p] = "command" /\ runnerUp
  /\ startReq' = startReq \cup
       {[inc |-> ws[p].inc, gen |-> gen[p], snap |-> ws[p].snap]}
  /\ ans' = [ans EXCEPT ![p] = NoAnswer]
  /\ pc' = [pc EXCEPT ![p] = "dispatch"]
  /\ UNCHANGED <<row, ws, gen, wake, lock, seen, stopReq, taskVars, diskVars,
                 report, runnerUp, restarts, ecsVars>>

(* The runner's tunnel closed since PickRunner: Open fails. *)
SendFail(p) ==
  /\ pc[p] = "command" /\ ~runnerUp
  /\ NotePlacementFailure(p, None)
  /\ UNCHANGED <<seen, reqVars, taskVars, diskVars, report, runnerUp,
                 restarts, ecsVars>>

(* The runner answered with a reference: record it and wait for the tunnel. *)
Dispatched(p) ==
  /\ pc[p] = "dispatch" /\ ans[p].kind = "ok"
  /\ SetStatus(p, "starting", ans[p].ref, FALSE)
  /\ wake' = [wake EXCEPT ![p] = Tunnels # {}]
  /\ pc' = [pc EXCEPT ![p] = "wait"]
  /\ UNCHANGED <<ws, gen, ans, lock, seen, reqVars, taskVars, diskVars,
                 report, runnerUp, restarts, ecsVars>>

(* The runner refused, its tunnel closed, or its answer missed the 60 s      *)
(* deadline.                                                                 *)
DispatchFail(p) ==
  /\ pc[p] = "dispatch"
  /\ ans[p].kind = "error" \/ ~runnerUp \/ "answer" \in Faults
  /\ NotePlacementFailure(p, None)
  /\ UNCHANGED <<seen, reqVars, taskVars, diskVars, report, runnerUp,
                 restarts, ecsVars>>

WaitHit(p) ==
  /\ pc[p] = "wait" /\ wake[p]
  /\ SetStatus(p, "active", ans[p].ref, FALSE)
  /\ Return(p)
  /\ UNCHANGED <<seen, reqVars, taskVars, diskVars, report, runnerUp,
                 restarts, ecsVars>>

(* StartTimeout passed: the task may be slow rather than dead. *)
WaitOver(p) ==
  /\ pc[p] = "wait"
  /\ NotePlacementFailure(p, ans[p].ref)
  /\ UNCHANGED <<seen, reqVars, taskVars, diskVars, report, runnerUp,
                 restarts, ecsVars>>

Ensure(p) ==
  \/ ReadWorkspace(p) \/ PickHit(p) \/ PickMiss(p)
  \/ GraceHit(p) \/ GraceOver(p)
  \/ NoRunner(p) \/ TakeGeneration(p) \/ NoGeneration(p)
  \/ OutOfGenerations(p) \/ MarkStarting(p) \/ SendStart(p) \/ SendFail(p)
  \/ Dispatched(p) \/ DispatchFail(p) \/ WaitHit(p) \/ WaitOver(p)

-----------------------------------------------------------------------------
(* stopTask, for the reaper (keep the disk) and for delete (drop it). *)

StopDone(p) == IF p = Reaper THEN "reaped" ELSE "collect"

(* No reference, or no runner: silently nothing. *)
StopSkip(p) ==
  /\ pc[p] = "stop"
  /\ ws[p].ref = None \/ ~runnerUp
  /\ pc' = [pc EXCEPT ![p] = StopDone(p)]
  /\ UNCHANGED <<row, ws, gen, ans, wake, lock, seen, reqVars, taskVars,
                 diskVars, report, runnerUp, restarts, ecsVars>>

StopSend(p) ==
  /\ pc[p] = "stop"
  /\ ws[p].ref # None /\ runnerUp
  /\ stopReq' = stopReq \cup {[by |-> p, ref |-> ws[p].ref, stage |-> "sent"]}
  /\ ans' = [ans EXCEPT ![p] = NoAnswer]
  /\ pc' = [pc EXCEPT ![p] = "stopping"]
  /\ UNCHANGED <<row, ws, gen, wake, lock, seen, startReq, taskVars,
                 diskVars, report, runnerUp, restarts, ecsVars>>

StopFail(p) ==
  /\ pc[p] = "stopping"
  /\ ans[p].kind = "error" \/ ~runnerUp \/ "answer" \in Faults
  /\ pc' = [pc EXCEPT ![p] = StopDone(p)]
  /\ UNCHANGED <<row, ws, gen, ans, wake, lock, seen, reqVars, taskVars,
                 diskVars, report, runnerUp, restarts, ecsVars>>

(* preserveDisk.record: the row names the new snapshot before anything       *)
(* touches the one it displaced, which ans[p] then holds.  (Slip: RETURNING  *)
(* gives the column's new value.)                                            *)
DisplacedNew(p) == ans[p].ref
Displaced(p) == IF row.snap = ans[p].ref THEN None ELSE row.snap
StopRecord(p) ==
  /\ pc[p] = "stopping" /\ ans[p].kind = "ok"
  /\ \E ok \in DbOutcome :
       IF p = Reaper /\ ans[p].ref # None /\ ok /\ Hit(p)
         THEN /\ row' = [row EXCEPT !.snap = ans[p].ref]
              /\ ans' = [ans EXCEPT ![p] = Ok(Displaced(p))]
              /\ pc' = [pc EXCEPT ![p] =
                          IF Displaced(p) = None THEN "reaped" ELSE "drop"]
         ELSE /\ pc' = [pc EXCEPT ![p] = StopDone(p)]
              /\ UNCHANGED <<row, ans>>
  /\ UNCHANGED <<ws, gen, wake, lock, seen, reqVars, taskVars, diskVars,
                 report, runnerUp, restarts, ecsVars>>

(* drop_snapshot, best effort: out of reach it leaks. *)
DropSnapshot(s) ==
  \/ runnerUp /\ snaps' = snaps \ {s}
  \/ (~runnerUp \/ Faults \cap {"answer", "stop"} # {}) /\ UNCHANGED snaps

DropDisplaced(p) ==
  /\ pc[p] = "drop"
  /\ DropSnapshot(ans[p].ref)
  /\ pc' = [pc EXCEPT ![p] = StopDone(p)]
  /\ UNCHANGED <<row, ws, gen, ans, wake, lock, seen, reqVars, taskVars,
                 vols, report, runnerUp, restarts, ecsVars>>

StopTask(p) ==
  StopSkip(p) \/ StopSend(p) \/ StopFail(p) \/ StopRecord(p) \/ DropDisplaced(p)

-----------------------------------------------------------------------------
(* handleDeleteWorkspace *)

DeleteRead(p) ==
  /\ Deleting
  /\ pc[p] = "idle" /\ row.live
  /\ ws' = [ws EXCEPT ![p] = row]
  /\ pc' = [pc EXCEPT ![p] = "stop"]
  /\ UNCHANGED <<row, gen, ans, wake, lock, seen, reqVars, taskVars,
                 diskVars, report, runnerUp, restarts, ecsVars>>

(* The snapshot the copy names is collected with the workspace. *)
DeleteCollect(p) ==
  /\ pc[p] = "collect"
  /\ IF ws[p].snap = None THEN UNCHANGED snaps ELSE DropSnapshot(ws[p].snap)
  /\ pc' = [pc EXCEPT ![p] = "delete"]
  /\ UNCHANGED <<row, ws, gen, ans, wake, lock, seen, reqVars, taskVars,
                 vols, report, runnerUp, restarts, ecsVars>>

DeleteRow(p) ==
  /\ pc[p] = "delete"
  /\ \E ok \in DbOutcome :
       row' = IF ok /\ Hit(p) THEN [row EXCEPT !.live = FALSE] ELSE row
  /\ Ends(p)
  /\ UNCHANGED <<lock, seen, reqVars, taskVars, diskVars, report, runnerUp,
                 restarts, ecsVars>>

Delete(p) == DeleteRead(p) \/ DeleteCollect(p) \/ DeleteRow(p)

-----------------------------------------------------------------------------
(* The reaper: sweep, sweepWorkspace and advanceWarmHold.  A report that has *)
(* gone stale is skipped, so it is modelled as absent (ReportStale).         *)

SweepGone ==
  /\ Reaping
  /\ pc[Reaper] = "idle" /\ report # "none" /\ ~row.live
  /\ report' = "none"
  /\ UNCHANGED <<row, procVars, reqVars, taskVars, diskVars, runnerUp,
                 restarts, ecsVars>>

SweepRead ==
  /\ Reaping
  /\ pc[Reaper] = "idle" /\ report # "none" /\ row.live
  /\ ws' = [ws EXCEPT ![Reaper] = row]
  /\ seen' = report
  /\ pc' = [pc EXCEPT ![Reaper] = "sweep"]
  /\ UNCHANGED <<row, gen, ans, wake, lock, reqVars, taskVars, diskVars,
                 report, runnerUp, restarts, ecsVars>>

SetHold(h) ==
  \E ok \in DbOutcome :
    row' = IF ok /\ Hit(Reaper) THEN [row EXCEPT !.hold = h] ELSE row

(* Sessions run: no hold.  None, and no hold yet: start one.  A hold still   *)
(* running: leave it.                                                        *)
SweepHold ==
  /\ pc[Reaper] = "sweep"
  /\ \/ seen = "busy" /\ ws[Reaper].hold # "none" /\ SetHold("none")
     \/ seen = "busy" /\ ws[Reaper].hold = "none" /\ UNCHANGED row
     \/ seen = "idle" /\ ws[Reaper].hold = "none" /\ SetHold("running")
     \/ seen = "idle" /\ ws[Reaper].hold = "running" /\ UNCHANGED row
  /\ Ends(Reaper)
  /\ seen' = "none"
  /\ UNCHANGED <<lock, reqVars, taskVars, diskVars, report, runnerUp,
                 restarts, ecsVars>>

SweepStop ==
  /\ pc[Reaper] = "sweep"
  /\ seen = "idle" /\ ws[Reaper].hold = "expired"
  /\ pc' = [pc EXCEPT ![Reaper] = "stop"]
  /\ seen' = "none"
  /\ UNCHANGED <<row, ws, gen, ans, wake, lock, reqVars, taskVars, diskVars,
                 report, runnerUp, restarts, ecsVars>>

(* After stopTask, whatever came of it: "stopped", no reference, no hold,    *)
(* and the report forgotten.                                                 *)
Reaped ==
  /\ pc[Reaper] = "reaped"
  /\ \E ok1, ok2 \in DbOutcome :
       LET stopped == IF ok1 THEN WithStatus("stopped", None, FALSE) ELSE row
           cleared == IF ok2 THEN "none" ELSE row.hold
       IN row' = IF Hit(Reaper) THEN [stopped EXCEPT !.hold = cleared] ELSE row
  /\ report' = "none"
  /\ Ends(Reaper)
  /\ seen' = "none"
  /\ UNCHANGED <<lock, reqVars, taskVars, diskVars, runnerUp, restarts, ecsVars>>

(* The warm hold's deadline passes. *)
HoldElapses ==
  /\ row.hold = "running"
  /\ row' = [row EXCEPT !.hold = "expired"]
  /\ UNCHANGED <<procVars, reqVars, taskVars, diskVars, report, runnerUp,
                 restarts, ecsVars>>

Sweep == SweepGone \/ SweepRead \/ SweepHold \/ SweepStop \/ Reaped

-----------------------------------------------------------------------------
(* The runner: OnStream and the ECS driver.  It finishes a command it has    *)
(* read even when the control plane has stopped waiting.                     *)

(* The caller still waiting for this start's reply hears it. *)
AnswerStart(q, a) ==
  ans' = [p \in Proc |->
            IF pc[p] = "dispatch" /\ gen[p] = q.gen /\ ws[p].inc = q.inc
              THEN a ELSE ans[p]]

(* existing(): the running tasks placed under the same name and generation.  *)
(* One told to stop is not among them.  (Slips: it is not looked for; the    *)
(* desired status is left out of the filter.)                                *)
NothingExists(q) == {}
AnyStatus(q) == {r \in Ref : r.gen = q.gen /\ life[r] # "none"}
Existing(q) == {r \in Ref : r.gen = q.gen /\ life[r] = "running"}
(* ListTasks names none: there is none, or it failed, which reads the same.  *)
FoundNone(q) == Existing(q) = {} \/ "lookup" \in Faults

(* What the client token of this start has placed already, as far as ECS     *)
(* remembers.  The token is the name and the generation.                     *)
Repeats(q) == {r \in tokens : r.gen = q.gen}

RunnerAdopt(q) ==
  /\ q \in startReq
  /\ startReq' = startReq \ {q}
  /\ \E r \in Existing(q) : AnswerStart(q, Ok(r))
  /\ UNCHANGED <<row, pc, ws, gen, wake, lock, seen, stopReq, taskVars,
                 diskVars, report, runnerUp, restarts, ecsVars>>

RunnerStart(q) ==
  LET new == [inc |-> q.inc, gen |-> q.gen] IN
  /\ q \in startReq
  /\ FoundNone(q) /\ Repeats(q) = {}
  /\ q.snap \in snaps \cup {None}
  /\ startReq' = startReq \ {q}
  /\ life' = [life EXCEPT ![new] = "running"]
  /\ vols' = vols \cup {new}
  /\ tokens' = tokens \cup {new}
  /\ blind' = IF Existing(q) = {} THEN blind ELSE blind \cup {new}
  /\ AnswerStart(q, Ok(new))
  /\ UNCHANGED <<row, pc, ws, gen, wake, lock, seen, stopReq, snaps, report,
                 runnerUp, conn, restarts>>

(* RunTask is answered with the task its client token already placed, even   *)
(* one that has stopped.                                                     *)
RunnerRepeat(q) ==
  /\ q \in startReq
  /\ FoundNone(q)
  /\ startReq' = startReq \ {q}
  /\ \E r \in Repeats(q) : AnswerStart(q, Ok(r))
  /\ UNCHANGED <<row, pc, ws, gen, wake, lock, seen, stopReq, taskVars,
                 diskVars, report, runnerUp, restarts, ecsVars>>

(* RunTask fails: no capacity, or the snapshot is gone. *)
RunnerRefuse(q) ==
  /\ q \in startReq
  /\ FoundNone(q)
  /\ "start" \in Faults \/ q.snap \notin snaps \cup {None}
  /\ startReq' = startReq \ {q}
  /\ AnswerStart(q, Error)
  /\ UNCHANGED <<row, pc, ws, gen, wake, lock, seen, stopReq, taskVars,
                 diskVars, report, runnerUp, restarts, ecsVars>>

AnswerStop(q, a) ==
  ans' = [ans EXCEPT ![q.by] =
            IF pc[q.by] = "stopping" /\ ws[q.by].ref = q.ref THEN a ELSE @]

(* Driver.Stop returns once the stop is accepted; the task is gone later     *)
(* (TaskStops).  One already gone is no error.                               *)
RunnerStop(q) ==
  /\ q \in stopReq /\ q.stage = "sent"
  /\ stopReq' = (stopReq \ {q}) \cup {[q EXCEPT !.stage = "stopped"]}
  /\ life' = [life EXCEPT ![q.ref] = IF @ = "running" THEN "stopping" ELSE @]
  /\ UNCHANGED <<row, procVars, startReq, diskVars, report, runnerUp, conn,
                 restarts, ecsVars>>

RunnerStopRefuse(q) ==
  /\ "stop" \in Faults
  /\ q \in stopReq /\ q.stage = "sent"
  /\ stopReq' = stopReq \ {q}
  /\ AnswerStop(q, Error)
  /\ UNCHANGED <<row, pc, ws, gen, wake, lock, seen, startReq, taskVars,
                 diskVars, report, runnerUp, restarts, ecsVars>>

(* Preserve: wait for the task to stop, but not for ever; snapshot the       *)
(* volume when it is to be kept, delete it, answer.  A volume still attached *)
(* is not deleted, and a failed delete is passed over.  A volume already     *)
(* gone, or a failed snapshot, answers with no snapshot.  Two snapshots of   *)
(* one task's disk are one here.                                             *)
Preserve(q) ==
  \/ /\ q.ref \in vols
     /\ \/ life[q.ref] = "exited" /\ vols' = vols \ {q.ref}
        \/ /\ life[q.ref] # "exited" \/ "preserve" \in Faults
           /\ UNCHANGED vols
     /\ snaps' = IF q.by = Reaper THEN snaps \cup {q.ref} ELSE snaps
     /\ AnswerStop(q, Ok(IF q.by = Reaper THEN q.ref ELSE None))
  \/ /\ q.ref \notin vols \/ "preserve" \in Faults
     /\ AnswerStop(q, Ok(None))
     /\ UNCHANGED diskVars

RunnerPreserve(q) ==
  /\ q \in stopReq /\ q.stage = "stopped"
  /\ stopReq' = stopReq \ {q}
  /\ Preserve(q)
  /\ UNCHANGED <<row, pc, ws, gen, wake, lock, seen, startReq, taskVars,
                 report, runnerUp, restarts, ecsVars>>

Runner ==
  \/ \E q \in startReq :
       RunnerAdopt(q) \/ RunnerStart(q) \/ RunnerRepeat(q) \/ RunnerRefuse(q)
  \/ \E q \in stopReq : RunnerStop(q) \/ RunnerStopRefuse(q) \/ RunnerPreserve(q)

-----------------------------------------------------------------------------
(* The task: agent.Run's dial loop against handleWorkspaceTunnel.  The       *)
(* credential is derived from the name and the generation, so it verifies    *)
(* against whatever row the name has now.  (Slip: the generation is left     *)
(* out.)                                                                     *)

VerifiesAnyGeneration(r) == row.live
Verifies(r) == row.live /\ row.gen = r.gen

Alive(r) == life[r] \in {"running", "stopping"}

(* The dial is looked up and verified; the upgrade follows. *)
Dial(r) ==
  /\ Alive(r) /\ conn[r] = "down"
  /\ Verifies(r)
  /\ conn' = [conn EXCEPT ![r] = "verified"]
  /\ UNCHANGED <<row, procVars, reqVars, diskVars, report, runnerUp, life,
                 restarts, ecsVars>>

(* 401, fatal on the control tunnel: the supervisor stops everything and     *)
(* exits.  A failed lookup is answered 401 too.                              *)
Unauthorized(r) ==
  /\ Alive(r) /\ conn[r] = "down"
  /\ ~Verifies(r) \/ "db" \in Faults
  /\ life' = [life EXCEPT ![r] = "exited"]
  /\ UNCHANGED <<row, procVars, reqVars, diskVars, report, runnerUp, conn,
                 restarts, ecsVars>>

(* AddWorkspace: the tunnel is registered and handed to every waiter. *)
Register(r) ==
  /\ conn[r] = "verified"
  /\ conn' = [conn EXCEPT ![r] = "up"]
  /\ wake' = [p \in Proc |-> wake[p] \/ pc[p] \in {"grace", "wait"}]
  /\ UNCHANGED <<row, pc, ws, gen, ans, lock, seen, reqVars, diskVars,
                 report, runnerUp, life, restarts, ecsVars>>

(* The tunnel closes: RemoveWorkspace, and the report is forgotten. *)
TunnelDrops(r) ==
  /\ "drop" \in Faults
  /\ conn[r] # "down"
  /\ conn' = [conn EXCEPT ![r] = "down"]
  /\ report' = IF conn[r] = "up" THEN "none" ELSE report
  /\ UNCHANGED <<row, procVars, reqVars, diskVars, runnerUp, life,
                 restarts, ecsVars>>

(* A task ends, and its tunnel with it: by itself, or as it was told. *)
Gone(r) ==
  /\ life' = [life EXCEPT ![r] = "exited"]
  /\ conn' = [conn EXCEPT ![r] = "down"]
  /\ report' = IF conn[r] = "up" THEN "none" ELSE report
  /\ UNCHANGED <<row, procVars, reqVars, diskVars, runnerUp, restarts, ecsVars>>
TaskExits(r) == "exit" \in Faults /\ life[r] = "running" /\ Gone(r)
TaskStops(r) == life[r] = "stopping" /\ Gone(r)

(* ECS's window for a client token passes. *)
Forget(r) ==
  /\ "token" \in Faults
  /\ r \in tokens
  /\ tokens' = tokens \ {r}
  /\ UNCHANGED <<row, procVars, reqVars, taskVars, diskVars, report, runnerUp,
                 restarts, blind>>

(* handleEvent, MsgHeadroom: sessions come and go, so either count may be    *)
(* reported.  Only the reaper reads the store here.                          *)
Headroom(r) ==
  /\ Reaping
  /\ conn[r] = "up"
  /\ report' \in {"idle", "busy"}
  /\ UNCHANGED <<row, procVars, reqVars, taskVars, diskVars, runnerUp,
                 restarts, ecsVars>>

ReportStale ==
  /\ report # "none"
  /\ report' = "none"
  /\ UNCHANGED <<row, procVars, reqVars, taskVars, diskVars, runnerUp,
                 restarts, ecsVars>>

Task(r) ==
  Dial(r) \/ Unauthorized(r) \/ Register(r) \/ TunnelDrops(r) \/ TaskExits(r)
    \/ TaskStops(r) \/ Headroom(r)

RunnerLink ==
  /\ "link" \in Faults
  /\ runnerUp' = ~runnerUp
  /\ UNCHANGED <<row, procVars, reqVars, taskVars, diskVars, report,
                 restarts, ecsVars>>

(* The control plane restarts: every goroutine, lock, tunnel and report is   *)
(* gone; the row, the tasks and the runner's work are not.                   *)
Restart ==
  /\ restarts < MaxRestarts
  /\ restarts' = restarts + 1
  /\ pc' = [p \in Proc |-> "idle"]
  /\ ws' = [p \in Proc |-> NoRow]
  /\ gen' = [p \in Proc |-> 0]
  /\ ans' = [p \in Proc |-> NoAnswer]
  /\ wake' = [p \in Proc |-> FALSE]
  /\ lock' = None
  /\ seen' = "none" /\ report' = "none"
  /\ conn' = [r \in Ref |-> "down"]
  /\ UNCHANGED <<row, reqVars, diskVars, runnerUp, life, ecsVars>>

-----------------------------------------------------------------------------
Next ==
  \/ \E p \in Callers : CreateWorkspace(p) \/ Ensure(p) \/ Delete(p)
  \/ \E p \in Proc : StopTask(p)
  \/ Sweep \/ HoldElapses
  \/ Runner
  \/ \E r \in Ref : Task(r) \/ Forget(r)
  \/ ReportStale \/ RunnerLink \/ Restart

Spec == Init /\ [][Next]_vars
-----------------------------------------------------------------------------
(* Fairness, for the liveness properties.  A goroutine keeps running, every  *)
(* wait in ensureWorkspace has a deadline, and a Go mutex hands itself to    *)
(* the longest waiter, so a caller offered the lock again and again gets it. *)
(* A task keeps redialling (agent.Run).  Nothing is assumed of the runner,   *)
(* of the reaper or of who calls what.                                       *)
EnsureStep(p) ==
  \/ GraceHit(p) \/ GraceOver(p)
  \/ NoRunner(p) \/ TakeGeneration(p) \/ NoGeneration(p)
  \/ OutOfGenerations(p) \/ MarkStarting(p) \/ SendStart(p) \/ SendFail(p)
  \/ Dispatched(p) \/ DispatchFail(p) \/ WaitHit(p) \/ WaitOver(p)
Fairness ==
  /\ \A p \in Callers : /\ SF_vars(PickHit(p) \/ PickMiss(p))
                        /\ WF_vars(EnsureStep(p))
  /\ \A r \in Ref : WF_vars(Dial(r) \/ Unauthorized(r) \/ Register(r))
FairSpec == Spec /\ Fairness

-----------------------------------------------------------------------------
(* Every variable has its type. *)
TypeOK ==
  /\ row \in Row
  /\ pc \in [Proc -> Label]
  /\ ws \in [Proc -> Row]
  /\ gen \in [Proc -> 0..MaxGen]
  /\ ans \in [Proc -> Answer]
  /\ wake \in [Proc -> BOOLEAN]
  /\ lock \in Callers \cup {None}
  /\ startReq \subseteq [inc : 1..MaxInc, gen : 1..MaxGen, snap : Ref \cup {None}]
  /\ stopReq \subseteq [by : Proc, ref : Ref, stage : {"sent", "stopped"}]
  /\ life \in [Ref -> {"none", "running", "stopping", "exited"}]
  /\ conn \in [Ref -> {"down", "verified", "up"}]
  /\ vols \subseteq Ref /\ snaps \subseteq Ref
  /\ report \in {"none", "idle", "busy"} /\ seen \in {"none", "idle", "busy"}
  /\ runnerUp \in BOOLEAN
  /\ restarts \in 0..MaxRestarts
  /\ tokens \subseteq Ref /\ blind \subseteq Ref

(* The idempotency key of a start command still in the runner's hands was    *)
(* never used: not by a task, and not by another command.  Two placements    *)
(* with one key are what nextGeneration's single UPDATE ... RETURNING rules  *)
(* out, since ECS answers the second with the first one's task.              *)
FreshKey ==
  \A q \in startReq :
    /\ life[[inc |-> q.inc, gen |-> q.gen]] = "none"
    /\ \A q2 \in startReq : q2.inc = q.inc /\ q2.gen = q.gen => q2 = q

(* A placement is answered with a task that runs.  The one way to be handed  *)
(* another: the workspace was deleted and created again, and ECS still       *)
(* remembers the client token of this generation from the earlier record.    *)
AnsweredByRunningTask ==
  [][ \A p \in Callers :
        pc[p] = "dispatch" /\ ans'[p] # ans[p] /\ ans'[p].kind = "ok"
          => \/ life'[ans'[p].ref] = "running"
             \/ /\ ans'[p].ref.inc # ws[p].inc
                /\ ans'[p].ref.gen = gen[p]
                /\ ans'[p].ref \in tokens ]_vars

(* Whatever is retried, lost, raced, restarted, deleted and created again,   *)
(* at most one running task holds the credential of a given generation of    *)
(* the name: the driver adopts rather than places beside it.  Where ListTasks*)
(* failed, that rests on the client token: two tasks run only when one was   *)
(* placed blindly and the token of one is forgotten.                         *)
OneTaskPerGeneration ==
  \A r1, r2 \in Ref :
    life[r1] = "running" /\ life[r2] = "running" /\ r1.gen = r2.gen /\ r1 # r2
      => {r1, r2} \cap blind # {} /\ ~({r1, r2} \subseteq tokens)

(* Between taking a generation and seeing its task dial in. *)
AwaitingTask == {"send", "command", "dispatch", "wait"}

(* A generation advances by one, and never while another placement is        *)
(* between taking its own and seeing its task dial in: no placement has its  *)
(* task's credential invalidated under it by a concurrent one.               *)
PlacementNotUndercut ==
  [][ row'.inc = row.inc /\ row'.gen # row.gen
        => /\ row'.gen = row.gen + 1
           /\ \A p \in Callers : pc[p] \notin AwaitingTask ]_vars

(* The snapshot the row names exists.  That column is all that connects a    *)
(* stopped workspace to its members' homes.                                  *)
RowSnapshotExists ==
  row.live /\ row.snap # None => row.snap \in snaps

(* A sweep that outlives its workspace leaves the one created later under    *)
(* the name alone: the status, hold and snapshot it writes after a stop that *)
(* may take minutes are for the row it read.                                 *)
SweepSparesSuccessor ==
  [][ pc'[Reaper] # pc[Reaper] /\ row' # row => row.inc = ws[Reaper].inc ]_vars

(* Every call of ensureWorkspace returns, whatever the runner does: no lost  *)
(* answer and no task that never dials in holds the workspace's lock forever.*)
EnsureReturns ==
  \A p \in Callers :
    pc[p] \in {"lock", "grace", "place"} \cup AwaitingTask ~> pc[p] = "idle"

(* A task that has been replaced and has no tunnel is gone in the end: its   *)
(* next dial is refused, and on the control tunnel that is fatal.            *)
ReplacedTaskExits ==
  \A r \in Ref :
    (life[r] = "running" /\ conn[r] = "down"
       /\ row.inc = r.inc /\ row.gen > r.gen)
      ~> life[r] # "running"
-----------------------------------------------------------------------------
(* The inductive invariant behind FreshKey and PlacementNotUndercut.         *)

Placing == {"grace", "place"} \cup AwaitingTask
Sending == {"send", "command"}

(* A process past the lock in ensureWorkspace holds it. *)
LockHeld == \A p \in Proc : pc[p] \in Placing => lock = p

(* A placement's key, an incarnation and a generation, has been handed out. *)
HandedOut(i, g) == i < row.inc \/ (i = row.inc /\ g <= row.gen)

(* A copy of the row is of an incarnation that existed, and a placement      *)
(* about to be sent carries a real one and a real generation.                *)
CopiesReal ==
  /\ row.live => row.inc >= 1
  /\ \A p \in Proc : /\ ws[p].inc <= row.inc
                     /\ pc[p] \in Sending => ws[p].inc >= 1 /\ gen[p] >= 1

(* Tasks and commands use keys that were handed out; the one a placement is  *)
(* about to send is used by neither.                                         *)
KeysHandedOut ==
  /\ \A r \in Ref : life[r] # "none" => HandedOut(r.inc, r.gen)
  /\ \A q \in startReq : HandedOut(q.inc, q.gen)
  /\ \A p \in Proc : pc[p] \in Sending =>
       /\ HandedOut(ws[p].inc, gen[p])
       /\ life[[inc |-> ws[p].inc, gen |-> gen[p]]] = "none"
       /\ \A q \in startReq : ~(q.inc = ws[p].inc /\ q.gen = gen[p])

(* A reference anyone holds, and could hand to StopTask, is of a task that   *)
(* was started; so is what a client token placed.                            *)
NamedTasksStarted ==
  /\ row.ref # None => life[row.ref] # "none"
  /\ \A p \in Proc :
       /\ ws[p].ref # None => life[ws[p].ref] # "none"
       /\ pc[p] \in {"dispatch", "wait"} /\ ans[p].ref # None
            => life[ans[p].ref] # "none"
  /\ \A q \in stopReq : life[q.ref] # "none"
  /\ \A r \in tokens : life[r] # "none"

PlacementInv ==
  /\ TypeOK /\ LockHeld /\ CopiesReal
  /\ KeysHandedOut /\ NamedTasksStarted /\ FreshKey
=============================================================================

------------------------------ MODULE Tunnels ------------------------------
(***************************************************************************)
(* The control plane's tunnels: the registry of runner and workspace       *)
(* tunnels, the handler of each tunnel from the upgrade to its teardown,   *)
(* the verdicts filed under a workspace's name, and the requests that wait *)
(* for a tunnel and then for a verdict.                                    *)
(*                                                                         *)
(* Every access takes a lock of its own; what a handler sends on a channel *)
(* it sends after unlocking.  A task redials as soon as its own end fails, *)
(* which is up to a keepalive interval before this end notices.            *)
(***************************************************************************)
EXTENDS Naturals, SequencesExt

CONSTANTS
  Keys,        \* (tenant, name) pairs that have a workspace
  Tasks,       \* tasks, in the order of their placement
  KeyOf,       \* task -> the workspace it was started for
  Blocking,    \* tasks whose Bedrock check fails
  Conns,       \* workspace tunnels; each is used once
  Runners,     \* runners, each with a tunnel at a time
  TenantOf,    \* runner tunnel -> the organization it proves to be of
  Protocol,    \* runner, task -> the protocol version it announces
  MinProtocolVersion, ProtocolVersion,
  Callers,     \* requests that need a task; each is used once
  None

Tenants == {k.tenant : k \in Keys}

ASSUME TunnelsAssumption ==
  /\ Keys \subseteq [tenant : Tenants, name : {k.name : k \in Keys}]
  /\ KeyOf \in [Tasks -> Keys] /\ Blocking \subseteq Tasks
  /\ TenantOf \in [Runners -> Tenants]
  /\ Protocol \in [Runners \cup Tasks -> Nat]
  /\ MinProtocolVersion \in Nat /\ ProtocolVersion \in Nat
  /\ None \notin Keys \cup Tasks \cup Conns \cup Runners \cup Callers

VARIABLES
  current,     \* key -> the task its row's generation belongs to
  running,     \* tasks that run
  conn,        \* the handler of each workspace tunnel
  workspaces,  \* Registry.workspaces: key -> tunnels, oldest first
  waiters,     \* Registry.waiters: key -> callers whose channel is listed
  handing,     \* tunnel -> callers its AddWorkspace has still to send to
  chan,        \* caller -> what is in its channel
  reports,     \* preflightStore.reports: key -> the task judged, None
  pwaiters,    \* preflightStore.waiters
  phanding,    \* tunnel -> callers its put has still to send to
  pchan,       \* caller -> the verdict in its channel
  runners,     \* Registry.runners: tenant -> tunnels, oldest first
  rr,          \* Registry.rr
  runnerUp,    \* what each runner tunnel's handler is at
  caller       \* the requests

store   == <<workspaces, waiters, handing, chan>>
verdict == <<reports, pwaiters, phanding, pchan>>
fleet   == <<runners, rr, runnerUp>>
tasks   == <<current, running>>
vars    == <<tasks, conn, store, verdict, fleet, caller>>

Conn == [pc : {"free", "verified", "up", "removed", "done"},
         task : Tasks \cup {None}, cut : BOOLEAN, told : BOOLEAN]
Caller == [pc : {"new", "ask", "waiting", "failed", "gate", "pending",
                 "admitted", "refused"},
           key : Keys \cup {None}, via : Runners \cup {None},
           got : Conns \cup {None}]
Fresh == [pc |-> "new", key |-> None, via |-> None, got |-> None]

(* Every variable has its type. *)
TypeOK ==
  /\ current \in [Keys -> Tasks \cup {None}] /\ running \subseteq Tasks
  /\ conn \in [Conns -> Conn]
  /\ workspaces \in [Keys -> Seq(Conns)] /\ waiters \in [Keys -> SUBSET Callers]
  /\ handing \in [Conns -> SUBSET Callers]
  /\ chan \in [Callers -> Conns \cup {None}]
  /\ reports \in [Keys -> Tasks \cup {None}]
  /\ pwaiters \in [Keys -> SUBSET Callers]
  /\ phanding \in [Conns -> SUBSET Callers]
  /\ pchan \in [Callers -> Tasks \cup {None}]
  /\ runners \in [Tenants -> Seq(Runners)] /\ rr \in Nat
  /\ runnerUp \in [Runners -> {"free", "up"}]
  /\ caller \in [Callers -> Caller]

Init ==
  /\ current = [k \in Keys |-> None] /\ running = {}
  /\ conn = [t \in Conns |-> [pc |-> "free", task |-> None, cut |-> FALSE,
                              told |-> FALSE]]
  /\ workspaces = [k \in Keys |-> <<>>] /\ waiters = [k \in Keys |-> {}]
  /\ handing = [t \in Conns |-> {}] /\ chan = [c \in Callers |-> None]
  /\ reports = [k \in Keys |-> None] /\ pwaiters = [k \in Keys |-> {}]
  /\ phanding = [t \in Conns |-> {}] /\ pchan = [c \in Callers |-> None]
  /\ runners = [n \in Tenants |-> <<>>] /\ rr = 0
  /\ runnerUp = [r \in Runners |-> "free"]
  /\ caller = [c \in Callers |-> Fresh]

-----------------------------------------------------------------------------
(* Registry *)

key(t) == KeyOf[conn[t].task]

Newest(k) == IF workspaces[k] = <<>> THEN None ELSE Last(workspaces[k])

(* A tunnel is on its list once. *)
remove(ts, t) ==
  IF t \in ToSet(ts) THEN RemoveAt(ts, CHOOSE i \in DOMAIN ts : ts[i] = t)
  ELSE ts

(* Slip: a runner is a runner. *)
RunnersOfAny(tenant) ==
  LET held == {n \in Tenants : runners[n] # <<>>}
  IN  IF held = {} THEN <<>> ELSE runners[CHOOSE n \in held : TRUE]

RunnersOf(tenant) == runners[tenant]

NextRound == rr + 1

(* A tunnel of the set at the next place of the round. *)
RoundRobin(ts) == ts[(NextRound % Len(ts)) + 1]

checkProtocol(v) == MinProtocolVersion <= v /\ v <= ProtocolVersion

-----------------------------------------------------------------------------
(* The tasks.  Placing one is Placement's; here the row moves to the next. *)

NextTask(task) ==
  /\ task \notin running /\ current[KeyOf[task]] # task
  /\ \A t \in Conns : conn[t].task # task
  /\ current' = [current EXCEPT ![KeyOf[task]] = task]
  /\ running' = running \cup {task}
  /\ UNCHANGED <<conn, store, verdict, fleet, caller>>

(* Refused with 401: the task has been replaced, and ends. *)
Unauthorized(task) ==
  /\ task \in running /\ current[KeyOf[task]] # task
  /\ \A t \in Conns : conn[t].task = task => conn[t].cut
  /\ running' = running \ {task}
  /\ UNCHANGED <<current, conn, store, verdict, fleet, caller>>

TaskExits(task) ==
  /\ task \in running
  /\ running' = running \ {task}
  /\ conn' = [t \in Conns |-> IF conn[t].task = task
                              THEN [conn[t] EXCEPT !.cut = TRUE] ELSE conn[t]]
  /\ UNCHANGED <<current, store, verdict, fleet, caller>>

(* The task's end of a tunnel fails; this end has yet to notice. *)
Cut(t) ==
  /\ conn[t].pc \in {"verified", "up"} /\ ~conn[t].cut
  /\ conn' = [conn EXCEPT ![t].cut = TRUE]
  /\ UNCHANGED <<tasks, store, verdict, fleet, caller>>

-----------------------------------------------------------------------------
(* handleWorkspaceTunnel *)

(* VerifyWorkspace against the current generation, then the protocol; a task *)
(* of another protocol dials on in vain.  An agent dials again only once its *)
(* last tunnel has failed.                                                   *)
Verify(t, task) ==
  /\ conn[t].pc = "free" /\ task \in running
  /\ current[KeyOf[task]] = task /\ checkProtocol(Protocol[task])
  /\ \A x \in Conns : conn[x].task = task => conn[x].cut
  /\ conn' = [conn EXCEPT ![t].pc = "verified", ![t].task = task]
  /\ UNCHANGED <<tasks, store, verdict, fleet, caller>>

(* Slip: the channels stay on the list. *)
AddAndKeep(t) ==
  /\ conn[t].pc = "verified"
  /\ conn' = [conn EXCEPT ![t].pc = "up"]
  /\ workspaces' = [workspaces EXCEPT ![key(t)] = Append(@, t)]
  /\ handing' = [handing EXCEPT ![t] = waiters[key(t)]]
  /\ UNCHANGED <<tasks, waiters, chan, verdict, fleet, caller>>

(* After the upgrade.  The waiters' channels are taken out under the lock    *)
(* and sent to after it.                                                     *)
AddWorkspace(t) ==
  /\ conn[t].pc = "verified"
  /\ conn' = [conn EXCEPT ![t].pc = "up"]
  /\ workspaces' = [workspaces EXCEPT ![key(t)] = Append(@, t)]
  /\ handing' = [handing EXCEPT ![t] = waiters[key(t)]]
  /\ waiters' = [waiters EXCEPT ![key(t)] = {}]
  /\ UNCHANGED <<tasks, chan, verdict, fleet, caller>>

(* A channel of capacity one takes a send while it is empty, whoever is      *)
(* still listening; what nobody will read again is garbage.                  *)
Room(held) == held = None

Hand(t, c) ==
  /\ c \in handing[t] /\ Room(chan[c])
  /\ handing' = [handing EXCEPT ![t] = @ \ {c}]
  /\ chan' = [chan EXCEPT ![c] = IF caller[c].pc = "waiting" THEN t ELSE @]
  /\ UNCHANGED <<tasks, conn, workspaces, waiters, verdict, fleet,
                 caller>>

(* drainEvents reads one message at a time. *)
Draining(t) == conn[t].pc = "up" /\ handing[t] = {} /\ phanding[t] = {}

(* Slip: whoever waits looks again by itself. *)
PutQuietly(t) ==
  /\ Draining(t) /\ ~conn[t].told
  /\ conn' = [conn EXCEPT ![t].told = TRUE]
  /\ reports' = [reports EXCEPT ![key(t)] = conn[t].task]
  /\ UNCHANGED <<tasks, store, pwaiters, phanding, pchan, fleet, caller>>

(* A preflight message: once per connect, the verdict of the task.  It is    *)
(* filed under the name the report carries; a supervisor puts there the one  *)
(* it was started with, which is its tunnel's.                               *)
PutPreflight(t) ==
  /\ Draining(t) /\ ~conn[t].told
  /\ conn' = [conn EXCEPT ![t].told = TRUE]
  /\ reports' = [reports EXCEPT ![key(t)] = conn[t].task]
  /\ phanding' = [phanding EXCEPT ![t] = pwaiters[key(t)]]
  /\ pwaiters' = [pwaiters EXCEPT ![key(t)] = {}]
  /\ UNCHANGED <<tasks, store, pchan, fleet, caller>>

HandVerdict(t, c) ==
  /\ c \in phanding[t] /\ Room(pchan[c])
  /\ phanding' = [phanding EXCEPT ![t] = @ \ {c}]
  /\ pchan' = [pchan EXCEPT ![c] = IF caller[c].pc = "pending"
                                 THEN conn[t].task ELSE @]
  /\ UNCHANGED <<tasks, conn, store, reports, pwaiters, fleet, caller>>

(* The read fails, and the deferred teardown runs. *)
RemoveWorkspace(t) ==
  /\ Draining(t) /\ conn[t].cut
  /\ workspaces' = [workspaces EXCEPT ![key(t)] = remove(@, t)]
  /\ conn' = [conn EXCEPT ![t].pc = "removed"]
  /\ UNCHANGED <<tasks, waiters, handing, chan, verdict, fleet, caller>>

(* The verdict goes with the tunnel's name, whoever filed it.  The activity  *)
(* report goes the same way (Sessions).                                      *)
ForgetPreflight(t) ==
  /\ conn[t].pc = "removed"
  /\ reports' = [reports EXCEPT ![key(t)] = None]
  /\ conn' = [conn EXCEPT ![t].pc = "done"]
  /\ UNCHANGED <<tasks, store, pwaiters, phanding, pchan, fleet, caller>>

(* CloseAll, at shutdown: every tunnel on the lists. *)
CloseAll ==
  /\ conn' = [t \in Conns |->
       IF \E k \in Keys : t \in ToSet(workspaces[k])
       THEN [conn[t] EXCEPT !.cut = TRUE] ELSE conn[t]]
  /\ conn' # conn
  /\ UNCHANGED <<tasks, store, verdict, fleet, caller>>

-----------------------------------------------------------------------------
(* handleRunnerTunnel *)

AddRunner(r) ==
  /\ runnerUp[r] = "free" /\ checkProtocol(Protocol[r])
  /\ runnerUp' = [runnerUp EXCEPT ![r] = "up"]
  /\ runners' = [runners EXCEPT ![TenantOf[r]] = Append(@, r)]
  /\ UNCHANGED <<tasks, conn, store, verdict, rr, caller>>

RemoveRunner(r) ==
  /\ runnerUp[r] = "up"
  /\ runnerUp' = [runnerUp EXCEPT ![r] = "free"]
  /\ runners' = [runners EXCEPT ![TenantOf[r]] = remove(@, r)]
  /\ UNCHANGED <<tasks, conn, store, verdict, rr, caller>>

-----------------------------------------------------------------------------
(* A request that needs a task: ensureWorkspace, then checkPreflight *)

(* Blocked on evidence; without a report the session is admitted anyway. *)
Judge(rep) == IF rep # None /\ rep \in Blocking THEN "refused" ELSE "admitted"

(* The answer is written. *)
Finish(c, pc) == caller' = [caller EXCEPT ![c] = [Fresh EXCEPT !.pc = pc]]

(* PickWorkspace, and on a miss PickRunner. *)
PickWorkspace(c, k) ==
  /\ caller[c].pc = "new"
  /\ LET ts == RunnersOf(k.tenant)
     IN  IF Newest(k) # None
         THEN /\ caller' = [caller EXCEPT ![c].key = k, ![c].got = Newest(k),
                                          ![c].pc = "gate"]
              /\ UNCHANGED rr
         ELSE IF ts = <<>> THEN Finish(c, "failed") /\ UNCHANGED rr
         ELSE /\ caller' = [caller EXCEPT ![c].key = k, ![c].pc = "ask",
                                          ![c].via = RoundRobin(ts)]
              /\ rr' = NextRound
  /\ UNCHANGED <<tasks, conn, store, verdict, runners, runnerUp>>

(* Slip: the list is looked at before the lock is taken to join it. *)
WaitUnchecked(c) ==
  /\ caller[c].pc = "ask"
  /\ waiters' = [waiters EXCEPT ![caller[c].key] = @ \cup {c}]
  /\ caller' = [caller EXCEPT ![c].pc = "waiting", ![c].via = None]
  /\ UNCHANGED <<tasks, conn, workspaces, handing, chan, verdict, fleet>>

WaitWorkspace(c) ==
  /\ caller[c].pc = "ask"
  /\ LET k == caller[c].key
         asked == [caller[c] EXCEPT !.via = None]
     IN  IF Newest(k) # None
         THEN /\ caller' = [caller EXCEPT
                   ![c] = [asked EXCEPT !.pc = "gate", !.got = Newest(k)]]
              /\ UNCHANGED waiters
         ELSE /\ caller' = [caller EXCEPT ![c] = [asked EXCEPT !.pc = "waiting"]]
              /\ waiters' = [waiters EXCEPT ![k] = @ \cup {c}]
  /\ UNCHANGED <<tasks, conn, workspaces, handing, chan, verdict, fleet>>

Receive(c) ==
  /\ caller[c].pc = "waiting" /\ chan[c] # None
  /\ caller' = [caller EXCEPT ![c].pc = "gate", ![c].got = chan[c]]
  /\ chan' = [chan EXCEPT ![c] = None]
  /\ UNCHANGED <<tasks, conn, workspaces, waiters, handing, verdict, fleet>>

(* ctx.Done, and the channel off the list: a tunnel that registers between   *)
(* the two is as if it had come first.                                       *)
Expire(c) ==
  /\ caller[c].pc = "waiting"
  /\ waiters' = [waiters EXCEPT ![caller[c].key] = @ \ {c}]
  /\ chan' = [chan EXCEPT ![c] = None]
  /\ Finish(c, "failed")
  /\ UNCHANGED <<tasks, conn, workspaces, handing, verdict, fleet>>

WaitPreflight(c) ==
  /\ caller[c].pc = "gate"
  /\ LET k == caller[c].key
     IN  IF reports[k] # None
         THEN Finish(c, Judge(reports[k])) /\ UNCHANGED pwaiters
         ELSE /\ caller' = [caller EXCEPT ![c].pc = "pending"]
              /\ pwaiters' = [pwaiters EXCEPT ![k] = @ \cup {c}]
  /\ UNCHANGED <<tasks, conn, store, reports, phanding, pchan, fleet>>

ReceiveVerdict(c) ==
  /\ caller[c].pc = "pending" /\ pchan[c] # None
  /\ Finish(c, Judge(pchan[c]))
  /\ pchan' = [pchan EXCEPT ![c] = None]
  /\ UNCHANGED <<tasks, conn, store, reports, pwaiters, phanding, fleet>>

(* preflightWait is over: admitted anyway, with a loud log. *)
ExpireVerdict(c) ==
  /\ caller[c].pc = "pending"
  /\ pwaiters' = [pwaiters EXCEPT ![caller[c].key] = @ \ {c}]
  /\ pchan' = [pchan EXCEPT ![c] = None]
  /\ Finish(c, Judge(None))
  /\ UNCHANGED <<tasks, conn, store, reports, phanding, fleet>>

-----------------------------------------------------------------------------
Handler(t) ==
  \/ AddWorkspace(t) \/ PutPreflight(t) \/ RemoveWorkspace(t)
  \/ ForgetPreflight(t)
  \/ \E c \in Callers : Hand(t, c) \/ HandVerdict(t, c)

Request(c) ==
  \/ WaitWorkspace(c) \/ Receive(c) \/ Expire(c)
  \/ WaitPreflight(c) \/ ReceiveVerdict(c) \/ ExpireVerdict(c)

Next ==
  \/ \E task \in Tasks : NextTask(task) \/ Unauthorized(task) \/ TaskExits(task)
  \/ \E t \in Conns :
       \/ Handler(t) \/ Cut(t)
       \/ \E task \in Tasks : Verify(t, task)
  \/ \E r \in Runners : AddRunner(r) \/ RemoveRunner(r)
  \/ \E c \in Callers : Request(c) \/ \E k \in Keys : PickWorkspace(c, k)
  \/ CloseAll

Spec == Init /\ [][Next]_vars

-----------------------------------------------------------------------------
(* The registry as a Rendezvous: a waiter whose channel is on a handler's    *)
(* list, or holds the tunnel, is owed it.                                    *)
Owed(c) == IF chan[c] # None THEN chan[c]
           ELSE LET ts == {t \in Conns : c \in handing[t]}
                IN  IF ts = {} THEN None ELSE CHOOSE t \in ts : TRUE

Mapped(c, st, val) ==
  [st |-> st, val |-> val,
   key |-> IF st \in {"waiting", "owed", "answered"} THEN caller[c].key ELSE None]

registryOffer == [k \in Keys |-> Newest(k)]
registryCall ==
  [c \in Callers |->
    CASE caller[c].pc \in {"new", "ask"} -> Mapped(c, "new", None)
      [] caller[c].pc = "waiting" ->
           Mapped(c, IF Owed(c) = None THEN "waiting" ELSE "owed", Owed(c))
      [] caller[c].pc \in {"gate", "pending"} -> Mapped(c, "answered", caller[c].got)
      [] OTHER -> Mapped(c, "gone", None)]

Registry == INSTANCE Rendezvous WITH
  Values <- Conns, offer <- registryOffer, call <- registryCall

OwedVerdict(c) == IF pchan[c] # None THEN pchan[c]
                  ELSE LET ts == {t \in Conns : c \in phanding[t]}
                       IN  IF ts = {} THEN None
                           ELSE conn[CHOOSE t \in ts : TRUE].task

verdictCall ==
  [c \in Callers |->
    CASE caller[c].pc \in {"admitted", "refused", "failed"} -> Mapped(c, "gone", None)
      [] caller[c].pc = "pending" ->
           Mapped(c, IF OwedVerdict(c) = None THEN "waiting" ELSE "owed",
                  OwedVerdict(c))
      [] OTHER -> Mapped(c, "new", None)]

Verdicts == INSTANCE Rendezvous WITH
  Values <- Tasks, offer <- reports, call <- verdictCall

(* The registry, with its lock and its channels, implements a Rendezvous: no *)
(* waiter misses a tunnel, keeps waiting beside one, or is owed two          *)
(* (AddWorkspace, WaitWorkspace).                                            *)
RegistryIsRendezvous == Registry!Spec

(* So does the preflight store, though any handler may overwrite or forget   *)
(* what another one filed (put, wait, forget).                               *)
VerdictsAreRendezvous == Verdicts!Spec

(* Nobody is given a tunnel or a runner of another organization, or of       *)
(* another workspace, however names coincide (wsKey, VerifyRunner).          *)
OwnOrganization ==
  \A c \in Callers :
    /\ caller[c].got # None => key(caller[c].got) = caller[c].key
    /\ caller[c].via # None => TenantOf[caller[c].via] = caller[c].key.tenant

(* A handler that is to send on a channel finds room in it, and has it to    *)
(* itself: it is never held up by somebody who stopped listening, and never  *)
(* sends on a channel that another handler has closed (AddWorkspace, put).   *)
HandlerNotHeldUp ==
  \A t \in Conns, c \in Callers :
    /\ c \in handing[t] =>
         /\ Room(chan[c]) /\ \A k \in Keys : c \notin waiters[k]
         /\ \A x \in Conns \ {t} : c \notin handing[x]
    /\ c \in phanding[t] =>
         /\ Room(pchan[c]) /\ \A k \in Keys : c \notin pwaiters[k]
         /\ \A x \in Conns \ {t} : c \notin phanding[x]

(* Documented (preflight.go, checkPreflight): "A report that says a required *)
(* model is unusable fails closed".  A request that comes to the gate with a *)
(* live tunnel whose task has already said so is refused there.              *)
FailsClosed ==
  [][\A c \in Callers :
       caller[c].pc = "gate" /\ caller'[c].pc \in {"pending", "admitted"} =>
         LET t == caller[c].got
         IN  ~(/\ conn[t].pc = "up" /\ ~conn[t].cut /\ conn[t].told
               /\ conn[t].task \in Blocking)]_vars
=============================================================================

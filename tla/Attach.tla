------------------------------- MODULE Attach -------------------------------
(***************************************************************************)
(* How a terminal comes to drive a session: lem asks the Management API    *)
(* for an endpoint (handleEndpoint), which authorises the mode, places the *)
(* task, announces whom the session runs as and mints an attach credential;*)
(* lem then dials the relay, which holds no database: it redeems the       *)
(* credential, picks the newest data tunnel of the workspace, and joins    *)
(* the two.  The relay's memory of redeemed credentials and its tunnels    *)
(* die with it.                                                            *)
(*                                                                         *)
(* One session of one workspace; its tasks are numbered by generation.     *)
(* Placement and the control tunnel are Placement's: here a replacement is *)
(* placed when the current task has no control tunnel, and a replaced task *)
(* that redials it is refused and exits.                                   *)
(***************************************************************************)
EXTENDS Integers, SequencesExt

CONSTANTS
  Clients,       \* lem processes
  Askers,        \* bound: those that negotiate; all may dial a URL
  Users,
  SessionUser,   \* who started the session
  Owner,         \* owner of the workspace it is in
  Nobody,        \* no user in particular: the supervisor's own
  Boundary,      \* the uid boundary: "none" (not root), "unset" (root with
                 \* SessionUID 0) or "set"
  TTL,           \* creds.AttachTTL, in ticks
  MaxTime,       \* bound: ticks of the clock
  MaxGen,        \* bound: placements
  MaxTokens,     \* bound: credentials minted
  MaxRestarts    \* bound: restarts of the relay

ASSUME AttachAssumption ==
  /\ {SessionUser, Owner} \subseteq Users /\ Nobody \notin Users
  /\ Boundary \in {"none", "unset", "set"}
  /\ {TTL, MaxTime, MaxTokens, MaxRestarts} \subseteq Nat
  /\ MaxGen \in Nat \ {0}

Mode == {"control", "viewer"}
Task == 1..MaxGen

VARIABLES
  now,        \* the clock both services read
  gen,        \* the workspace's generation: its current task
  running,    \* the tasks that run
  leaving,    \* those that were refused and are on their way out
  verified,   \* those whose control request passed verification
  control,    \* those whose control tunnel is registered
  told,       \* per task: whom it was told that the session runs as
  live,       \* per task: the number of the session's child, 0 for none
  runsAs,     \* per task: the user of that child
  forks,      \* children forked
  exited,     \* the children that ended
  tunnels,    \* the relay's registry: data tunnels, newest last
  seen,       \* the relay's usedAttachNonces
  life,       \* restarts of the relay
  tokens,     \* the credentials minted; an index is a nonce
  client,     \* per client: where it is, its credential, task and child
  uses,       \* history: per credential, its redemptions by this life of the
              \* relay that were over before the credential expired
  typed       \* history: the credentials whose keystrokes reached the child

ctlVars   == <<gen, running, leaving, verified, control>>
childVars == <<told, live, runsAs, forks, exited>>
relayVars == <<tunnels, seen, life>>
vars == <<now, ctlVars, childVars, relayVars, tokens, client, uses, typed>>

(* How far the end of a client's stream has come: the attachment is open,    *)
(* closed because the child ended or because the client was too slow; the    *)
(* marker is on the stream, or the stream is broken; the relay has closed    *)
(* the WebSocket normally.                                                   *)
Link == {"open", "ended", "overflow", "marker", "eof", "normal"}

Nonce == 1..MaxTokens

(* creds.AttachClaims: what a credential asserts, with the user it was       *)
(* minted for, which it does not carry.                                      *)
AttachClaims == [user : Users, mode : Mode, expires : 0..(MaxTime + TTL)]

Fresh == [pc |-> "idle", asked |-> "viewer", user |-> SessionUser,
          tok |-> 0, at |-> 0, task |-> 0, run |-> 0, link |-> "open"]

(* PickWorkspace. *)
Newest == tunnels[Len(tunnels)]
Joined(t) == {c \in Clients : client[c].pc = "attached" /\ client[c].task = t}

(* The clients of a task whose stream has come this far. *)
Streams(t, L) == {c \in Joined(t) : client[c].link \in L}
Linked(C, l) ==
  [c \in Clients |-> IF c \in C THEN [client[c] EXCEPT !.link = l] ELSE client[c]]

Init ==
  /\ now = 0
  /\ gen = 1 /\ running = {1} /\ leaving = {} /\ verified = {} /\ control = {}
  /\ told = [t \in Task |-> Nobody]
  /\ live = [t \in Task |-> 0] /\ runsAs = [t \in Task |-> Nobody]
  /\ forks = 0 /\ exited = {}
  /\ tunnels = <<>> /\ seen = {} /\ life = 0
  /\ tokens = <<>>
  /\ client = [c \in Clients |-> Fresh]
  /\ uses = [n \in Nonce |-> 0] /\ typed = {}

Tick ==
  /\ now < MaxTime
  /\ now' = now + 1
  /\ UNCHANGED <<ctlVars, childVars, relayVars, tokens, client, uses, typed>>

At(c, pc)   == client[c].pc = pc
Goes(c, pc) == client' = [client EXCEPT ![c].pc = pc]

(* lem is over: an error the server gave, the detach key, or a connection    *)
(* that was lost.                                                            *)
Over     == [Fresh EXCEPT !.pc = "over"]
Exits(c) == client' = [client EXCEPT ![c] = Over]

-----------------------------------------------------------------------------
(* Endpoint negotiation *)

(* Slip: a workspace owner may drive a member's session. *)
OwnerDrives(u, mode) == u \in {SessionUser, Owner}

(* requireSession and the rule of handleEndpoint: the session's own user     *)
(* gets the mode they ask for, the workspace's owner may watch.              *)
Authorised(u, mode) ==
  \/ u = SessionUser
  \/ u = Owner /\ mode = "viewer"

(* lem run, negotiate; handleEndpoint up to placement. *)
Negotiate(c, u, mode) ==
  /\ At(c, "idle") /\ c \in Askers /\ Len(tokens) < MaxTokens
  /\ IF Authorised(u, mode)
     THEN client' = [client EXCEPT ![c].pc = "placing", ![c].user = u,
                                   ![c].asked = mode]
     ELSE Exits(c)
  /\ UNCHANGED <<now, ctlVars, childVars, relayVars, tokens, uses, typed>>

(* ensureWorkspace found or placed a task whose control tunnel is up. *)
Ensured(c) ==
  /\ At(c, "placing") /\ control # {}
  /\ Goes(c, "ensured")
  /\ UNCHANGED <<now, ctlVars, childVars, relayVars, tokens, uses, typed>>

(* The placement failed or timed out, the preflight blocks, or no uid could  *)
(* be resolved.                                                              *)
EndpointFails(c) ==
  /\ At(c, "placing") \/ At(c, "ensured")
  /\ Exits(c)
  /\ UNCHANGED <<now, ctlVars, childVars, relayVars, tokens, uses, typed>>

(* Slip: the announcement names the user who asks. *)
CallerAnnounced(c) == client[c].user

(* handleEndpoint announces the session's own user, whoever asks. *)
Announced(c) == SessionUser

(* prepareSession and AttachToken.  An announcement that finds no tunnel or  *)
(* is not answered is logged, and the credential handed out all the same.    *)
Mint(c) ==
  /\ At(c, "ensured") /\ Len(tokens) < MaxTokens
  /\ \/ \E t \in control : told' = [told EXCEPT ![t] = Announced(c)]
     \/ UNCHANGED told
  /\ tokens' = Append(tokens, [user |-> client[c].user, mode |-> client[c].asked,
                               expires |-> now + TTL])
  /\ client' = [client EXCEPT ![c].pc = "granted", ![c].tok = Len(tokens) + 1]
  /\ UNCHANGED <<now, ctlVars, live, runsAs, forks, exited, relayVars,
                 uses, typed>>

-----------------------------------------------------------------------------
(* The relay *)

(* The request to attach: with the credential negotiated, or one in a URL    *)
(* that is dialled a second time.                                            *)
Dial(c, n) ==
  /\ \/ At(c, "granted") /\ client[c].tok = n
     \/ At(c, "idle") /\ n \in 1..Len(tokens)
  /\ client' = [client EXCEPT ![c].pc = "dialled", ![c].tok = n]
  /\ UNCHANGED <<now, ctlVars, childVars, relayVars, tokens, uses, typed>>

(* creds.VerifyAttach and usedAttachNonces.use compare with the same expiry, *)
(* each with its own reading of the clock.                                   *)
Expired(n) == now > tokens[n].expires

VerifyAttach(c) ==
  /\ At(c, "dialled")
  /\ IF Expired(client[c].tok) THEN Exits(c) ELSE Goes(c, "verified")
  /\ UNCHANGED <<now, ctlVars, childVars, relayVars, tokens, uses, typed>>

(* usedAttachNonces.use reads the clock before it takes the lock. *)
ReadClock(c) ==
  /\ At(c, "verified")
  /\ client' = [client EXCEPT ![c].pc = "timed", ![c].at = now]
  /\ UNCHANGED <<now, ctlVars, childVars, relayVars, tokens, uses, typed>>

(* Slip: every entry is swept. *)
SweepAll(at) == {}

Unexpired(at) == {n \in seen : ~(at > tokens[n].expires)}

(* The rest of use, under the lock, with the reading from before it; and the *)
(* comparison of the session in the path with the credential's: one that is  *)
(* presented for another session is spent.                                   *)
Redeem(c) ==
  LET n == client[c].tok
      kept == Unexpired(client[c].at)
  IN
  /\ At(c, "timed")
  /\ IF n \in kept
     THEN seen' = kept /\ Exits(c) /\ UNCHANGED uses
     ELSE /\ seen' = kept \cup {n}
          /\ uses' = IF Expired(n) THEN uses ELSE [uses EXCEPT ![n] = @ + 1]
          /\ \/ client' = [client EXCEPT ![c].pc = "redeemed", ![c].at = 0]
             \/ Exits(c)
  /\ UNCHANGED <<now, ctlVars, childVars, tunnels, life, tokens, typed>>

(* PickWorkspace: the newest tunnel, or 503. *)
Route(c) ==
  /\ At(c, "redeemed")
  /\ IF tunnels = <<>> THEN Exits(c)
     ELSE client' = [client EXCEPT ![c].pc = "routed", ![c].task = Newest]
  /\ UNCHANGED <<now, ctlVars, childVars, relayVars, tokens, uses, typed>>

(* identityFor: without root, or with root and SessionUID 0, a session that  *)
(* nobody announced runs as the supervisor does; else it is refused.         *)
Identified(t) == Boundary = "set" => told[t] # Nobody
IdentityFor(t) == IF Boundary = "none" THEN Nobody ELSE told[t]

(* The supervisor's handleAttach with Create, its answer, and the upgrade.   *)
(* Without a child and without an identity it answers an error.              *)
Join(c) ==
  LET t == client[c].task
      Attaches(run) ==
        client' = [client EXCEPT ![c].pc = "attached", ![c].run = run]
  IN
  /\ At(c, "routed") /\ \E i \in DOMAIN tunnels : tunnels[i] = t
  /\ \/ live[t] # 0 /\ Attaches(live[t]) /\ UNCHANGED <<live, runsAs, forks>>
     \/ /\ live[t] = 0 /\ Identified(t)
        /\ forks' = forks + 1
        /\ live' = [live EXCEPT ![t] = forks + 1]
        /\ runsAs' = [runsAs EXCEPT ![t] = IdentityFor(t)]
        /\ Attaches(forks + 1)
     \/ /\ live[t] = 0 /\ ~Identified(t)
        /\ Exits(c) /\ UNCHANGED <<live, runsAs, forks>>
  /\ UNCHANGED <<now, ctlVars, told, exited, relayVars, tokens, uses,
                 typed>>

(* The tunnel went away between the pick and the answer. *)
JoinFails(c) ==
  /\ At(c, "routed") /\ \A i \in DOMAIN tunnels : tunnels[i] # client[c].task
  /\ Exits(c)
  /\ UNCHANGED <<now, ctlVars, childVars, relayVars, tokens, uses, typed>>

(* A keystroke: dropped for a viewer, by the relay and by the supervisor,    *)
(* both going by the mode that was signed.                                   *)
Type(c) ==
  /\ At(c, "attached") /\ client[c].link = "open"
  /\ tokens[client[c].tok].mode # "viewer"
  /\ typed' = typed \cup {client[c].tok}
  /\ UNCHANGED <<now, ctlVars, childVars, relayVars, tokens, client, uses>>

(* The detach key: the client goes, the child stays. *)
Detach(c) ==
  /\ At(c, "attached")
  /\ Exits(c)
  /\ UNCHANGED <<now, ctlVars, childVars, relayVars, tokens, uses, typed>>

-----------------------------------------------------------------------------
(* How a stream ends *)

(* finish: the attachments still open are closed for the child's end. *)
ChildExits(t) ==
  /\ live[t] # 0
  /\ exited' = exited \cup {live[t]}
  /\ live' = [live EXCEPT ![t] = 0] /\ runsAs' = [runsAs EXCEPT ![t] = Nobody]
  /\ client' = Linked(Streams(t, {"open"}), "ended")
  /\ UNCHANGED <<now, ctlVars, told, forks, relayVars, tokens, uses, typed>>

(* push: a client that is too slow loses its attachment. *)
Overflows(c) ==
  /\ At(c, "attached") /\ client[c].link = "open"
  /\ client' = Linked({c}, "overflow")
  /\ UNCHANGED <<now, ctlVars, childVars, relayVars, tokens, uses, typed>>

(* Slip: the marker is written for whatever reason the attachment closed. *)
PumpMarks(c) ==
  /\ At(c, "attached") /\ client[c].link \in {"ended", "overflow"}
  /\ client' = Linked({c}, "marker")
  /\ UNCHANGED <<now, ctlVars, childVars, relayVars, tokens, uses, typed>>

(* The pump of handleAttach: the marker if the child ended, then the stream  *)
(* is closed.                                                                *)
Pump(c) ==
  /\ At(c, "attached") /\ client[c].link \in {"ended", "overflow"}
  /\ client' = Linked({c}, IF client[c].link = "ended" THEN "marker" ELSE "eof")
  /\ UNCHANGED <<now, ctlVars, childVars, relayVars, tokens, uses, typed>>

(* The relay: a control frame is the marker, and closes the WebSocket        *)
(* normally; a stream that breaks only drops it, and lem says that the       *)
(* connection was lost.                                                      *)
Forward(c) ==
  /\ At(c, "attached") /\ client[c].link \in {"marker", "eof"}
  /\ IF client[c].link = "marker" THEN client' = Linked({c}, "normal") ELSE Exits(c)
  /\ UNCHANGED <<now, ctlVars, childVars, relayVars, tokens, uses, typed>>

(* IsCleanClose: lem says that the session ended.  The other code it takes   *)
(* for clean, going away, the relay never sends.                             *)
LemReads(c) ==
  /\ At(c, "attached") /\ client[c].link = "normal"
  /\ client' = [client EXCEPT ![c] = [Fresh EXCEPT !.pc = "ended",
                                                  !.run = client[c].run]]
  /\ UNCHANGED <<now, ctlVars, childVars, relayVars, tokens, uses, typed>>

-----------------------------------------------------------------------------
(* Tunnels, tasks and the relay's life *)

(* registry.remove; a tunnel is on the list once. *)
Without(t) ==
  IF t \in ToSet(tunnels)
  THEN RemoveAt(tunnels, CHOOSE i \in DOMAIN tunnels : tunnels[i] = t)
  ELSE tunnels

(* A data tunnel that goes breaks its streams; a marker on one may have been *)
(* read before, or is lost with it.                                          *)
Breaks(t) ==
  /\ tunnels' = Without(t)
  /\ \E K \in SUBSET Streams(t, {"marker"}) :
       client' = Linked(Streams(t, {"open", "ended", "overflow"}) \cup K, "eof")

(* ensureWorkspace finds no control tunnel of that name. *)
Place ==
  /\ control = {} /\ gen < MaxGen
  /\ gen' = gen + 1 /\ running' = running \cup {gen + 1}
  /\ UNCHANGED <<now, leaving, verified, control, childVars, relayVars, tokens,
                 client, uses, typed>>

(* handleWorkspaceTunnel reads the row and verifies, ... *)
ControlVerified(t) ==
  /\ t \in running \ (leaving \cup verified \cup control) /\ t = gen
  /\ verified' = verified \cup {t}
  /\ UNCHANGED <<now, gen, running, leaving, control, childVars, relayVars,
                 tokens, client, uses, typed>>

(* ... and registers after the upgrade, or the upgrade fails: a replacement  *)
(* may have been placed in between.                                          *)
ControlUp(t) ==
  /\ t \in verified
  /\ verified' = verified \ {t}
  /\ control' = control \cup {t} \/ UNCHANGED control
  /\ UNCHANGED <<now, gen, running, leaving, childVars, relayVars, tokens,
                 client, uses, typed>>

ControlDrops(t) ==
  /\ t \in control
  /\ control' = control \ {t}
  /\ UNCHANGED <<now, gen, running, leaving, verified, childVars, relayVars,
                 tokens, client, uses, typed>>

(* Slip: the control tunnel's 401 is retried. *)
RetryUnauthorized(t) == FALSE /\ UNCHANGED vars

(* A replaced task redials the control tunnel and is answered 401.  StopAll  *)
(* signals the children while the data tunnel is up: they may exit, and      *)
(* their clients hear of it, before the process is gone.                     *)
Unauthorized(t) ==
  /\ t \in running \ (leaving \cup verified \cup control) /\ t # gen
  /\ leaving' = leaving \cup {t}
  /\ UNCHANGED <<now, gen, running, verified, control, childVars, relayVars,
                 tokens, client, uses, typed>>

(* Run returns, and what is left goes with the process. *)
TaskExits(t) ==
  /\ t \in leaving
  /\ leaving' = leaving \ {t} /\ running' = running \ {t}
  /\ exited' = exited \cup ({live[t]} \ {0})
  /\ live' = [live EXCEPT ![t] = 0] /\ runsAs' = [runsAs EXCEPT ![t] = Nobody]
  /\ told' = [told EXCEPT ![t] = Nobody]
  /\ Breaks(t)
  /\ UNCHANGED <<now, gen, verified, control, forks, seen, life, tokens, uses,
                 typed>>

(* handleDataTunnel: the generation is announced, and the credential checked *)
(* against what was announced, so any task that runs is accepted.            *)
DataUp(t) ==
  /\ t \in running /\ \A i \in DOMAIN tunnels : tunnels[i] # t
  /\ tunnels' = Append(tunnels, t)
  /\ UNCHANGED <<now, ctlVars, childVars, seen, life, tokens, client, uses,
                 typed>>

DataDrops(t) ==
  /\ \E i \in DOMAIN tunnels : tunnels[i] = t
  /\ Breaks(t)
  /\ UNCHANGED <<now, ctlVars, childVars, seen, life, tokens, uses, typed>>

(* Close drops every tunnel, the requests in flight fail, and the new        *)
(* process has redeemed nothing.  A close frame already sent may be lost.    *)
RelayRestarts ==
  /\ life < MaxRestarts
  /\ life' = life + 1
  /\ tunnels' = <<>> /\ seen' = {} /\ uses' = [n \in Nonce |-> 0]
  /\ \E K \in SUBSET {c \in Clients : At(c, "attached") /\ client[c].link = "normal"} :
       client' = [c \in Clients |->
         IF \/ client[c].pc \in {"dialled", "verified", "timed", "redeemed", "routed"}
            \/ At(c, "attached") /\ client[c].link # "normal"
            \/ c \in K
         THEN Over ELSE client[c]]
  /\ UNCHANGED <<now, ctlVars, childVars, tokens, typed>>

-----------------------------------------------------------------------------
(* What a client's own goroutines and its request's handlers do. *)
Proceed(c) ==
  \/ Ensured(c) \/ EndpointFails(c) \/ Mint(c)
  \/ VerifyAttach(c) \/ ReadClock(c) \/ Redeem(c) \/ Route(c) \/ Join(c)
  \/ JoinFails(c) \/ Pump(c) \/ Forward(c) \/ LemReads(c)

Next ==
  \/ Tick \/ Place \/ RelayRestarts
  \/ \E c \in Clients :
       \/ Proceed(c) \/ Type(c) \/ Detach(c) \/ Overflows(c)
       \/ \E u \in Users, mode \in Mode : Negotiate(c, u, mode)
       \/ \E n \in Nonce : Dial(c, n)
  \/ \E t \in Task :
       \/ ChildExits(t) \/ ControlVerified(t) \/ ControlUp(t)
       \/ ControlDrops(t) \/ Unauthorized(t) \/ TaskExits(t)
       \/ DataUp(t) \/ DataDrops(t)

Spec == Init /\ [][Next]_vars

(* agent.Run redials the control tunnel every two seconds, for ever, and     *)
(* gives up at a 401, after which Run returns.                               *)
FairSpec ==
  /\ Spec
  /\ \A t \in Task : WF_vars(Unauthorized(t)) /\ WF_vars(TaskExits(t))

-----------------------------------------------------------------------------
Client == [pc : {"idle", "placing", "ensured", "granted", "dialled", "verified",
                 "timed", "redeemed", "routed", "attached", "ended", "over"},
           asked : Mode, user : Users, tok : 0..MaxTokens, at : 0..MaxTime,
           task : 0..MaxGen, run : Nat, link : Link]

(* Every variable has its type, and the relay routes to tasks that run. *)
TypeOK ==
  /\ now \in 0..MaxTime /\ gen \in Task /\ life \in 0..MaxRestarts
  /\ running \subseteq Task /\ leaving \subseteq running \ (verified \cup control)
  /\ verified \subseteq running /\ control \subseteq running
  /\ told \in [Task -> Users \cup {Nobody}]
  /\ live \in [Task -> Nat] /\ runsAs \in [Task -> Users \cup {Nobody}]
  /\ forks \in Nat /\ exited \subseteq Nat \ {0}
  /\ tunnels \in Seq(running) /\ seen \subseteq Nonce
  /\ tokens \in Seq(AttachClaims) /\ Len(tokens) <= MaxTokens
  /\ client \in [Clients -> Client]
  /\ uses \in [Nonce -> Nat] /\ typed \subseteq Nonce

(* Within one life of the relay a credential is redeemed at most once before *)
(* it expires, though the clock is read three times on the way and an entry  *)
(* is swept by the reading of whichever redemption comes next: a second      *)
(* redemption, its own reading late or not, is over after the expiry.        *)
ReplayOnlyAtExpiry == \A n \in Nonce : uses[n] <= 1

(* Whatever route it took, a keystroke that reached the child came over a    *)
(* credential minted for the session's own user, to drive.                   *)
DrivenByOwner ==
  \A n \in typed : tokens[n].user = SessionUser /\ tokens[n].mode = "control"

(* lem says that the session ended only when its child did: an overflow, a   *)
(* tunnel, a task or a relay that goes away at any point between the         *)
(* attachment's close and the close frame does not read as an end, after     *)
(* which the user would not come back to a session that runs.                *)
EndedMeansExited ==
  \A c \in Clients : At(c, "ended") => client[c].run \in exited

(* A child runs as the session's own user, whoever's attach forked it and    *)
(* whichever task it landed on: as the supervisor's user only where there is *)
(* no uid boundary.                                                          *)
RunsAsItsUser ==
  \A t \in Task : live[t] # 0 =>
    \/ runsAs[t] = SessionUser
    \/ runsAs[t] = Nobody /\ Boundary # "set"

(* The relay cannot tell a replaced task from the current one.  Once the     *)
(* control plane no longer has the replaced task, nor has verified it, the   *)
(* 401 ends it, and the relay routes to it no more, for good.                *)
StaleRouteEnds ==
  \A t \in Task :
    (t < gen /\ t \notin control \cup verified)
      ~> [](t \notin {tunnels[i] : i \in DOMAIN tunnels})
=============================================================================

----------------------------- MODULE Supervisor -----------------------------
(***************************************************************************)
(* The supervisor of a workspace task, for one session id: the handlers    *)
(* that start it (handleStartSession, and handleAttach when it creates),   *)
(* stop it and delete it, the manager's table of sessions, the child       *)
(* processes with their readers, the gateway broker's loopback listeners,  *)
(* and the conversation on disk.  Ids do not interact: every table is      *)
(* keyed by one.                                                           *)
(*                                                                         *)
(* An id lives through several sessions, one after the other; a session is *)
(* an object, numbered in the order of the forks.  An action is the code   *)
(* between two points where another goroutine can run.                     *)
(***************************************************************************)
EXTENDS Integers, FiniteSets

CONSTANTS
  Handlers,   \* goroutines serving a stream of the control or data tunnel
  Nil,        \* no session, no listener
  MaxForks,   \* bound: children forked, and listeners opened
  Members     \* whether sessions run as members, each in a home of their own

ASSUME SupervisorAssumption ==
  MaxForks \in Nat \ {0} /\ Nil \notin Nat /\ Members \in BOOLEAN

Object == 1..MaxForks

VARIABLES
  pc,         \* per handler: where it is
  obj,        \* per handler: the session it forked or is waiting for
  via,        \* per handler: the listener the child will be pointed at
  table,      \* Manager.sessions[id]
  child,      \* per session: its process
  killed,     \* per session: whether it was sent SIGKILL
  reader,     \* per session: readLoop and what follows it
  proxy,      \* per session: the listener its environment names
  broker,     \* Broker.sessions[id]
  listening,  \* the listeners that serve
  opened,     \* how many were opened
  transcript, \* whether the id's conversation is on disk
  known       \* identities: whether a member was announced for the id

handlerVars == <<pc, obj, via>>
sessionVars == <<table, child, killed, reader, proxy>>
brokerVars  == <<broker, listening, opened>>
vars == <<handlerVars, sessionVars, brokerVars, transcript, known>>

Init ==
  /\ pc = [h \in Handlers |-> "idle"]
  /\ obj = [h \in Handlers |-> Nil]
  /\ via = [h \in Handlers |-> Nil]
  /\ table = Nil
  /\ child = [o \in Object |-> "none"]
  /\ killed = [o \in Object |-> FALSE]
  /\ reader = [o \in Object |-> "none"]
  /\ proxy = [o \in Object |-> Nil]
  /\ broker = Nil /\ listening = {} /\ opened = 0
  /\ transcript = FALSE
  /\ known = FALSE

Returns(h) ==
  /\ pc' = [pc EXCEPT ![h] = "idle"]
  /\ obj' = [obj EXCEPT ![h] = Nil]
  /\ via' = [via EXCEPT ![h] = Nil]

-----------------------------------------------------------------------------
(* handleSessionIdentity *)
SessionIdentity ==
  /\ known' = TRUE
  /\ UNCHANGED <<handlerVars, sessionVars, brokerVars, transcript>>

(* handleStartSession, or an attach that creates: the table has no such      *)
(* session, and identityFor knows whose it is.  A hit is answered with the   *)
(* session it found, an unknown identity with an error.                      *)
StartMiss(h) ==
  /\ pc[h] = "idle" /\ table = Nil
  /\ Members => known
  /\ pc' = [pc EXCEPT ![h] = "open"]
  /\ UNCHANGED <<obj, via, sessionVars, brokerVars, transcript, known>>

(* Broker.Open: one is there. *)
OpenHit(h) ==
  /\ pc[h] = "open" /\ broker # Nil
  /\ via' = [via EXCEPT ![h] = broker]
  /\ pc' = [pc EXCEPT ![h] = "create"]
  /\ UNCHANGED <<obj, sessionVars, brokerVars, transcript, known>>

(* None is there: listen outside the broker's lock, ... *)
OpenMiss(h) ==
  /\ pc[h] = "open" /\ broker = Nil /\ opened < MaxForks
  /\ opened' = opened + 1
  /\ listening' = listening \cup {opened + 1}
  /\ via' = [via EXCEPT ![h] = opened + 1]
  /\ pc' = [pc EXCEPT ![h] = "store"]
  /\ UNCHANGED <<obj, sessionVars, broker, transcript, known>>

(* ... then register it, over any that got there first. *)
OpenStore(h) ==
  /\ pc[h] = "store"
  /\ broker' = via[h]
  /\ pc' = [pc EXCEPT ![h] = "create"]
  /\ UNCHANGED <<obj, via, sessionVars, listening, opened, transcript, known>>

OpenFails(h) ==
  /\ pc[h] = "open" /\ broker = Nil
  /\ Returns(h)
  /\ UNCHANGED <<sessionVars, brokerVars, transcript, known>>

(* Manager.Create: the id is taken, or the fork fails. *)
CreateFails(h) ==
  /\ pc[h] = "create"
  /\ Returns(h)
  /\ UNCHANGED <<sessionVars, brokerVars, transcript, known>>

(* The id is free, and the child is forked outside the manager's lock. *)
Fork(h) ==
  /\ pc[h] = "create" /\ table = Nil
  /\ \E o \in Object :
       /\ \A n \in Object : child[n] = "none" <=> n >= o
       /\ child' = [child EXCEPT ![o] = "running"]
       /\ proxy' = [proxy EXCEPT ![o] = via[h]]
       /\ obj' = [obj EXCEPT ![h] = o]
  /\ pc' = [pc EXCEPT ![h] = "register"]
  /\ UNCHANGED <<via, table, killed, reader, brokerVars, transcript, known>>

(* Create's second look, and the reader's start.  (Slip: nobody looks.)      *)
AnyId == TRUE
IdFree == table = Nil
StartReader(o) == reader' = [reader EXCEPT ![o] = "reading"]

Register(h) ==
  /\ pc[h] = "register" /\ IdFree
  /\ table' = obj[h]
  /\ StartReader(obj[h])
  /\ Returns(h)
  /\ UNCHANGED <<child, killed, proxy, brokerVars, transcript, known>>

(* A concurrent Create won: this child is killed, and has no reader. *)
RegisterLost(h) ==
  /\ pc[h] = "register" /\ ~IdFree
  /\ killed' = [killed EXCEPT ![obj[h]] = TRUE]
  /\ Returns(h)
  /\ UNCHANGED <<table, child, reader, proxy, brokerVars, transcript, known>>

-----------------------------------------------------------------------------
(* handleDeleteSession: a forced stop, ...  (Slip: SIGHUP, which the child   *)
(* may ignore.)                                                              *)
Hangup(o) == UNCHANGED killed
Kill(o) == killed' = [killed EXCEPT ![o] = TRUE]

DeleteGet(h) ==
  /\ pc[h] = "idle" /\ table # Nil
  /\ Kill(table)
  /\ obj' = [obj EXCEPT ![h] = table]
  /\ pc' = [pc EXCEPT ![h] = "wait"]
  /\ UNCHANGED <<via, table, child, reader, proxy, brokerVars, transcript,
                 known>>

DeleteMiss(h) ==
  /\ pc[h] = "idle" /\ table = Nil
  /\ pc' = [pc EXCEPT ![h] = "remove"]
  /\ UNCHANGED <<obj, via, sessionVars, brokerVars, transcript, known>>

(* ... waited for, ...  (Slip: it is not.)                                   *)
NoWait(o) == TRUE
Done(o) == reader[o] \in {"finished", "reaped", "done"}
DeleteWaited(h) ==
  /\ pc[h] = "wait" /\ Done(obj[h])
  /\ pc' = [pc EXCEPT ![h] = "remove"]
  /\ UNCHANGED <<obj, via, sessionVars, brokerVars, transcript, known>>

(* ... then the conversation is removed, from the supervisor's own           *)
(* configuration directory.  A member's is in their home.                    *)
DeleteRemove(h) ==
  /\ pc[h] = "remove"
  /\ transcript' = (transcript /\ Members)
  /\ Returns(h)
  /\ UNCHANGED <<sessionVars, brokerVars, known>>

(* handleStopSession, with force.  Without, it is a SIGHUP that the child    *)
(* may take as a reason to exit, which it may do at any time.                *)
Stop ==
  /\ table # Nil /\ ~killed[table]
  /\ killed' = [killed EXCEPT ![table] = TRUE]
  /\ UNCHANGED <<handlerVars, table, child, reader, proxy, brokerVars,
                 transcript, known>>

-----------------------------------------------------------------------------
(* The child keeps its conversation on disk, and ends when it likes. *)
ChildWrites(o) ==
  /\ child[o] = "running"
  /\ transcript' = TRUE
  /\ UNCHANGED <<handlerVars, sessionVars, brokerVars, known>>

ChildExits(o) ==
  /\ child[o] = "running"
  /\ child' = [child EXCEPT ![o] = "gone"]
  /\ UNCHANGED <<handlerVars, table, killed, reader, proxy, brokerVars,
                 transcript, known>>

(* finish: the attachments are closed and done is. *)
Finish(o) ==
  /\ reader[o] = "reading" /\ child[o] = "gone"
  /\ reader' = [reader EXCEPT ![o] = "finished"]
  /\ UNCHANGED <<handlerVars, table, child, killed, proxy, brokerVars,
                 transcript, known>>

(* Manager.reap: whatever the id names leaves the table. *)
Reap(o) ==
  /\ reader[o] = "finished"
  /\ table' = Nil
  /\ reader' = [reader EXCEPT ![o] = "reaped"]
  /\ UNCHANGED <<handlerVars, child, killed, proxy, brokerVars, transcript,
                 known>>

(* onSessionExit: whatever listener the id names is closed. *)
OnExit(o) ==
  /\ reader[o] = "reaped"
  /\ listening' = listening \ {broker}
  /\ broker' = Nil
  /\ reader' = [reader EXCEPT ![o] = "done"]
  /\ UNCHANGED <<handlerVars, table, child, killed, proxy, opened, transcript,
                 known>>

Create(h) ==
  \/ StartMiss(h) \/ OpenHit(h) \/ OpenMiss(h) \/ OpenStore(h) \/ OpenFails(h)
  \/ CreateFails(h) \/ Fork(h) \/ Register(h) \/ RegisterLost(h)
DeleteSession(h) ==
  DeleteGet(h) \/ DeleteMiss(h) \/ DeleteWaited(h) \/ DeleteRemove(h)
Session(o) ==
  ChildWrites(o) \/ ChildExits(o) \/ Finish(o) \/ Reap(o) \/ OnExit(o)

Next ==
  \/ SessionIdentity \/ Stop
  \/ \E h \in Handlers : Create(h) \/ DeleteSession(h)
  \/ \E o \in Object : Session(o)

Spec == Init /\ [][Next]_vars

(* A process sent SIGKILL dies, a reader whose child is gone goes on to its  *)
(* end, and a handler in a delete runs.  Nothing is assumed of a child that  *)
(* was not killed: it may ignore SIGHUP for ever.                            *)
Fairness ==
  /\ \A o \in Object : /\ WF_vars(killed[o] /\ ChildExits(o))
                       /\ WF_vars(Finish(o) \/ Reap(o) \/ OnExit(o))
  /\ \A h \in Handlers : WF_vars(DeleteWaited(h) \/ DeleteRemove(h))
FairSpec == Spec /\ Fairness

-----------------------------------------------------------------------------
(* Every variable has its type. *)
TypeOK ==
  /\ pc \in [Handlers -> {"idle", "open", "store", "create", "register",
                          "wait", "remove"}]
  /\ obj \in [Handlers -> Object \cup {Nil}]
  /\ via \in [Handlers -> Object \cup {Nil}]
  /\ table \in Object \cup {Nil}
  /\ child \in [Object -> {"none", "running", "gone"}]
  /\ killed \in [Object -> BOOLEAN]
  /\ reader \in [Object -> {"none", "reading", "finished", "reaped", "done"}]
  /\ proxy \in [Object -> Object \cup {Nil}]
  /\ broker \in Object \cup {Nil} /\ listening \subseteq Object
  /\ opened \in 0..MaxForks
  /\ transcript \in BOOLEAN /\ known \in BOOLEAN

(* A duplicate create never orphans a running child: one that runs is the    *)
(* session the table names, is about to be registered by the handler that    *)
(* forked it, or has been killed because another won.                        *)
NoOrphan ==
  \A o \in Object : child[o] = "running" =>
    \/ table = o
    \/ killed[o]
    \/ \E h \in Handlers : pc[h] = "register" /\ obj[h] = o

(* The table only names a session with a reader that will take it out again, *)
(* and reap, which goes by the id, takes out the session it is for.          *)
TableIsOwned ==
  \A o \in Object :
    /\ table = o => reader[o] \in {"reading", "finished"}
    /\ reader[o] \in {"reading", "finished"} => table = o

(* The conversation is not removed under the session delete found running:   *)
(* a child that still runs would write it again.                             *)
DeleteAfterExit ==
  \A h \in Handlers : pc[h] = "remove" /\ obj[h] # Nil
                        => child[obj[h]] = "gone"

(* A delete is answered, though the child ignores SIGHUP. *)
DeleteReturns ==
  \A h \in Handlers : pc[h] \in {"wait", "remove"} ~> pc[h] = "idle"

-----------------------------------------------------------------------------
(* The inductive invariant behind NoOrphan, TableIsOwned and DeleteAfterExit.*)

(* A handler holds a session that was forked; the one it is about to         *)
(* register is its own alone, and has no reader yet.                         *)
HandlersHold ==
  \A h \in Handlers :
    /\ obj[h] # Nil => child[obj[h]] # "none"
    /\ pc[h] \in {"idle", "open", "store", "create"} => obj[h] = Nil
    /\ pc[h] = "wait" => obj[h] # Nil
    /\ pc[h] = "register" =>
         /\ obj[h] # Nil
         /\ reader[obj[h]] = "none"
         /\ \A g \in Handlers : pc[g] = "register" /\ obj[g] = obj[h] => g = h

(* A reader has a child, and is past its loop only when that is gone. *)
ReadersFollow ==
  \A o \in Object :
    /\ reader[o] # "none" => child[o] # "none"
    /\ reader[o] \in {"finished", "reaped", "done"} => child[o] = "gone"

SupervisorInv ==
  /\ TypeOK /\ HandlersHold /\ ReadersFollow
  /\ NoOrphan /\ TableIsOwned /\ DeleteAfterExit
=============================================================================

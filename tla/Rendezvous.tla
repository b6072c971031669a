---------------------------- MODULE Rendezvous ----------------------------
(***************************************************************************)
(* What a store with a blocking read promises: the newest value offered    *)
(* under a key, or a place in the queue for the next one.  A publication   *)
(* reaches, in one step, everybody who waits for it; nobody waits while    *)
(* there is something to have.                                             *)
(*                                                                         *)
(* The tunnel registry (WaitWorkspace, AddWorkspace) and the preflight     *)
(* store (wait, put) are two such stores, each with a lock, a list of      *)
(* channels and sends made after unlocking: see Tunnels.                   *)
(***************************************************************************)
CONSTANTS Callers, Keys, Values, None

VARIABLES
  offer,   \* key -> the value on offer
  call     \* caller -> how far its one call has come

Call == [st  : {"new", "waiting", "owed", "answered", "gone"},
         key : Keys \cup {None},
         val : Values \cup {None}]

Init ==
  /\ offer = [k \in Keys |-> None]
  /\ call = [c \in Callers |-> [st |-> "new", key |-> None, val |-> None]]

Ask(c, k) ==
  /\ call[c].st = "new"
  /\ call' = [call EXCEPT ![c] =
       IF offer[k] = None THEN [st |-> "waiting", key |-> k, val |-> None]
       ELSE [st |-> "answered", key |-> k, val |-> offer[k]]]
  /\ UNCHANGED offer

(* Everybody waiting is owed the value at once. *)
Publish(k, v) ==
  /\ offer' = [offer EXCEPT ![k] = v]
  /\ call' = [c \in Callers |->
       IF call[c].st = "waiting" /\ call[c].key = k
       THEN [call[c] EXCEPT !.st = "owed", !.val = v] ELSE call[c]]

(* What was on offer is taken back; an older value may show again. *)
Withdraw(k, v) ==
  /\ offer[k] # None
  /\ offer' = [offer EXCEPT ![k] = v]
  /\ UNCHANGED call

Deliver(c) ==
  /\ call[c].st = "owed"
  /\ call' = [call EXCEPT ![c].st = "answered"]
  /\ UNCHANGED offer

(* The caller gives up, or is done with its answer. *)
Go(c) ==
  /\ call[c].st # "gone"
  /\ call' = [call EXCEPT ![c] = [st |-> "gone", key |-> None, val |-> None]]
  /\ UNCHANGED offer

Next ==
  \/ \E c \in Callers : Deliver(c) \/ Go(c) \/ \E k \in Keys : Ask(c, k)
  \/ \E k \in Keys :
       \/ \E v \in Values : Publish(k, v)
       \/ \E v \in Values \cup {None} : Withdraw(k, v)

Spec == Init /\ [][Next]_<<offer, call>>

(* Every variable has its type, and who waits does so at a key. *)
TypeOK ==
  /\ offer \in [Keys -> Values \cup {None}]
  /\ call \in [Callers -> Call]
  /\ \A c \in Callers : call[c].st = "waiting" => call[c].key \in Keys

(* Nobody waits for what is there: what WaitWorkspace's look at the registry *)
(* and its joining the waiters under one lock are for.                       *)
NobodyForgotten ==
  \A c \in Callers : call[c].st = "waiting" => offer[call[c].key] = None

(* Whoever leaves the queue does so with the value then on offer, or gave    *)
(* up: AddWorkspace takes the whole list of waiters, and put does.           *)
QueueEndsWithValue ==
  [][\A c \in Callers :
       call[c].st = "waiting" /\ call'[c].st # "waiting" =>
         \/ call'[c].st = "gone"
         \/ call'[c].st = "owed" /\ call'[c].val = offer'[call[c].key]]_<<offer, call>>
=============================================================================

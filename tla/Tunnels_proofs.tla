--------------------------- MODULE Tunnels_proofs ---------------------------
(***************************************************************************)
(* Proofs about Tunnels, for any number of workspaces, tasks, tunnels,     *)
(* runners and requests: the registry, with its lists, its locks and its   *)
(* channels, implements Rendezvous, and so does the preflight store; hence *)
(* nobody waits in vain at either, and nobody is given a tunnel or a       *)
(* runner of another organization.                                         *)
(***************************************************************************)
EXTENDS Tunnels, SequenceTheorems, TLAPS

-----------------------------------------------------------------------------
(* The inductive invariant. *)

(* A tunnel past its verification has a task; one that has not registered   *)
(* has nobody to send to.                                                    *)
TunnelsKnow ==
  \A t \in Conns :
    /\ conn[t].pc # "free" => conn[t].task \in Tasks
    /\ conn[t].pc \in {"free", "verified"} => handing[t] = {} /\ phanding[t] = {}

(* A workspace's list holds tunnels of that workspace that are up, each once.*)
ListsRight ==
  \A k \in Keys :
    /\ \A i \in 1..Len(workspaces[k]) :
         conn[workspaces[k][i]].pc = "up" /\ key(workspaces[k][i]) = k
    /\ \A i, j \in 1..Len(workspaces[k]) :
         workspaces[k][i] = workspaces[k][j] => i = j

(* An organization's list holds its own runners. *)
RunnersRight ==
  \A n \in Tenants : \A i \in 1..Len(runners[n]) : TenantOf[runners[n][i]] = n

(* What a request was given is of its workspace. *)
Given(c) ==
  /\ caller[c].pc \in {"ask", "waiting", "gate", "pending"} => caller[c].key \in Keys
  /\ caller[c].got # None =>
       /\ caller[c].pc \in {"gate", "pending"}
       /\ conn[caller[c].got].pc # "free" /\ key(caller[c].got) = caller[c].key
  /\ caller[c].via # None =>
       caller[c].pc = "ask" /\ TenantOf[caller[c].via] = caller[c].key.tenant

(* Who waits is in exactly one place: on the list of its workspace, on one   *)
(* handler's list, or has the tunnel in its channel.  A channel is on one    *)
(* handler's list at most, also after its caller gave up.                    *)
Queued(c) ==
  /\ \A k \in Keys :
       c \in waiters[k] =>
         /\ caller[c].pc = "waiting" /\ caller[c].key = k /\ chan[c] = None
         /\ \A t \in Conns : c \notin handing[t]
  /\ caller[c].pc = "waiting" =>
       \/ c \in waiters[caller[c].key] \/ chan[c] # None
       \/ \E t \in Conns : c \in handing[t]
  /\ \A t \in Conns :
       c \in handing[t] =>
         /\ caller[c].pc \notin {"new", "ask"} /\ chan[c] = None
         /\ \A x \in Conns : c \in handing[x] => x = t
         /\ caller[c].pc = "waiting" => key(t) = caller[c].key
  /\ chan[c] # None =>
       /\ caller[c].pc = "waiting"
       /\ conn[chan[c]].pc # "free" /\ key(chan[c]) = caller[c].key

(* The same of who waits for a verdict. *)
QueuedVerdict(c) ==
  /\ \A k \in Keys :
       c \in pwaiters[k] =>
         /\ caller[c].pc = "pending" /\ caller[c].key = k /\ pchan[c] = None
         /\ \A t \in Conns : c \notin phanding[t]
  /\ caller[c].pc = "pending" =>
       \/ c \in pwaiters[caller[c].key] \/ pchan[c] # None
       \/ \E t \in Conns : c \in phanding[t]
  /\ \A t \in Conns :
       c \in phanding[t] =>
         /\ caller[c].pc \notin {"new", "ask", "waiting", "gate"} /\ pchan[c] = None
         /\ \A x \in Conns : c \in phanding[x] => x = t
  /\ pchan[c] # None => caller[c].pc = "pending"

CallersRight ==
  \A c \in Callers : Given(c) /\ Queued(c) /\ QueuedVerdict(c)

TunnelsInv ==
  TypeOK /\ TunnelsKnow /\ ListsRight /\ RunnersRight /\ CallersRight

-----------------------------------------------------------------------------
(* Facts about types and lists. *)

(* None is no member of the other sets. *)
LEMMA NoneOutside ==
  /\ None \notin Keys /\ None \notin Tasks /\ None \notin Conns
  /\ None \notin Runners /\ None \notin Callers
  BY TunnelsAssumption

(* A verified tunnel is of a workspace. *)
LEMMA KeyType ==
  ASSUME TunnelsInv, NEW t \in Conns, conn[t].pc # "free"
  PROVE  conn[t].task \in Tasks /\ key(t) \in Keys
  BY TunnelsAssumption DEF TunnelsInv, TunnelsKnow, key

(* What Finish leaves of a request. *)
LEMMA FreshType ==
  ASSUME NEW pc \in {"new", "failed", "admitted", "refused"}
  PROVE  /\ [Fresh EXCEPT !.pc = pc] \in Caller
         /\ [Fresh EXCEPT !.pc = pc].pc = pc
         /\ [Fresh EXCEPT !.pc = pc].got = None
         /\ [Fresh EXCEPT !.pc = pc].via = None
  BY DEF Fresh, Caller

(* PickWorkspace: the newest tunnel of a list, if it has one. *)
LEMMA NewestFields ==
  ASSUME TunnelsInv, NEW k \in Keys
  PROVE  /\ Newest(k) \in Conns \cup {None}
         /\ Newest(k) = None <=> workspaces[k] = <<>>
         /\ Newest(k) # None => conn[Newest(k)].pc = "up" /\ key(Newest(k)) = k
<1>1. workspaces[k] \in Seq(Conns)
  BY DEF TunnelsInv, TypeOK
<1>2. CASE workspaces[k] = <<>>
  BY <1>2 DEF Newest
<1>3. CASE workspaces[k] # <<>>
  <2>1. Len(workspaces[k]) \in 1..Len(workspaces[k])
    BY <1>1, <1>3, EmptySeq, LenProperties
  <2>2. Newest(k) = workspaces[k][Len(workspaces[k])]
    BY <1>3 DEF Newest, Last
  <2>3. Newest(k) \in Conns
    BY <1>1, <2>1, <2>2, ElementOfSeq
  <2> QED
    BY <1>3, <2>1, <2>2, <2>3, NoneOutside DEF TunnelsInv, ListsRight
<1> QED
  BY <1>2, <1>3

(* What is left of a list when one place is cut out. *)
LEMMA RemoveAtFields ==
  ASSUME NEW S, NEW s \in Seq(S), NEW i \in 1..Len(s)
  PROVE  /\ RemoveAt(s, i) \in Seq(S) /\ Len(RemoveAt(s, i)) = Len(s) - 1
         /\ \A j \in 1..(Len(s) - 1) :
              RemoveAt(s, i)[j] = IF j < i THEN s[j] ELSE s[j + 1]
<1> DEFINE a == SubSeq(s, 1, i - 1)
           b == SubSeq(s, i + 1, Len(s))
<1>1. Len(s) \in Nat /\ \A j \in 1..Len(s) : s[j] \in S
  BY LenProperties, ElementOfSeq
<1>2. /\ a \in Seq(S) /\ Len(a) = i - 1
      /\ \A j \in 1..(i - 1) : a[j] = s[j]
  BY <1>1, SubSeqProperties
<1>3. b \in Seq(S) /\ Len(b) = Len(s) - i
  <2>1. \A j \in (i + 1)..Len(s) : s[j] \in S
    BY <1>1
  <2>2. i + 1 \in Int /\ Len(s) \in Int /\ 1 <= i + 1
    BY <1>1
  <2> QED
    BY <1>1, <2>1, <2>2, SubSeqProperties
<1>4. ASSUME NEW j \in 1..(Len(s) - i) PROVE b[j] = s[i + j]
  BY <1>1
<1> HIDE DEF a, b
<1>5. /\ a \o b \in Seq(S) /\ Len(a \o b) = Len(a) + Len(b)
      /\ \A j \in 1..(Len(a) + Len(b)) :
           (a \o b)[j] = IF j <= Len(a) THEN a[j] ELSE b[j - Len(a)]
  BY <1>2, <1>3, ConcatProperties
<1>6. ASSUME NEW j \in 1..(Len(s) - 1)
      PROVE  (a \o b)[j] = IF j < i THEN s[j] ELSE s[j + 1]
  <2>1. CASE j < i
    BY <1>1, <1>2, <1>3, <1>5, <2>1
  <2>2. CASE ~(j < i)
    <3>1. j - Len(a) \in 1..(Len(s) - i) /\ i + (j - Len(a)) = j + 1
      BY <1>1, <1>2, <2>2
    <3>2. (a \o b)[j] = b[j - Len(a)]
      BY <1>1, <1>2, <1>3, <1>5, <2>2
    <3> QED
      BY <1>4, <2>2, <3>1, <3>2
  <2> QED
    BY <2>1, <2>2
<1>7. RemoveAt(s, i) = a \o b
  BY DEF RemoveAt, a, b
<1>8. Len(a \o b) = Len(s) - 1
  BY <1>1, <1>2, <1>3, <1>5
<1> QED
  BY <1>5, <1>6, <1>7, <1>8

(* remove leaves what was there, each once, and not what it removed. *)
LEMMA RemoveFields ==
  ASSUME NEW S, NEW ts \in Seq(S), NEW t
  PROVE  /\ remove(ts, t) \in Seq(S)
         /\ \A i \in 1..Len(remove(ts, t)) :
              \E j \in 1..Len(ts) : remove(ts, t)[i] = ts[j]
         /\ (\A i, j \in 1..Len(ts) : ts[i] = ts[j] => i = j) =>
              /\ \A i \in 1..Len(remove(ts, t)) : remove(ts, t)[i] # t
              /\ \A i, j \in 1..Len(remove(ts, t)) :
                   remove(ts, t)[i] = remove(ts, t)[j] => i = j
<1>1. Len(ts) \in Nat /\ DOMAIN ts = 1..Len(ts)
  BY LenProperties
<1>2. CASE t \notin ToSet(ts)
  BY <1>1, <1>2 DEF remove, ToSet
<1>3. CASE t \in ToSet(ts)
  <2> DEFINE i == CHOOSE i \in DOMAIN ts : ts[i] = t
             w == RemoveAt(ts, i)
             at(m) == IF m < i THEN m ELSE m + 1
  <2>1. i \in 1..Len(ts) /\ ts[i] = t
    BY <1>1, <1>3 DEF ToSet
  <2>2. remove(ts, t) = w
    BY <1>3 DEF remove
  <2> HIDE DEF i
  <2>3. /\ w \in Seq(S) /\ Len(w) = Len(ts) - 1
        /\ \A j \in 1..(Len(ts) - 1) : w[j] = IF j < i THEN ts[j] ELSE ts[j + 1]
    BY <2>1, RemoveAtFields
  <2> HIDE DEF w
  <2>4. \A j \in 1..Len(w) : at(j) \in 1..Len(ts) /\ at(j) # i /\ w[j] = ts[at(j)]
    BY <1>1, <2>1, <2>3
  <2>5. \A j, k \in 1..Len(w) : at(j) = at(k) => j = k
    BY <1>1, <2>1, <2>3
  <2> HIDE DEF at
  <2>6. ASSUME \A j, k \in 1..Len(ts) : ts[j] = ts[k] => j = k
        PROVE  /\ \A j \in 1..Len(w) : w[j] # t
               /\ \A j, k \in 1..Len(w) : w[j] = w[k] => j = k
    BY <2>1, <2>4, <2>5, <2>6
  <2> QED
    BY <2>2, <2>3, <2>4, <2>6
<1> QED
  BY <1>2, <1>3

-----------------------------------------------------------------------------
(* What a step that leaves a part of the state alone leaves true of it. *)

(* A tunnel keeps its task. *)
ConnsKept ==
  \A t \in Conns :
    conn[t].pc # "free" => conn'[t].pc # "free" /\ conn'[t].task = conn[t].task

(* A request that did not move still has what is its own. *)
LEMMA GivenStays ==
  ASSUME TunnelsInv, ConnsKept, NEW c \in Callers, caller'[c] = caller[c]
  PROVE  Given(c)'
<1>1. Given(c) /\ caller[c].got \in Conns \cup {None}
  BY DEF TunnelsInv, CallersRight, TypeOK, Caller
<1> QED
  BY <1>1 DEF Given, ConnsKept, key

(* A wait that nobody touched is as it was. *)
LEMMA QueuedStays ==
  ASSUME TunnelsInv, ConnsKept, NEW c \in Callers,
         caller'[c] = caller[c], chan'[c] = chan[c],
         \A k \in Keys : c \in waiters'[k] <=> c \in waiters[k],
         \A t \in Conns : c \in handing'[t] <=> c \in handing[t]
  PROVE  Queued(c)'
<1>1. /\ Queued(c) /\ Given(c) /\ chan[c] \in Conns \cup {None}
      /\ \A t \in Conns : c \in handing[t] => conn[t].pc # "free"
  BY DEF TunnelsInv, CallersRight, TypeOK, TunnelsKnow
<1>2. \A t \in Conns : c \in handing[t] => key(t)' = key(t)
  BY <1>1 DEF ConnsKept, key
<1>3. chan[c] # None => conn'[chan[c]].pc # "free" /\ KeyOf[conn'[chan[c]].task] = key(chan[c])
  BY <1>1 DEF Queued, ConnsKept, key
<1>4. caller[c].pc = "waiting" => caller[c].key \in Keys
  BY <1>1 DEF Given
<1> QED
  BY <1>1, <1>2, <1>3, <1>4 DEF Queued, key

(* So is a wait for a verdict. *)
LEMMA QueuedVerdictStays ==
  ASSUME TunnelsInv, NEW c \in Callers,
         caller'[c] = caller[c], pchan'[c] = pchan[c],
         \A k \in Keys : c \in pwaiters'[k] <=> c \in pwaiters[k],
         \A t \in Conns : c \in phanding'[t] <=> c \in phanding[t]
  PROVE  QueuedVerdict(c)'
<1>1. QueuedVerdict(c) /\ Given(c)
  BY DEF TunnelsInv, CallersRight
<1>2. caller[c].pc = "pending" => caller[c].key \in Keys
  BY <1>1 DEF Given
<1> QED
  BY <1>1, <1>2 DEF QueuedVerdict

(* The lists are right while their tunnels stay up. *)
LEMMA ListsStay ==
  ASSUME TunnelsInv, workspaces' = workspaces,
         \A t \in Conns : conn[t].pc = "up" =>
           conn'[t].pc = "up" /\ conn'[t].task = conn[t].task
  PROVE  ListsRight'
<1> SUFFICES ASSUME NEW k \in Keys
             PROVE  /\ \A i \in 1..Len(workspaces[k]) :
                         /\ conn'[workspaces[k][i]].pc = "up"
                         /\ KeyOf[conn'[workspaces[k][i]].task] = k
                    /\ \A i, j \in 1..Len(workspaces[k]) :
                         workspaces[k][i] = workspaces[k][j] => i = j
  BY DEF ListsRight, key
<1>1. workspaces[k] \in Seq(Conns)
  BY DEF TunnelsInv, TypeOK
<1>2. \A i \in 1..Len(workspaces[k]) : workspaces[k][i] \in Conns
  BY <1>1, ElementOfSeq
<1> QED
  BY <1>2 DEF TunnelsInv, ListsRight, key

(* So are the runners'. *)
LEMMA RunnersStay ==
  ASSUME TunnelsInv, runners' = runners PROVE RunnersRight'
  BY DEF TunnelsInv, RunnersRight

-----------------------------------------------------------------------------
(* The steps keep the invariant. *)

(* Init establishes it. *)
LEMMA InitInv ==
  ASSUME Init PROVE TunnelsInv
<1>1. TypeOK
  BY DEF Init, TypeOK, Conn, Caller, Fresh
<1>2. TunnelsKnow
  BY DEF Init, TunnelsKnow
<1>3. ListsRight /\ RunnersRight
  BY EmptySeq DEF Init, ListsRight, RunnersRight
<1>4. CallersRight
  BY DEF Init, CallersRight, Given, Queued, QueuedVerdict, Fresh
<1> QED
  BY <1>1, <1>2, <1>3, <1>4 DEF TunnelsInv

(* What happens to the tasks, and what their ends of the tunnels do, moves   *)
(* no handler and no request.                                                *)
LEMMA TasksInv ==
  ASSUME TunnelsInv,
         current' \in [Keys -> Tasks \cup {None}], running' \subseteq Tasks,
         conn' \in [Conns -> Conn],
         \A t \in Conns : conn'[t].pc = conn[t].pc /\ conn'[t].task = conn[t].task,
         UNCHANGED <<store, verdict, fleet, caller>>
  PROVE  TunnelsInv'
<1> USE DEF store, verdict, fleet
<1>1. TypeOK'
  BY DEF TunnelsInv, TypeOK
<1>2. TunnelsKnow'
  BY DEF TunnelsInv, TunnelsKnow
<1>3. ListsRight' /\ RunnersRight'
  BY ListsStay, RunnersStay
<1>4. ConnsKept
  BY DEF ConnsKept
<1>5. CallersRight'
  BY <1>4, GivenStays, QueuedStays, QueuedVerdictStays DEF CallersRight
<1> QED
  BY <1>1, <1>2, <1>3, <1>5 DEF TunnelsInv

(* Tasks are placed and end. *)
LEMMA NextTaskInv ==
  ASSUME TunnelsInv, NEW task \in Tasks,
         NextTask(task) \/ Unauthorized(task) \/ TaskExits(task)
  PROVE  TunnelsInv'
<1>1. /\ current \in [Keys -> Tasks \cup {None}] /\ running \subseteq Tasks
      /\ conn \in [Conns -> Conn]
  BY DEF TunnelsInv, TypeOK
<1>2. CASE NextTask(task) \/ Unauthorized(task)
  BY <1>1, <1>2, TasksInv DEF NextTask, Unauthorized
<1>3. CASE TaskExits(task)
  BY <1>1, <1>3, TasksInv DEF TaskExits, Conn
<1> QED
  BY <1>2, <1>3

(* The task's end of a tunnel fails, or all are closed. *)
LEMMA CutInv ==
  ASSUME TunnelsInv, CloseAll \/ \E t \in Conns : Cut(t)
  PROVE  TunnelsInv'
<1>1. /\ current \in [Keys -> Tasks \cup {None}] /\ running \subseteq Tasks
      /\ conn \in [Conns -> Conn]
  BY DEF TunnelsInv, TypeOK
<1>2. CASE CloseAll
  BY <1>1, <1>2, TasksInv DEF CloseAll, tasks, Conn
<1>3. ASSUME NEW t \in Conns, Cut(t) PROVE TunnelsInv'
  BY <1>1, <1>3, TasksInv DEF Cut, tasks, Conn
<1> QED
  BY <1>2, <1>3

(* A tunnel that is verified is on no list yet, and has nobody to send to. *)
LEMMA VerifyInv ==
  ASSUME TunnelsInv, NEW t \in Conns, NEW task \in Tasks, Verify(t, task)
  PROVE  TunnelsInv'
<1> USE DEF store, verdict, fleet, tasks
<1>1. /\ conn[t].pc = "free" /\ conn' \in [Conns -> Conn]
      /\ conn'[t].pc = "verified" /\ conn'[t].task = task
      /\ \A x \in Conns : x # t => conn'[x] = conn[x]
      /\ UNCHANGED <<current, running, store, verdict, fleet, caller>>
  <2> DEFINE new == [conn[t] EXCEPT !.pc = "verified", !.task = task]
  <2>1. conn \in [Conns -> Conn] /\ conn' = [conn EXCEPT ![t] = new]
    BY DEF TunnelsInv, TypeOK, Verify
  <2>2. new \in Conn /\ new.pc = "verified" /\ new.task = task
    BY <2>1 DEF Conn
  <2> HIDE DEF new
  <2>3. /\ conn' \in [Conns -> Conn] /\ conn'[t] = new
        /\ \A x \in Conns : x # t => conn'[x] = conn[x]
    BY <2>1, <2>2
  <2> QED
    BY <2>2, <2>3 DEF Verify
<1>2. TypeOK'
  BY <1>1 DEF TunnelsInv, TypeOK
<1>3. TunnelsKnow'
  BY <1>1 DEF TunnelsInv, TunnelsKnow
<1>4. ListsRight' /\ RunnersRight'
  BY <1>1, ListsStay, RunnersStay
<1>5. ConnsKept
  BY <1>1 DEF ConnsKept
<1>6. CallersRight'
  BY <1>1, <1>5, GivenStays, QueuedStays, QueuedVerdictStays DEF CallersRight
<1> QED
  BY <1>2, <1>3, <1>4, <1>6 DEF TunnelsInv

(* AddWorkspace: the waiters of the workspace go from its list to the        *)
(* tunnel's, all of them and in one step.                                    *)
LEMMA AddWorkspaceInv ==
  ASSUME TunnelsInv, NEW t \in Conns, AddWorkspace(t)
  PROVE  TunnelsInv'
<1> USE DEF store, verdict, fleet, tasks
<1> DEFINE k == key(t)
<1>1. /\ conn[t].pc = "verified" /\ conn' \in [Conns -> Conn]
      /\ conn'[t].pc = "up" /\ conn'[t].task = conn[t].task
      /\ \A x \in Conns : x # t => conn'[x] = conn[x]
      /\ UNCHANGED <<current, running, chan, verdict, fleet, caller>>
  BY DEF TunnelsInv, TypeOK, AddWorkspace, Conn
<1>2. k \in Keys /\ conn[t].task \in Tasks /\ handing[t] = {} /\ phanding[t] = {}
  BY <1>1, KeyType DEF TunnelsInv, TunnelsKnow
<1>3. /\ workspaces' = [workspaces EXCEPT ![k] = Append(@, t)]
      /\ handing' = [handing EXCEPT ![t] = waiters[k]]
      /\ waiters' = [waiters EXCEPT ![k] = {}]
  BY DEF AddWorkspace
<1>4. key(t)' = k /\ \A x \in Conns : key(x)' = key(x)
  BY <1>1 DEF key
<1> HIDE DEF k
<1>5. /\ workspaces \in [Keys -> Seq(Conns)] /\ handing \in [Conns -> SUBSET Callers]
      /\ waiters \in [Keys -> SUBSET Callers]
  BY DEF TunnelsInv, TypeOK
<1>6. /\ workspaces' \in [Keys -> Seq(Conns)] /\ workspaces'[k] = Append(workspaces[k], t)
      /\ \A l \in Keys : l # k => workspaces'[l] = workspaces[l]
  BY <1>2, <1>3, <1>5, AppendProperties
<1>7. /\ handing' \in [Conns -> SUBSET Callers] /\ handing'[t] = waiters[k]
      /\ \A x \in Conns : x # t => handing'[x] = handing[x]
      /\ waiters' \in [Keys -> SUBSET Callers] /\ waiters'[k] = {}
      /\ \A l \in Keys : l # k => waiters'[l] = waiters[l]
  BY <1>2, <1>3, <1>5
<1>8. TypeOK'
  BY <1>1, <1>6, <1>7 DEF TunnelsInv, TypeOK
<1>9. TunnelsKnow'
  BY <1>1, <1>2, <1>7 DEF TunnelsInv, TunnelsKnow
<1>10. ListsRight'
  <2> SUFFICES ASSUME NEW l \in Keys
               PROVE  /\ \A i \in 1..Len(workspaces'[l]) :
                           /\ conn'[workspaces'[l][i]].pc = "up"
                           /\ KeyOf[conn'[workspaces'[l][i]].task] = l
                      /\ \A i, j \in 1..Len(workspaces'[l]) :
                           workspaces'[l][i] = workspaces'[l][j] => i = j
    BY DEF ListsRight, key
  <2>1. workspaces[l] \in Seq(Conns) /\ Len(workspaces[l]) \in Nat
    BY <1>5, LenProperties
  <2>2. \A i \in 1..Len(workspaces[l]) :
          /\ workspaces[l][i] \in Conns /\ workspaces[l][i] # t
          /\ conn'[workspaces[l][i]].pc = "up"
          /\ KeyOf[conn'[workspaces[l][i]].task] = l
    BY <1>1, <2>1, ElementOfSeq DEF TunnelsInv, ListsRight, key
  <2>3. \A i, j \in 1..Len(workspaces[l]) : workspaces[l][i] = workspaces[l][j] => i = j
    BY DEF TunnelsInv, ListsRight
  <2>4. CASE l # k
    BY <1>6, <2>2, <2>3, <2>4
  <2>5. CASE l = k
    <3>1. /\ Len(workspaces'[l]) = Len(workspaces[l]) + 1
          /\ \A i \in 1..Len(workspaces[l]) : workspaces'[l][i] = workspaces[l][i]
          /\ workspaces'[l][Len(workspaces[l]) + 1] = t
      BY <1>6, <2>1, <2>5, AppendProperties
    <3>2. \A i \in 1..Len(workspaces'[l]) :
            i \in 1..Len(workspaces[l]) \/ i = Len(workspaces[l]) + 1
      BY <2>1, <3>1
    <3>3. KeyOf[conn'[t].task] = l
      BY <1>4, <2>5 DEF key
    <3> QED
      BY <1>1, <2>2, <2>3, <3>1, <3>2, <3>3
  <2> QED
    BY <2>4, <2>5
<1>11. RunnersRight'
  BY <1>1, RunnersStay
<1>12. ConnsKept
  BY <1>1 DEF ConnsKept
<1>13. ASSUME NEW c \in Callers PROVE Queued(c)'
  <2>1. CASE c \in waiters[k]
    <3>1. /\ caller[c].pc = "waiting" /\ caller[c].key = k /\ chan[c] = None
          /\ \A x \in Conns : c \notin handing[x]
      BY <1>2, <2>1 DEF TunnelsInv, CallersRight, Queued
    <3>2. \A l \in Keys : c \notin waiters'[l]
      BY <1>2, <1>7, <2>1 DEF TunnelsInv, CallersRight, Queued
    <3>3. \A x \in Conns : c \in handing'[x] <=> x = t
      BY <1>7, <2>1, <3>1
    <3> QED
      BY <1>1, <1>4, <3>1, <3>2, <3>3 DEF Queued
  <2>2. CASE c \notin waiters[k]
    <3>1. \A l \in Keys : c \in waiters'[l] <=> c \in waiters[l]
      BY <1>2, <1>7, <2>2
    <3>2. \A x \in Conns : c \in handing'[x] <=> c \in handing[x]
      BY <1>2, <1>7, <2>2
    <3> QED
      BY <1>1, <1>12, <3>1, <3>2, QueuedStays
  <2> QED
    BY <2>1, <2>2
<1>14. CallersRight'
  BY <1>1, <1>12, <1>13, GivenStays, QueuedVerdictStays DEF CallersRight
<1> QED
  BY <1>8, <1>9, <1>10, <1>11, <1>14 DEF TunnelsInv

(* The send: only who still waits takes it. *)
LEMMA HandInv ==
  ASSUME TunnelsInv, NEW t \in Conns, NEW c \in Callers, Hand(t, c)
  PROVE  TunnelsInv'
<1> USE DEF store, verdict, fleet, tasks
<1>1. /\ c \in handing[t] /\ handing' \in [Conns -> SUBSET Callers]
      /\ handing'[t] = handing[t] \ {c}
      /\ \A x \in Conns : x # t => handing'[x] = handing[x]
      /\ chan' \in [Callers -> Conns \cup {None}]
      /\ chan'[c] = IF caller[c].pc = "waiting" THEN t ELSE chan[c]
      /\ \A d \in Callers : d # c => chan'[d] = chan[d]
      /\ UNCHANGED <<current, running, conn, workspaces, waiters, verdict, fleet, caller>>
  BY DEF TunnelsInv, TypeOK, Hand
<1>2. TypeOK'
  BY <1>1 DEF TunnelsInv, TypeOK
<1>3. TunnelsKnow'
  BY <1>1 DEF TunnelsInv, TunnelsKnow
<1>4. ListsRight' /\ RunnersRight'
  BY <1>1, ListsStay, RunnersStay
<1>5. ConnsKept /\ \A x \in Conns : key(x)' = key(x)
  BY <1>1 DEF ConnsKept, key
<1>6. ASSUME NEW d \in Callers PROVE Queued(d)'
  <2>1. CASE d # c
    BY <1>1, <1>5, <2>1, QueuedStays
  <2>2. CASE d = c /\ caller[c].pc = "waiting"
    <3>1. /\ chan[c] = None /\ key(t) = caller[c].key /\ conn[t].pc # "free"
          /\ \A x \in Conns : c \in handing[x] => x = t
          /\ \A k \in Keys : c \notin waiters[k]
      BY <1>1, <2>2 DEF TunnelsInv, CallersRight, Queued, TunnelsKnow
    <3>2. \A x \in Conns : c \notin handing'[x]
      BY <1>1, <3>1
    <3>3. chan'[c] = t /\ t # None
      BY <1>1, <2>2, NoneOutside
    <3>4. KeyOf[conn'[chan'[c]].task] = caller[c].key /\ conn'[chan'[c]].pc # "free"
      BY <1>1, <3>1, <3>3 DEF key
    <3> QED
      BY <1>1, <2>2, <3>1, <3>2, <3>3, <3>4 DEF Queued, key
  <2>3. CASE d = c /\ caller[c].pc # "waiting"
    <3>1. Queued(c) /\ chan'[c] = chan[c] /\ chan[c] = None
      BY <1>1, <2>3 DEF TunnelsInv, CallersRight, Queued
    <3>2. \A x \in Conns : c \in handing'[x] => c \in handing[x]
      BY <1>1
    <3> QED
      BY <1>1, <2>3, <3>1, <3>2 DEF Queued
  <2> QED
    BY <2>1, <2>2, <2>3
<1>7. CallersRight'
  BY <1>1, <1>5, <1>6, GivenStays, QueuedVerdictStays DEF CallersRight
<1> QED
  BY <1>2, <1>3, <1>4, <1>7 DEF TunnelsInv

(* put: those who wait for the verdict go from the store's list to the       *)
(* handler's, which is empty while it drains events.                         *)
LEMMA PutPreflightInv ==
  ASSUME TunnelsInv, NEW t \in Conns, PutPreflight(t)
  PROVE  TunnelsInv'
<1> USE DEF store, verdict, fleet, tasks
<1> DEFINE k == key(t)
<1>1. /\ conn[t].pc = "up" /\ phanding[t] = {} /\ conn' \in [Conns -> Conn]
      /\ \A x \in Conns : conn'[x].pc = conn[x].pc /\ conn'[x].task = conn[x].task
      /\ UNCHANGED <<current, running, store, pchan, fleet, caller>>
  BY DEF TunnelsInv, TypeOK, PutPreflight, Draining, Conn
<1>2. k \in Keys /\ conn[t].task \in Tasks
  BY <1>1, KeyType
<1>3. /\ reports' = [reports EXCEPT ![k] = conn[t].task]
      /\ phanding' = [phanding EXCEPT ![t] = pwaiters[k]]
      /\ pwaiters' = [pwaiters EXCEPT ![k] = {}]
  BY DEF PutPreflight
<1> HIDE DEF k
<1>4. /\ reports \in [Keys -> Tasks \cup {None}] /\ phanding \in [Conns -> SUBSET Callers]
      /\ pwaiters \in [Keys -> SUBSET Callers]
  BY DEF TunnelsInv, TypeOK
<1>5. /\ reports' \in [Keys -> Tasks \cup {None}]
      /\ phanding' \in [Conns -> SUBSET Callers] /\ phanding'[t] = pwaiters[k]
      /\ \A x \in Conns : x # t => phanding'[x] = phanding[x]
      /\ pwaiters' \in [Keys -> SUBSET Callers] /\ pwaiters'[k] = {}
      /\ \A l \in Keys : l # k => pwaiters'[l] = pwaiters[l]
  BY <1>2, <1>3, <1>4
<1>6. TypeOK'
  BY <1>1, <1>5 DEF TunnelsInv, TypeOK
<1>7. TunnelsKnow'
  BY <1>1, <1>5 DEF TunnelsInv, TunnelsKnow
<1>8. ListsRight' /\ RunnersRight'
  BY <1>1, ListsStay, RunnersStay
<1>9. ConnsKept
  BY <1>1 DEF ConnsKept
<1>10. ASSUME NEW c \in Callers PROVE QueuedVerdict(c)'
  <2>1. CASE c \in pwaiters[k]
    <3>1. /\ caller[c].pc = "pending" /\ caller[c].key = k /\ pchan[c] = None
          /\ \A x \in Conns : c \notin phanding[x]
      BY <1>2, <2>1 DEF TunnelsInv, CallersRight, QueuedVerdict
    <3>2. \A l \in Keys : c \notin pwaiters'[l]
      BY <1>2, <1>5, <2>1 DEF TunnelsInv, CallersRight, QueuedVerdict
    <3>3. \A x \in Conns : c \in phanding'[x] <=> x = t
      BY <1>5, <2>1, <3>1
    <3> QED
      BY <1>1, <3>1, <3>2, <3>3 DEF QueuedVerdict
  <2>2. CASE c \notin pwaiters[k]
    <3>1. \A l \in Keys : c \in pwaiters'[l] <=> c \in pwaiters[l]
      BY <1>2, <1>5, <2>2
    <3>2. \A x \in Conns : c \in phanding'[x] <=> c \in phanding[x]
      BY <1>1, <1>5, <2>2
    <3> QED
      BY <1>1, <3>1, <3>2, QueuedVerdictStays
  <2> QED
    BY <2>1, <2>2
<1>11. CallersRight'
  BY <1>1, <1>9, <1>10, GivenStays, QueuedStays DEF CallersRight
<1> QED
  BY <1>6, <1>7, <1>8, <1>11 DEF TunnelsInv

(* The send of a verdict: only who still waits takes it. *)
LEMMA HandVerdictInv ==
  ASSUME TunnelsInv, NEW t \in Conns, NEW c \in Callers, HandVerdict(t, c)
  PROVE  TunnelsInv'
<1> USE DEF store, verdict, fleet, tasks
<1>0. c \in phanding[t] /\ phanding \in [Conns -> SUBSET Callers]
  BY DEF TunnelsInv, TypeOK, HandVerdict
<1>t. conn[t].task \in Tasks
  BY <1>0 DEF TunnelsInv, TunnelsKnow
<1>1. /\ phanding' \in [Conns -> SUBSET Callers]
      /\ phanding'[t] = phanding[t] \ {c}
      /\ \A x \in Conns : x # t => phanding'[x] = phanding[x]
      /\ pchan' \in [Callers -> Tasks \cup {None}]
      /\ pchan'[c] = IF caller[c].pc = "pending" THEN conn[t].task ELSE pchan[c]
      /\ \A d \in Callers : d # c => pchan'[d] = pchan[d]
      /\ UNCHANGED <<current, running, conn, store, reports, pwaiters, fleet, caller>>
  BY <1>t DEF TunnelsInv, TypeOK, HandVerdict
<1>2. TypeOK'
  BY <1>1 DEF TunnelsInv, TypeOK
<1>3. TunnelsKnow'
  BY <1>1 DEF TunnelsInv, TunnelsKnow
<1>4. ListsRight' /\ RunnersRight'
  BY <1>1, ListsStay, RunnersStay
<1>5. ConnsKept
  BY <1>1 DEF ConnsKept
<1>6. ASSUME NEW d \in Callers PROVE QueuedVerdict(d)'
  <2>1. CASE d # c
    BY <1>1, <2>1, QueuedVerdictStays
  <2>2. CASE d = c /\ caller[c].pc = "pending"
    <3>1. /\ \A x \in Conns : c \in phanding[x] => x = t
          /\ \A k \in Keys : c \notin pwaiters[k]
      BY <1>0, <2>2 DEF TunnelsInv, CallersRight, QueuedVerdict
    <3>2. \A x \in Conns : c \notin phanding'[x]
      BY <1>1, <3>1
    <3>3. pchan'[c] # None
      BY <1>t, <1>1, <2>2, NoneOutside
    <3> QED
      BY <1>1, <2>2, <3>1, <3>2, <3>3 DEF QueuedVerdict
  <2>3. CASE d = c /\ caller[c].pc # "pending"
    <3>1. QueuedVerdict(c) /\ pchan'[c] = pchan[c] /\ pchan[c] = None
      BY <1>1, <2>3 DEF TunnelsInv, CallersRight, QueuedVerdict
    <3>2. \A x \in Conns : c \in phanding'[x] => c \in phanding[x]
      BY <1>1
    <3> QED
      BY <1>1, <2>3, <3>1, <3>2 DEF QueuedVerdict
  <2> QED
    BY <2>1, <2>2, <2>3
<1>7. CallersRight'
  BY <1>1, <1>5, <1>6, GivenStays, QueuedStays DEF CallersRight
<1> QED
  BY <1>2, <1>3, <1>4, <1>7 DEF TunnelsInv

(* The teardown takes a tunnel off the one list it is on. *)
LEMMA RemoveWorkspaceInv ==
  ASSUME TunnelsInv, NEW t \in Conns, RemoveWorkspace(t)
  PROVE  TunnelsInv'
<1> USE DEF store, verdict, fleet, tasks
<1> DEFINE k == key(t)
<1>1. /\ conn[t].pc = "up" /\ conn' \in [Conns -> Conn]
      /\ conn'[t].pc = "removed" /\ conn'[t].task = conn[t].task
      /\ \A x \in Conns : x # t => conn'[x] = conn[x]
      /\ UNCHANGED <<current, running, waiters, handing, chan, verdict, fleet, caller>>
  BY DEF TunnelsInv, TypeOK, RemoveWorkspace, Draining, Conn
<1>2. k \in Keys
  BY <1>1, KeyType
<1>3. workspaces' = [workspaces EXCEPT ![k] = remove(@, t)]
  BY DEF RemoveWorkspace
<1>4. key(t) = k
  OBVIOUS
<1> HIDE DEF k
<1>5. workspaces \in [Keys -> Seq(Conns)]
  BY DEF TunnelsInv, TypeOK
<1>6. /\ workspaces' \in [Keys -> Seq(Conns)] /\ workspaces'[k] = remove(workspaces[k], t)
      /\ \A l \in Keys : l # k => workspaces'[l] = workspaces[l]
  BY <1>2, <1>3, <1>5, RemoveFields
<1>7. TypeOK'
  BY <1>1, <1>6 DEF TunnelsInv, TypeOK
<1>8. TunnelsKnow'
  BY <1>1 DEF TunnelsInv, TunnelsKnow
<1>9. ListsRight'
  <2> SUFFICES ASSUME NEW l \in Keys
               PROVE  /\ \A i \in 1..Len(workspaces'[l]) :
                           /\ conn'[workspaces'[l][i]].pc = "up"
                           /\ KeyOf[conn'[workspaces'[l][i]].task] = l
                      /\ \A i, j \in 1..Len(workspaces'[l]) :
                           workspaces'[l][i] = workspaces'[l][j] => i = j
    BY DEF ListsRight, key
  <2>1. workspaces[l] \in Seq(Conns)
    BY <1>5
  <2>2. \A i \in 1..Len(workspaces[l]) :
          /\ workspaces[l][i] \in Conns /\ conn[workspaces[l][i]].pc = "up"
          /\ key(workspaces[l][i]) = l
    BY <2>1, ElementOfSeq DEF TunnelsInv, ListsRight
  <2>3. \A i, j \in 1..Len(workspaces[l]) : workspaces[l][i] = workspaces[l][j] => i = j
    BY DEF TunnelsInv, ListsRight
  <2>4. CASE l # k
    <3>1. \A i \in 1..Len(workspaces[l]) : workspaces[l][i] # t
      BY <1>4, <2>2, <2>4
    <3>2. \A i \in 1..Len(workspaces[l]) : conn'[workspaces[l][i]] = conn[workspaces[l][i]]
      BY <1>1, <2>2, <3>1
    <3>3. workspaces'[l] = workspaces[l]
      BY <1>6, <2>4
    <3> QED
      BY <2>2, <2>3, <3>2, <3>3 DEF key
  <2>5. CASE l = k
    <3> DEFINE w == remove(workspaces[l], t)
    <3>1. /\ \A i \in 1..Len(w) : \E j \in 1..Len(workspaces[l]) : w[i] = workspaces[l][j]
          /\ \A i \in 1..Len(w) : w[i] # t
          /\ \A i, j \in 1..Len(w) : w[i] = w[j] => i = j
      <4>1. PICK ts \in Seq(Conns) : ts = workspaces[l]
        BY <2>1
      <4>2. \A i \in 1..Len(remove(ts, t)) : \E j \in 1..Len(ts) : remove(ts, t)[i] = ts[j]
        BY RemoveFields
      <4>3. (\A i, j \in 1..Len(ts) : ts[i] = ts[j] => i = j) =>
              /\ \A i \in 1..Len(remove(ts, t)) : remove(ts, t)[i] # t
              /\ \A i, j \in 1..Len(remove(ts, t)) :
                   remove(ts, t)[i] = remove(ts, t)[j] => i = j
        BY RemoveFields
      <4>4. w = remove(ts, t)
        BY <4>1
      <4> HIDE DEF w
      <4> QED
        BY <2>3, <4>1, <4>2, <4>3, <4>4
    <3>2. workspaces'[l] = w
      BY <1>6, <2>5
    <3> HIDE DEF w
    <3>3. \A i \in 1..Len(w) : conn'[w[i]].pc = "up" /\ KeyOf[conn'[w[i]].task] = l
      BY <1>1, <2>2, <3>1 DEF key
    <3> QED
      BY <3>1, <3>2, <3>3
  <2> QED
    BY <2>4, <2>5
<1>10. RunnersRight'
  BY <1>1, RunnersStay
<1>11. ConnsKept
  BY <1>1 DEF ConnsKept
<1>12. CallersRight'
  BY <1>1, <1>11, GivenStays, QueuedStays, QueuedVerdictStays DEF CallersRight
<1> QED
  BY <1>7, <1>8, <1>9, <1>10, <1>12 DEF TunnelsInv

(* The report goes; no list does. *)
LEMMA ForgetPreflightInv ==
  ASSUME TunnelsInv, NEW t \in Conns, ForgetPreflight(t)
  PROVE  TunnelsInv'
<1> USE DEF store, verdict, fleet, tasks
<1>1. /\ conn[t].pc = "removed" /\ conn' \in [Conns -> Conn]
      /\ conn'[t].pc = "done" /\ conn'[t].task = conn[t].task
      /\ \A x \in Conns : x # t => conn'[x] = conn[x]
      /\ UNCHANGED <<current, running, store, pwaiters, phanding, pchan, fleet, caller>>
  BY DEF TunnelsInv, TypeOK, ForgetPreflight, Conn
<1>2. reports' \in [Keys -> Tasks \cup {None}]
  BY DEF TunnelsInv, TypeOK, ForgetPreflight
<1>3. TypeOK'
  BY <1>1, <1>2 DEF TunnelsInv, TypeOK
<1>4. TunnelsKnow'
  BY <1>1 DEF TunnelsInv, TunnelsKnow
<1>5. ListsRight' /\ RunnersRight'
  BY <1>1, ListsStay, RunnersStay
<1>6. ConnsKept
  BY <1>1 DEF ConnsKept
<1>7. CallersRight'
  BY <1>1, <1>6, GivenStays, QueuedStays, QueuedVerdictStays DEF CallersRight
<1> QED
  BY <1>3, <1>4, <1>5, <1>7 DEF TunnelsInv

(* The runner tunnels come and go; their lists stay with the organization    *)
(* each tunnel proved to be of.                                              *)
LEMMA RunnerInv ==
  ASSUME TunnelsInv, NEW r \in Runners, AddRunner(r) \/ RemoveRunner(r)
  PROVE  TunnelsInv'
<1> USE DEF store, verdict, tasks
<1>1. UNCHANGED <<current, running, conn, store, verdict, rr, caller>>
  BY DEF AddRunner, RemoveRunner
<1> DEFINE n == TenantOf[r]
<1>2. /\ n \in Tenants /\ runners \in [Tenants -> Seq(Runners)] /\ runners[n] \in Seq(Runners)
      /\ runnerUp' \in [Runners -> {"free", "up"}]
  BY TunnelsAssumption DEF TunnelsInv, TypeOK, AddRunner, RemoveRunner
<1>3. \E ts \in Seq(Runners) :
        /\ runners' = [runners EXCEPT ![n] = ts]
        /\ \A i \in 1..Len(ts) : ts[i] = r \/ \E j \in 1..Len(runners[n]) : ts[i] = runners[n][j]
  <2>1. CASE AddRunner(r)
    <3>1. runners' = [runners EXCEPT ![n] = Append(runners[n], r)]
      BY <2>1 DEF AddRunner
    <3>2. \A i \in 1..Len(Append(runners[n], r)) :
            Append(runners[n], r)[i] = r
            \/ \E j \in 1..Len(runners[n]) : Append(runners[n], r)[i] = runners[n][j]
      <4>1. /\ Len(runners[n]) \in Nat
            /\ Len(Append(runners[n], r)) = Len(runners[n]) + 1
            /\ \A i \in 1..Len(runners[n]) : Append(runners[n], r)[i] = runners[n][i]
            /\ Append(runners[n], r)[Len(runners[n]) + 1] = r
        BY <1>2, AppendProperties, LenProperties
      <4>2. \A i \in 1..(Len(runners[n]) + 1) :
              i \in 1..Len(runners[n]) \/ i = Len(runners[n]) + 1
        BY <4>1
      <4> QED
        BY <4>1, <4>2
    <3>3. Append(runners[n], r) \in Seq(Runners)
      BY <1>2, AppendProperties
    <3> QED
      BY <3>1, <3>2, <3>3
  <2>2. CASE RemoveRunner(r)
    <3>1. runners' = [runners EXCEPT ![n] = remove(runners[n], r)]
      BY <2>2 DEF RemoveRunner
    <3>2. /\ remove(runners[n], r) \in Seq(Runners)
          /\ \A i \in 1..Len(remove(runners[n], r)) :
               \E j \in 1..Len(runners[n]) : remove(runners[n], r)[i] = runners[n][j]
      BY <1>2, RemoveFields
    <3> QED
      BY <3>1, <3>2
  <2> QED
    BY <2>1, <2>2
<1>4. PICK ts \in Seq(Runners) :
        /\ runners' = [runners EXCEPT ![n] = ts]
        /\ \A i \in 1..Len(ts) : ts[i] = r \/ \E j \in 1..Len(runners[n]) : ts[i] = runners[n][j]
  BY <1>3
<1>5. TypeOK'
  BY <1>1, <1>2, <1>4 DEF TunnelsInv, TypeOK
<1>6. RunnersRight'
  <2> SUFFICES ASSUME NEW m \in Tenants, NEW i \in 1..Len(runners'[m])
               PROVE  TenantOf[runners'[m][i]] = m
    BY DEF RunnersRight
  <2>1. CASE m = n
    BY <1>2, <1>4, <2>1 DEF TunnelsInv, RunnersRight
  <2>2. CASE m # n
    BY <1>2, <1>4, <2>2 DEF TunnelsInv, RunnersRight
  <2> QED
    BY <2>1, <2>2
<1>7. TunnelsKnow' /\ ListsRight'
  <2>1. ListsRight'
    BY <1>1, ListsStay
  <2> QED
    BY <1>1, <2>1 DEF TunnelsInv, TunnelsKnow
<1>8. ConnsKept
  BY <1>1 DEF ConnsKept
<1>9. CallersRight'
  BY <1>1, <1>8, GivenStays, QueuedStays, QueuedVerdictStays DEF CallersRight
<1> QED
  BY <1>5, <1>6, <1>7, <1>9 DEF TunnelsInv

(* A step of one request moves no handler and no other request. *)
LEMMA CallerInv ==
  ASSUME TunnelsInv, NEW c \in Callers,
         UNCHANGED <<current, running, conn, workspaces, handing, reports,
                     phanding, runners, runnerUp>>,
         rr' \in Nat, caller' \in [Callers -> Caller],
         waiters' \in [Keys -> SUBSET Callers], chan' \in [Callers -> Conns \cup {None}],
         pwaiters' \in [Keys -> SUBSET Callers], pchan' \in [Callers -> Tasks \cup {None}],
         \A d \in Callers : d # c =>
           /\ caller'[d] = caller[d] /\ chan'[d] = chan[d] /\ pchan'[d] = pchan[d]
           /\ \A k \in Keys : d \in waiters'[k] <=> d \in waiters[k]
           /\ \A k \in Keys : d \in pwaiters'[k] <=> d \in pwaiters[k],
         Given(c)', Queued(c)', QueuedVerdict(c)'
  PROVE  TunnelsInv'
<1>1. TypeOK'
  BY DEF TunnelsInv, TypeOK
<1>2. TunnelsKnow'
  BY DEF TunnelsInv, TunnelsKnow
<1>3. ListsRight' /\ RunnersRight'
  BY ListsStay, RunnersStay
<1>4. ConnsKept
  BY DEF ConnsKept
<1>5. ASSUME NEW d \in Callers, d # c
      PROVE  Given(d)' /\ Queued(d)' /\ QueuedVerdict(d)'
  <2>1. Given(d)'
    BY <1>4, <1>5, GivenStays
  <2>2. Queued(d)'
    BY <1>4, <1>5, QueuedStays
  <2>3. QueuedVerdict(d)'
    BY <1>5, QueuedVerdictStays
  <2> QED
    BY <2>1, <2>2, <2>3
<1>6. CallersRight'
  BY <1>5 DEF CallersRight
<1> QED
  BY <1>1, <1>2, <1>3, <1>6 DEF TunnelsInv

(* A request that is over holds nothing and is on no list of waiters. *)
LEMMA FinishInv ==
  ASSUME TunnelsInv, NEW c \in Callers, NEW pc \in {"failed", "admitted", "refused"},
         Finish(c, pc),
         UNCHANGED <<current, running, conn, workspaces, handing, reports,
                     phanding, runners, runnerUp, rr>>,
         waiters' \in [Keys -> SUBSET Callers], chan' \in [Callers -> Conns \cup {None}],
         pwaiters' \in [Keys -> SUBSET Callers], pchan' \in [Callers -> Tasks \cup {None}],
         \A d \in Callers : d # c =>
           /\ chan'[d] = chan[d] /\ pchan'[d] = pchan[d]
           /\ \A k \in Keys : d \in waiters'[k] <=> d \in waiters[k]
           /\ \A k \in Keys : d \in pwaiters'[k] <=> d \in pwaiters[k],
         chan'[c] = None, pchan'[c] = None,
         \A k \in Keys : c \notin waiters'[k] /\ c \notin pwaiters'[k]
  PROVE  TunnelsInv'
<1> DEFINE new == [Fresh EXCEPT !.pc = pc]
<1>1. new \in Caller /\ new.pc = pc /\ new.got = None /\ new.via = None
  BY FreshType
<1>2. caller' = [caller EXCEPT ![c] = new] /\ caller \in [Callers -> Caller]
  BY DEF Finish, TunnelsInv, TypeOK
<1> HIDE DEF new
<1>3. /\ caller' \in [Callers -> Caller] /\ caller'[c] = new
      /\ \A d \in Callers : d # c => caller'[d] = caller[d]
  BY <1>1, <1>2
<1>4. Given(c)' /\ Queued(c)' /\ QueuedVerdict(c)'
  BY <1>1, <1>3 DEF TunnelsInv, CallersRight, Given, Queued, QueuedVerdict
<1>5. rr' \in Nat
  BY DEF TunnelsInv, TypeOK
<1> QED
  BY <1>3, <1>4, <1>5, CallerInv

(* The round robin picks a runner of the list. *)
LEMMA RoundRobinType ==
  ASSUME TunnelsInv, NEW n \in Tenants, runners[n] # <<>>
  PROVE  /\ RoundRobin(runners[n]) \in Runners /\ TenantOf[RoundRobin(runners[n])] = n
         /\ NextRound \in Nat
<1> DEFINE ts == runners[n]
           i == (NextRound % Len(ts)) + 1
<1>1. ts \in Seq(Runners) /\ rr \in Nat
  BY DEF TunnelsInv, TypeOK
<1>2. Len(ts) \in Nat /\ Len(ts) > 0
  BY <1>1, LenProperties, EmptySeq
<1>3. NextRound \in Nat
  BY <1>1 DEF NextRound
<1> HIDE DEF ts
<1>4. i \in 1..Len(ts)
  BY <1>2, <1>3
<1>5. ts[i] \in Runners
  BY <1>1, <1>4, ElementOfSeq
<1>6. RoundRobin(ts) = ts[i]
  BY DEF RoundRobin
<1> HIDE DEF i
<1>7. TenantOf[ts[i]] = n
  BY <1>4 DEF TunnelsInv, RunnersRight, ts
<1> QED
  BY <1>3, <1>5, <1>6, <1>7 DEF ts

(* A workspace is of an organization. *)
LEMMA TenantType ==
  ASSUME NEW k \in Keys PROVE k.tenant \in Tenants
  BY DEF Tenants

(* A request at its start, or between two waits, is on no list. *)
LEMMA NotQueued ==
  ASSUME TunnelsInv, NEW c \in Callers
  PROVE  /\ caller[c].pc # "waiting" => chan[c] = None /\ \A k \in Keys : c \notin waiters[k]
         /\ caller[c].pc # "pending" => pchan[c] = None /\ \A k \in Keys : c \notin pwaiters[k]
         /\ caller[c].pc \in {"new", "ask"} => \A t \in Conns : c \notin handing[t]
         /\ caller[c].pc \in {"new", "ask", "waiting", "gate"} =>
              \A t \in Conns : c \notin phanding[t]
  BY DEF TunnelsInv, CallersRight, Queued, QueuedVerdict

(* PickWorkspace and PickRunner give what is of the workspace, or nothing. *)
LEMMA PickWorkspaceInv ==
  ASSUME TunnelsInv, NEW c \in Callers, NEW k \in Keys, PickWorkspace(c, k)
  PROVE  TunnelsInv'
<1> USE DEF store, verdict, tasks
<1>1. /\ caller[c].pc = "new" /\ caller \in [Callers -> Caller] /\ rr \in Nat
      /\ UNCHANGED <<current, running, conn, store, verdict, runners, runnerUp>>
  BY DEF PickWorkspace, TunnelsInv, TypeOK
<1>2. /\ waiters \in [Keys -> SUBSET Callers] /\ chan \in [Callers -> Conns \cup {None}]
      /\ pwaiters \in [Keys -> SUBSET Callers] /\ pchan \in [Callers -> Tasks \cup {None}]
  BY DEF TunnelsInv, TypeOK
<1>3. /\ chan[c] = None /\ pchan[c] = None
      /\ \A l \in Keys : c \notin waiters[l] /\ c \notin pwaiters[l]
      /\ \A t \in Conns : c \notin handing[t] /\ c \notin phanding[t]
  BY <1>1, NotQueued
<1>4. CASE Newest(k) # None
  <2> DEFINE new == [caller[c] EXCEPT !.key = k, !.got = Newest(k), !.pc = "gate"]
  <2>1. Newest(k) \in Conns /\ conn[Newest(k)].pc = "up" /\ key(Newest(k)) = k
    BY <1>4, NewestFields
  <2>2. caller' = [caller EXCEPT ![c] = new] /\ rr' = rr
    BY <1>4 DEF PickWorkspace
  <2>3. /\ new \in Caller /\ new.key = k /\ new.got = Newest(k) /\ new.pc = "gate"
        /\ new.via = caller[c].via
    BY <1>1, <2>1 DEF Caller
  <2> HIDE DEF new
  <2>4. /\ caller' \in [Callers -> Caller] /\ caller'[c] = new
        /\ \A d \in Callers : d # c => caller'[d] = caller[d]
    BY <1>1, <2>2, <2>3
  <2>5. new.via = None
    BY <1>1, <2>3 DEF TunnelsInv, CallersRight, Given
  <2>6. Given(c)'
    BY <1>1, <2>1, <2>3, <2>4, <2>5 DEF Given, key
  <2>7. Queued(c)' /\ QueuedVerdict(c)'
    BY <1>1, <1>3, <2>3, <2>4 DEF Queued, QueuedVerdict
  <2> QED
    BY <1>1, <1>2, <2>2, <2>4, <2>6, <2>7, CallerInv
<1>5. CASE Newest(k) = None /\ RunnersOf(k.tenant) = <<>>
  <2>1. Finish(c, "failed") /\ rr' = rr
    BY <1>5 DEF PickWorkspace
  <2> QED
    BY <1>1, <1>2, <1>3, <2>1, FinishInv
<1>6. CASE Newest(k) = None /\ RunnersOf(k.tenant) # <<>>
  <2> DEFINE r == RoundRobin(RunnersOf(k.tenant))
             new == [caller[c] EXCEPT !.key = k, !.pc = "ask", !.via = r]
  <2>1. r \in Runners /\ TenantOf[r] = k.tenant /\ NextRound \in Nat
    BY <1>6, TenantType, RoundRobinType DEF RunnersOf
  <2>2. caller' = [caller EXCEPT ![c] = new] /\ rr' = NextRound
    BY <1>6 DEF PickWorkspace
  <2> HIDE DEF r
  <2>3. /\ new \in Caller /\ new.key = k /\ new.got = caller[c].got /\ new.pc = "ask"
        /\ new.via = r
    BY <1>1, <2>1 DEF Caller
  <2> HIDE DEF new
  <2>4. /\ caller' \in [Callers -> Caller] /\ caller'[c] = new
        /\ \A d \in Callers : d # c => caller'[d] = caller[d]
    BY <1>1, <2>2, <2>3
  <2>5. new.got = None
    BY <1>1, <2>3 DEF TunnelsInv, CallersRight, Given
  <2>6. Given(c)'
    BY <1>1, <2>1, <2>3, <2>4, <2>5 DEF Given, key
  <2>7. Queued(c)' /\ QueuedVerdict(c)'
    BY <1>1, <1>3, <2>3, <2>4 DEF Queued, QueuedVerdict
  <2> QED
    BY <1>1, <1>2, <2>1, <2>2, <2>4, <2>6, <2>7, CallerInv
<1> QED
  BY <1>4, <1>5, <1>6

(* WaitWorkspace looks and joins under one lock. *)
LEMMA WaitWorkspaceInv ==
  ASSUME TunnelsInv, NEW c \in Callers, WaitWorkspace(c)
  PROVE  TunnelsInv'
<1> USE DEF store, verdict, tasks, fleet
<1> DEFINE k == caller[c].key
           asked == [caller[c] EXCEPT !.via = None]
<1>1. /\ caller[c].pc = "ask" /\ caller \in [Callers -> Caller] /\ rr \in Nat
      /\ UNCHANGED <<current, running, conn, workspaces, handing, chan, verdict, fleet>>
  BY DEF WaitWorkspace, TunnelsInv, TypeOK
<1>2. /\ waiters \in [Keys -> SUBSET Callers] /\ chan \in [Callers -> Conns \cup {None}]
      /\ pwaiters \in [Keys -> SUBSET Callers] /\ pchan \in [Callers -> Tasks \cup {None}]
  BY DEF TunnelsInv, TypeOK
<1>3. /\ chan[c] = None /\ pchan[c] = None
      /\ \A l \in Keys : c \notin waiters[l] /\ c \notin pwaiters[l]
      /\ \A t \in Conns : c \notin handing[t] /\ c \notin phanding[t]
  BY <1>1, NotQueued
<1>4. k \in Keys /\ caller[c].got = None
  BY <1>1 DEF TunnelsInv, CallersRight, Given
<1>5. /\ asked \in Caller /\ asked.key = k /\ asked.via = None /\ asked.got = None
  BY <1>1, <1>4 DEF Caller
<1>6. CASE Newest(k) # None
  <2> DEFINE new == [asked EXCEPT !.pc = "gate", !.got = Newest(k)]
  <2>1. Newest(k) \in Conns /\ conn[Newest(k)].pc = "up" /\ key(Newest(k)) = k
    BY <1>4, <1>6, NewestFields
  <2>2. caller' = [caller EXCEPT ![c] = new] /\ waiters' = waiters
    BY <1>6 DEF WaitWorkspace
  <2> HIDE DEF asked
  <2>3. /\ new \in Caller /\ new.key = k /\ new.got = Newest(k) /\ new.pc = "gate"
        /\ new.via = None
    BY <1>5, <2>1 DEF Caller
  <2> HIDE DEF new
  <2>4. /\ caller' \in [Callers -> Caller] /\ caller'[c] = new
        /\ \A d \in Callers : d # c => caller'[d] = caller[d]
    BY <1>1, <2>2, <2>3
  <2> HIDE DEF k
  <2>5. Given(c)'
    BY <1>1, <1>4, <2>1, <2>3, <2>4 DEF Given, key
  <2>6. Queued(c)' /\ QueuedVerdict(c)'
    BY <1>1, <1>3, <2>2, <2>3, <2>4 DEF Queued, QueuedVerdict
  <2> QED
    BY <1>1, <1>2, <2>2, <2>4, <2>5, <2>6, CallerInv
<1>7. CASE Newest(k) = None
  <2> DEFINE new == [asked EXCEPT !.pc = "waiting"]
  <2>1. /\ caller' = [caller EXCEPT ![c] = new]
        /\ waiters' = [waiters EXCEPT ![k] = @ \cup {c}]
    BY <1>7 DEF WaitWorkspace
  <2> HIDE DEF asked
  <2>2. new \in Caller /\ new.key = k /\ new.got = None /\ new.pc = "waiting" /\ new.via = None
    BY <1>5 DEF Caller
  <2> HIDE DEF new
  <2>3. /\ caller' \in [Callers -> Caller] /\ caller'[c] = new
        /\ \A d \in Callers : d # c => caller'[d] = caller[d]
    BY <1>1, <2>1, <2>2
  <2> HIDE DEF k
  <2>4. /\ waiters' \in [Keys -> SUBSET Callers]
        /\ \A l \in Keys : c \in waiters'[l] <=> l = k
        /\ \A d \in Callers : d # c => \A l \in Keys : d \in waiters'[l] <=> d \in waiters[l]
    BY <1>2, <1>3, <1>4, <2>1
  <2>5. Given(c)'
    BY <1>1, <1>4, <2>2, <2>3 DEF Given
  <2>6. Queued(c)' /\ QueuedVerdict(c)'
    BY <1>1, <1>3, <1>4, <2>2, <2>3, <2>4 DEF Queued, QueuedVerdict
  <2> QED
    BY <1>1, <1>2, <2>3, <2>4, <2>5, <2>6, CallerInv
<1> QED
  BY <1>6, <1>7

(* The tunnel in the channel is taken. *)
LEMMA ReceiveInv ==
  ASSUME TunnelsInv, NEW c \in Callers, Receive(c)
  PROVE  TunnelsInv'
<1> USE DEF store, verdict, tasks, fleet
<1>1. /\ caller[c].pc = "waiting" /\ chan[c] # None /\ caller \in [Callers -> Caller]
      /\ UNCHANGED <<current, running, conn, workspaces, waiters, handing, verdict, fleet>>
      /\ chan' = [chan EXCEPT ![c] = None] /\ rr \in Nat
  BY DEF Receive, TunnelsInv, TypeOK
<1>2. /\ waiters \in [Keys -> SUBSET Callers] /\ chan \in [Callers -> Conns \cup {None}]
      /\ pwaiters \in [Keys -> SUBSET Callers] /\ pchan \in [Callers -> Tasks \cup {None}]
  BY DEF TunnelsInv, TypeOK
<1>3. Given(c) /\ Queued(c) /\ QueuedVerdict(c)
  BY DEF TunnelsInv, CallersRight
<1>4. /\ caller[c].key \in Keys /\ caller[c].via = None
      /\ conn[chan[c]].pc # "free" /\ key(chan[c]) = caller[c].key
      /\ \A k \in Keys : c \notin waiters[k]
      /\ \A t \in Conns : c \notin handing[t]
  BY <1>1, <1>3 DEF Given, Queued
<1> DEFINE new == [caller[c] EXCEPT !.pc = "gate", !.got = chan[c]]
<1>5. caller' = [caller EXCEPT ![c] = new]
  BY DEF Receive
<1>6. /\ new \in Caller /\ new.pc = "gate" /\ new.got = chan[c]
      /\ new.key = caller[c].key /\ new.via = caller[c].via
  BY <1>1, <1>2 DEF Caller
<1> HIDE DEF new
<1>7. /\ caller' \in [Callers -> Caller] /\ caller'[c] = new
      /\ \A d \in Callers : d # c => caller'[d] = caller[d]
  BY <1>1, <1>5, <1>6
<1>8. /\ chan' \in [Callers -> Conns \cup {None}] /\ chan'[c] = None
      /\ \A d \in Callers : d # c => chan'[d] = chan[d]
  BY <1>1, <1>2
<1>9. Given(c)'
  BY <1>1, <1>4, <1>6, <1>7 DEF Given, key
<1>10. Queued(c)'
  BY <1>1, <1>4, <1>6, <1>7, <1>8 DEF Queued
<1>11. QueuedVerdict(c)'
  <2>1. /\ pchan[c] = None /\ \A k \in Keys : c \notin pwaiters[k]
        /\ \A t \in Conns : c \notin phanding[t]
    BY <1>1, NotQueued
  <2> QED
    BY <1>1, <1>6, <1>7, <2>1 DEF QueuedVerdict
<1> QED
  BY <1>1, <1>2, <1>7, <1>8, <1>9, <1>10, <1>11, CallerInv

(* Who gives up takes its channel off the list. *)
LEMMA ExpireInv ==
  ASSUME TunnelsInv, NEW c \in Callers, Expire(c)
  PROVE  TunnelsInv'
<1> USE DEF store, verdict, tasks, fleet
<1>1. /\ caller[c].pc = "waiting" /\ Finish(c, "failed")
      /\ waiters' = [waiters EXCEPT ![caller[c].key] = @ \ {c}]
      /\ chan' = [chan EXCEPT ![c] = None]
      /\ UNCHANGED <<current, running, conn, workspaces, handing, verdict, fleet>>
  BY DEF Expire
<1>2. /\ waiters \in [Keys -> SUBSET Callers] /\ chan \in [Callers -> Conns \cup {None}]
      /\ pwaiters \in [Keys -> SUBSET Callers] /\ pchan \in [Callers -> Tasks \cup {None}]
  BY DEF TunnelsInv, TypeOK
<1>3. \A k \in Keys : c \in waiters[k] => caller[c].key = k
  BY DEF TunnelsInv, CallersRight, Queued
<1>4. /\ waiters' \in [Keys -> SUBSET Callers]
      /\ \A k \in Keys : c \notin waiters'[k]
      /\ \A d \in Callers : d # c => \A k \in Keys : d \in waiters'[k] <=> d \in waiters[k]
  <2>1. \A k \in Keys : waiters'[k] = waiters[k] \/ waiters'[k] = waiters[k] \ {c}
    BY <1>1, <1>2
  <2>2. \A k \in Keys : c \notin waiters'[k]
    BY <1>1, <1>2, <1>3
  <2> QED
    BY <1>1, <1>2, <2>1, <2>2
<1>5. /\ chan' \in [Callers -> Conns \cup {None}] /\ chan'[c] = None
      /\ \A d \in Callers : d # c => chan'[d] = chan[d]
  BY <1>1, <1>2
<1>6. pchan[c] = None /\ \A k \in Keys : c \notin pwaiters[k]
  BY <1>1, NotQueued
<1> QED
  BY <1>1, <1>2, <1>4, <1>5, <1>6, FinishInv

(* The gate ends a request. *)
LEMMA JudgeType ==
  ASSUME NEW rep PROVE Judge(rep) \in {"failed", "admitted", "refused"}
  BY DEF Judge

(* wait looks and joins under one lock. *)
LEMMA WaitPreflightInv ==
  ASSUME TunnelsInv, NEW c \in Callers, WaitPreflight(c)
  PROVE  TunnelsInv'
<1> USE DEF store, verdict, tasks, fleet
<1> DEFINE k == caller[c].key
<1>1. /\ caller[c].pc = "gate" /\ caller \in [Callers -> Caller] /\ rr \in Nat
      /\ UNCHANGED <<current, running, conn, store, reports, phanding, pchan, fleet>>
  BY DEF WaitPreflight, TunnelsInv, TypeOK
<1>2. /\ waiters \in [Keys -> SUBSET Callers] /\ chan \in [Callers -> Conns \cup {None}]
      /\ pwaiters \in [Keys -> SUBSET Callers] /\ pchan \in [Callers -> Tasks \cup {None}]
  BY DEF TunnelsInv, TypeOK
<1>3. /\ chan[c] = None /\ pchan[c] = None
      /\ \A l \in Keys : c \notin waiters[l] /\ c \notin pwaiters[l]
      /\ \A t \in Conns : c \notin phanding[t]
  BY <1>1, NotQueued
<1>4. CASE reports[k] # None
  <2>1. Finish(c, Judge(reports[k])) /\ pwaiters' = pwaiters
    BY <1>4 DEF WaitPreflight
  <2>2. Judge(reports[k]) \in {"failed", "admitted", "refused"}
    BY JudgeType
  <2> HIDE DEF k
  <2>3. PICK pc \in {"failed", "admitted", "refused"} : Finish(c, pc)
    BY <2>1, <2>2
  <2> QED
    BY <1>1, <1>2, <1>3, <2>1, <2>3, FinishInv
<1>5. CASE reports[k] = None
  <2> DEFINE new == [caller[c] EXCEPT !.pc = "pending"]
  <2>1. /\ caller' = [caller EXCEPT ![c] = new]
        /\ pwaiters' = [pwaiters EXCEPT ![k] = @ \cup {c}]
    BY <1>5 DEF WaitPreflight
  <2>2. /\ new \in Caller /\ new.pc = "pending" /\ new.key = k
        /\ new.got = caller[c].got /\ new.via = caller[c].via
    BY <1>1 DEF Caller
  <2>3. Given(c) /\ Queued(c) /\ k \in Keys
    BY <1>1 DEF TunnelsInv, CallersRight, Given
  <2> HIDE DEF new
  <2>4. /\ caller' \in [Callers -> Caller] /\ caller'[c] = new
        /\ \A d \in Callers : d # c => caller'[d] = caller[d]
    BY <1>1, <2>1, <2>2
  <2>5. /\ pwaiters' \in [Keys -> SUBSET Callers]
        /\ \A l \in Keys : c \in pwaiters'[l] <=> l = k
        /\ \A d \in Callers : d # c => \A l \in Keys : d \in pwaiters'[l] <=> d \in pwaiters[l]
    <3> HIDE DEF k
    <3> QED
      BY <1>2, <1>3, <2>1, <2>3
  <2>6. Given(c)'
    BY <1>1, <2>2, <2>3, <2>4 DEF Given, key
  <2>7. Queued(c)'
    BY <1>1, <1>3, <2>2, <2>3, <2>4 DEF Queued
  <2> HIDE DEF k
  <2>8. QueuedVerdict(c)'
    BY <1>1, <1>3, <2>2, <2>3, <2>4, <2>5 DEF QueuedVerdict
  <2> QED
    BY <1>1, <1>2, <2>4, <2>5, <2>6, <2>7, <2>8, CallerInv
<1> QED
  BY <1>4, <1>5

(* A verdict comes, or the wait is over. *)
LEMMA VerdictInv ==
  ASSUME TunnelsInv, NEW c \in Callers, ReceiveVerdict(c) \/ ExpireVerdict(c)
  PROVE  TunnelsInv'
<1> USE DEF store, verdict, tasks, fleet
<1>1. /\ caller[c].pc = "pending" /\ pchan' = [pchan EXCEPT ![c] = None]
      /\ \E rep \in Tasks \cup {None} : Finish(c, Judge(rep))
      /\ UNCHANGED <<current, running, conn, store, reports, phanding, fleet>>
  BY DEF ReceiveVerdict, ExpireVerdict, TunnelsInv, TypeOK
<1>2. /\ waiters \in [Keys -> SUBSET Callers] /\ chan \in [Callers -> Conns \cup {None}]
      /\ pwaiters \in [Keys -> SUBSET Callers] /\ pchan \in [Callers -> Tasks \cup {None}]
  BY DEF TunnelsInv, TypeOK
<1>3. PICK pc \in {"failed", "admitted", "refused"} : Finish(c, pc)
  BY <1>1, JudgeType
<1>4. /\ pchan' \in [Callers -> Tasks \cup {None}] /\ pchan'[c] = None
      /\ \A d \in Callers : d # c => pchan'[d] = pchan[d]
  BY <1>1, <1>2
<1>5. chan[c] = None /\ \A k \in Keys : c \notin waiters[k]
  BY <1>1, NotQueued
<1>6. /\ \A k \in Keys : c \in pwaiters[k] => caller[c].key = k /\ pchan[c] = None
  BY DEF TunnelsInv, CallersRight, QueuedVerdict
<1>7. /\ pwaiters' \in [Keys -> SUBSET Callers]
      /\ \A k \in Keys : c \notin pwaiters'[k]
      /\ \A d \in Callers : d # c => \A k \in Keys : d \in pwaiters'[k] <=> d \in pwaiters[k]
  <2>1. CASE ReceiveVerdict(c)
    BY <1>2, <1>6, <2>1 DEF ReceiveVerdict
  <2>2. CASE ExpireVerdict(c)
    <3>1. pwaiters' = [pwaiters EXCEPT ![caller[c].key] = @ \ {c}]
      BY <2>2 DEF ExpireVerdict
    <3>2. \A k \in Keys : pwaiters'[k] = pwaiters[k] \/ pwaiters'[k] = pwaiters[k] \ {c}
      BY <1>2, <3>1
    <3>3. \A k \in Keys : c \notin pwaiters'[k]
      BY <1>2, <1>6, <3>1
    <3> QED
      BY <1>2, <3>1, <3>2, <3>3
  <2> QED
    BY <2>1, <2>2
<1> QED
  BY <1>1, <1>2, <1>3, <1>4, <1>5, <1>7, FinishInv

(* Every step keeps the invariant. *)
LEMMA NextInv ==
  ASSUME TunnelsInv, [Next]_vars PROVE TunnelsInv'
<1>1. CASE UNCHANGED vars
  <2>1. /\ current \in [Keys -> Tasks \cup {None}] /\ running \subseteq Tasks
        /\ conn \in [Conns -> Conn]
    BY DEF TunnelsInv, TypeOK
  <2> QED
    BY <1>1, <2>1, TasksInv DEF vars, tasks
<1>2. CASE \E task \in Tasks : NextTask(task) \/ Unauthorized(task) \/ TaskExits(task)
  BY <1>2, NextTaskInv
<1>3. ASSUME NEW t \in Conns, Handler(t) PROVE TunnelsInv'
  BY <1>3, AddWorkspaceInv, PutPreflightInv, RemoveWorkspaceInv, ForgetPreflightInv,
     HandInv, HandVerdictInv DEF Handler
<1>4. CASE CloseAll \/ \E t \in Conns : Cut(t)
  BY <1>4, CutInv
<1>5. ASSUME NEW t \in Conns, NEW task \in Tasks, Verify(t, task) PROVE TunnelsInv'
  BY <1>5, VerifyInv
<1>6. CASE \E r \in Runners : AddRunner(r) \/ RemoveRunner(r)
  BY <1>6, RunnerInv
<1>7. ASSUME NEW c \in Callers, Request(c) PROVE TunnelsInv'
  BY <1>7, WaitWorkspaceInv, ReceiveInv, ExpireInv, WaitPreflightInv, VerdictInv
     DEF Request
<1>8. ASSUME NEW c \in Callers, NEW k \in Keys, PickWorkspace(c, k) PROVE TunnelsInv'
  BY <1>8, PickWorkspaceInv
<1> QED
  BY <1>1, <1>2, <1>3, <1>4, <1>5, <1>6, <1>7, <1>8 DEF Next

(* The lists, the channels and the requests always fit together, whatever    *)
(* the handlers and the requests do between two sections of the locks.       *)
THEOREM TunnelsInvariant == Spec => []TunnelsInv
<1>1. Init => TunnelsInv
  BY InitInv
<1>2. TunnelsInv /\ [Next]_vars => TunnelsInv'
  BY NextInv
<1> QED
  BY <1>1, <1>2, PTL DEF Spec

(* The variables always have their types. *)
THEOREM TunnelsTypes == Spec => []TypeOK
<1>1. TunnelsInv => TypeOK
  BY DEF TunnelsInv
<1> QED
  BY <1>1, TunnelsInvariant, PTL

(* Nobody is given a tunnel or a runner of another organization, or of       *)
(* another workspace: the keys of the registry are pairs, and a tunnel keeps *)
(* the pair it was verified for.                                             *)
THEOREM NobodyElsesTunnel == Spec => []OwnOrganization
<1>1. TunnelsInv => OwnOrganization
  BY DEF TunnelsInv, CallersRight, Given, OwnOrganization
<1> QED
  BY <1>1, TunnelsInvariant, PTL

(* No handler is held up at a channel, nor sends on one that is closed: the  *)
(* waiters' channels leave their list under the lock, all at once, and so    *)
(* each is on one handler's list at most, which sends to it once             *)
(* (AddWorkspace, put).                                                      *)
THEOREM SendsNeverBlock == Spec => []HandlerNotHeldUp
<1>1. TunnelsInv => HandlerNotHeldUp
  BY DEF TunnelsInv, CallersRight, Queued, QueuedVerdict, HandlerNotHeldUp, Room
<1> QED
  BY <1>1, TunnelsInvariant, PTL

-----------------------------------------------------------------------------
(* The registry implements Rendezvous. *)

(* How far each call has come, as the registry's lists show it. *)
CallSeen(c) ==
  /\ caller[c].pc \in {"new", "ask"} =>
       registryCall[c] = [st |-> "new", key |-> None, val |-> None]
  /\ caller[c].pc = "waiting" /\ c \in waiters[caller[c].key] =>
       registryCall[c] = [st |-> "waiting", key |-> caller[c].key, val |-> None]
  /\ \A t \in Conns :
       caller[c].pc = "waiting" /\ (chan[c] = t \/ c \in handing[t]) =>
         registryCall[c] = [st |-> "owed", key |-> caller[c].key, val |-> t]
  /\ caller[c].pc \in {"gate", "pending"} =>
       registryCall[c] = [st |-> "answered", key |-> caller[c].key, val |-> caller[c].got]
  /\ caller[c].pc \in {"failed", "admitted", "refused"} =>
       registryCall[c] = [st |-> "gone", key |-> None, val |-> None]

(* Who waits is either on the list or is owed one tunnel. *)
PlaceSeen(c) ==
  caller[c].pc = "waiting" =>
    /\ caller[c].key \in Keys
    /\ c \in waiters[caller[c].key] \/ \E t \in Conns : chan[c] = t \/ c \in handing[t]
    /\ \A t \in Conns :
         chan[c] = t \/ c \in handing[t] => c \notin waiters[caller[c].key]

RegistrySeen ==
  /\ registryCall = [c \in Callers |-> registryCall[c]]
  /\ registryOffer = [k \in Keys |-> Newest(k)]
  /\ \A c \in Callers : CallSeen(c) /\ PlaceSeen(c) /\ caller[c] \in Caller

(* Of a set of one, CHOOSE takes that one. *)
LEMMA ChooseOnly ==
  ASSUME NEW S, NEW x \in S, \A y \in S : y = x
  PROVE  (CHOOSE y \in S : TRUE) = x
  OBVIOUS

(* The invariant fixes what Owed is, and with it the call. *)
LEMMA SeesRegistry == TunnelsInv => RegistrySeen
<1> SUFFICES ASSUME TunnelsInv PROVE RegistrySeen
  OBVIOUS
<1>1. registryCall = [c \in Callers |-> registryCall[c]]
  BY DEF registryCall
<1>2. registryOffer = [k \in Keys |-> Newest(k)]
  BY DEF registryOffer
<1>3. ASSUME NEW c \in Callers PROVE CallSeen(c) /\ PlaceSeen(c) /\ caller[c] \in Caller
  <2>1. /\ Given(c) /\ Queued(c) /\ chan[c] \in Conns \cup {None} /\ caller[c] \in Caller
    BY DEF TunnelsInv, CallersRight, TypeOK
  <2>2. PlaceSeen(c)
    BY <2>1, NoneOutside DEF PlaceSeen, Given, Queued
  <2>3. caller[c].pc \in {"new", "ask"} =>
          registryCall[c] = [st |-> "new", key |-> None, val |-> None]
    BY DEF registryCall, Mapped
  <2>4. ASSUME caller[c].pc = "waiting", c \in waiters[caller[c].key]
        PROVE  registryCall[c] = [st |-> "waiting", key |-> caller[c].key, val |-> None]
    <3>1. chan[c] = None /\ {t \in Conns : c \in handing[t]} = {}
      BY <2>1, <2>4 DEF Given, Queued
    <3>2. Owed(c) = None
      BY <3>1 DEF Owed
    <3>3. registryCall[c] = Mapped(c, "waiting", None)
      BY <2>4, <3>2 DEF registryCall
    <3> QED
      BY <3>3 DEF Mapped
  <2>5. ASSUME NEW t \in Conns, caller[c].pc = "waiting", chan[c] = t \/ c \in handing[t]
        PROVE  registryCall[c] = [st |-> "owed", key |-> caller[c].key, val |-> t]
    <3>1. Owed(c) = t
      <4>1. CASE chan[c] = t
        BY <4>1, NoneOutside DEF Owed
      <4>2. CASE c \in handing[t]
        <5> DEFINE S == {x \in Conns : c \in handing[x]}
        <5>1. chan[c] = None /\ t \in S /\ \A x \in S : x = t
          BY <2>1, <2>5, <4>2 DEF Queued
        <5>2. Owed(c) = IF S = {} THEN None ELSE CHOOSE x \in S : TRUE
          BY <5>1 DEF Owed
        <5> HIDE DEF S
        <5>3. (CHOOSE x \in S : TRUE) = t
          BY <5>1, ChooseOnly
        <5> QED
          BY <5>1, <5>2, <5>3
      <4> QED
        BY <2>5, <4>1, <4>2
    <3>2. registryCall[c] = Mapped(c, "owed", t)
      BY <2>5, <3>1, NoneOutside DEF registryCall
    <3> QED
      BY <3>2 DEF Mapped
  <2>6. caller[c].pc \in {"gate", "pending"} =>
          registryCall[c] = [st |-> "answered", key |-> caller[c].key, val |-> caller[c].got]
    BY DEF registryCall, Mapped
  <2>7. caller[c].pc \in {"failed", "admitted", "refused"} =>
          registryCall[c] = [st |-> "gone", key |-> None, val |-> None]
    BY DEF registryCall, Mapped
  <2> QED
    BY <2>1, <2>2, <2>3, <2>4, <2>5, <2>6, <2>7 DEF CallSeen
<1> QED
  BY <1>1, <1>2, <1>3 DEF RegistrySeen

(* The same of the next state. *)
LEMMA SeesRegistryNext == TunnelsInv' => RegistrySeen'
  BY SeesRegistry, PTL

(* A call does not move when its request does not, and a send only moves the *)
(* tunnel from the handler's list to the channel.                            *)
LEMMA CallStays ==
  ASSUME RegistrySeen, RegistrySeen', NEW c \in Callers, caller'[c] = caller[c],
         \A t \in Conns :
           (chan'[c] = t \/ c \in handing'[t]) <=> (chan[c] = t \/ c \in handing[t])
  PROVE  registryCall'[c] = registryCall[c]
<1>1. /\ CallSeen(c) /\ PlaceSeen(c) /\ caller[c] \in Caller
      /\ CallSeen(c)' /\ PlaceSeen(c)'
  BY DEF RegistrySeen
<1>2. CASE caller[c].pc = "waiting"
  <2>1. CASE c \in waiters[caller[c].key]
    <3>1. \A t \in Conns : ~(chan[c] = t \/ c \in handing[t])
      BY <1>1, <1>2, <2>1 DEF PlaceSeen
    <3>2. c \in waiters'[caller[c].key]
      BY <1>1, <1>2, <3>1 DEF PlaceSeen
    <3> QED
      BY <1>1, <1>2, <2>1, <3>2 DEF CallSeen
  <2>2. CASE c \notin waiters[caller[c].key]
    <3>1. PICK t \in Conns : chan[c] = t \/ c \in handing[t]
      BY <1>1, <1>2, <2>2 DEF PlaceSeen
    <3> QED
      BY <1>1, <1>2, <3>1 DEF CallSeen
  <2> QED
    BY <2>1, <2>2
<1>3. CASE caller[c].pc # "waiting"
  BY <1>1, <1>3 DEF CallSeen, Caller
<1> QED
  BY <1>2, <1>3

(* Calls are equal when each is. *)
LEMMA CallsStay ==
  ASSUME RegistrySeen, RegistrySeen',
         \A c \in Callers : registryCall'[c] = registryCall[c]
  PROVE  registryCall' = registryCall
  BY DEF RegistrySeen

(* One call moves. *)
LEMMA OneCall ==
  ASSUME RegistrySeen, RegistrySeen', NEW c \in Callers, NEW new, registryCall'[c] = new,
         \A d \in Callers : d # c => registryCall'[d] = registryCall[d]
  PROVE  registryCall' = [registryCall EXCEPT ![c] = new]
  BY DEF RegistrySeen

(* What is on offer depends on the lists only. *)
LEMMA OffersStay ==
  ASSUME workspaces' = workspaces PROVE registryOffer' = registryOffer
  BY DEF registryOffer, Newest

(* What keeps the lists, the channels and the requests. *)
LEMMA QuietSim ==
  ASSUME TunnelsInv, TunnelsInv', UNCHANGED <<workspaces, handing, chan, caller>>
  PROVE  UNCHANGED <<registryOffer, registryCall>>
<1>1. RegistrySeen /\ RegistrySeen'
  BY SeesRegistry, SeesRegistryNext
<1> QED
  BY <1>1, CallStays, CallsStay, OffersStay

(* A send is no step of the rendezvous. *)
LEMMA HandSim ==
  ASSUME TunnelsInv, TunnelsInv', NEW t \in Conns, NEW c \in Callers, Hand(t, c)
  PROVE  UNCHANGED <<registryOffer, registryCall>>
<1>1. RegistrySeen /\ RegistrySeen'
  BY SeesRegistry, SeesRegistryNext
<1>2. /\ c \in handing[t] /\ handing'[t] = handing[t] \ {c}
      /\ \A x \in Conns : x # t => handing'[x] = handing[x]
      /\ chan'[c] = IF caller[c].pc = "waiting" THEN t ELSE chan[c]
      /\ \A d \in Callers : d # c => chan'[d] = chan[d]
      /\ caller' = caller /\ workspaces' = workspaces
  BY DEF TunnelsInv, TypeOK, Hand
<1>3. ASSUME NEW d \in Callers, d # c PROVE registryCall'[d] = registryCall[d]
  BY <1>1, <1>2, <1>3, CallStays
<1>4. registryCall'[c] = registryCall[c]
  <2>1. CASE caller[c].pc = "waiting"
    <3>1. chan[c] = None /\ \A x \in Conns : c \in handing[x] => x = t
      BY <1>2, <2>1 DEF TunnelsInv, CallersRight, Queued
    <3>2. \A x \in Conns : (chan'[c] = x \/ c \in handing'[x])
                             <=> (chan[c] = x \/ c \in handing[x])
      BY <1>2, <2>1, <3>1, NoneOutside
    <3> QED
      BY <1>1, <1>2, <3>2, CallStays
  <2>2. CASE caller[c].pc # "waiting"
    BY <1>1, <1>2, <2>2 DEF RegistrySeen, CallSeen, Caller
  <2> QED
    BY <2>1, <2>2
<1> QED
  BY <1>1, <1>2, <1>3, <1>4, CallsStay, OffersStay

(* Rendezvous' Publish on one call. *)
LEMMA OwedRecord ==
  ASSUME NEW k, NEW v, NEW r, r = [st |-> "waiting", key |-> k, val |-> None]
  PROVE  [r EXCEPT !.st = "owed", !.val = v] = [st |-> "owed", key |-> k, val |-> v]
<1>1. [r EXCEPT !.st = "owed", !.val = v] = [[r EXCEPT !.st = "owed"] EXCEPT !.val = v]
  OBVIOUS
<1>2. [r EXCEPT !.st = "owed"] = [st |-> "owed", key |-> k, val |-> None]
  OBVIOUS
<1>3. [[st |-> "owed", key |-> k, val |-> None] EXCEPT !.val = v]
        = [st |-> "owed", key |-> k, val |-> v]
  OBVIOUS
<1> QED
  BY <1>1, <1>2, <1>3

(* AddWorkspace publishes: everybody on the list is owed the tunnel at once. *)
LEMMA AddWorkspaceSim ==
  ASSUME TunnelsInv, TunnelsInv', NEW t \in Conns, AddWorkspace(t)
  PROVE  \E k \in Keys : Registry!Publish(k, t)
<1>1. RegistrySeen /\ RegistrySeen'
  BY SeesRegistry, SeesRegistryNext
<1>2. conn[t].pc = "verified" /\ caller' = caller /\ chan' = chan
  BY DEF AddWorkspace
<1>k. PICK k \in Keys : k = key(t)
  BY <1>2, KeyType
<1>3. k \in Keys /\ handing[t] = {}
  BY <1>2 DEF TunnelsInv, TunnelsKnow
<1>4. /\ workspaces' = [workspaces EXCEPT ![k] = Append(@, t)]
      /\ handing' = [handing EXCEPT ![t] = waiters[k]]
  BY <1>k DEF AddWorkspace
<1>5. workspaces \in [Keys -> Seq(Conns)] /\ handing \in [Conns -> SUBSET Callers]
  BY DEF TunnelsInv, TypeOK
<1>6. registryOffer' = [registryOffer EXCEPT ![k] = t]
  <2>1. \A l \in Keys : l # k => Newest(l)' = Newest(l)
    BY <1>3, <1>4, <1>5 DEF Newest
  <2>2. Newest(k)' = t
    <3>1. /\ workspaces[k] \in Seq(Conns) /\ workspaces'[k] = Append(workspaces[k], t)
      BY <1>3, <1>4, <1>5
    <3>2. /\ Len(workspaces'[k]) = Len(workspaces[k]) + 1 /\ Len(workspaces[k]) \in Nat
          /\ workspaces'[k][Len(workspaces[k]) + 1] = t
      BY <3>1, AppendProperties, LenProperties
    <3>3. workspaces'[k] # <<>>
      BY <3>2, EmptySeq
    <3> QED
      BY <3>2, <3>3 DEF Newest, Last
  <2> QED
    BY <1>1, <1>3, <2>1, <2>2 DEF RegistrySeen
<1>7. ASSUME NEW c \in Callers
      PROVE  registryCall'[c] =
               IF registryCall[c].st = "waiting" /\ registryCall[c].key = k
               THEN [registryCall[c] EXCEPT !.st = "owed", !.val = t] ELSE registryCall[c]
  <2>1. CASE c \in waiters[k]
    <3>1. caller[c].pc = "waiting" /\ caller[c].key = k
      BY <1>3, <2>1 DEF TunnelsInv, CallersRight, Queued
    <3>2. registryCall[c] = [st |-> "waiting", key |-> k, val |-> None]
      BY <1>1, <2>1, <3>1 DEF RegistrySeen, CallSeen
    <3>3. c \in handing'[t]
      BY <1>4, <1>5, <2>1
    <3>4. registryCall'[c] = [st |-> "owed", key |-> k, val |-> t]
      BY <1>1, <1>2, <3>1, <3>3 DEF RegistrySeen, CallSeen
    <3>5. registryCall[c].st = "waiting" /\ registryCall[c].key = k
      BY <3>2
    <3>6. [registryCall[c] EXCEPT !.st = "owed", !.val = t]
            = [st |-> "owed", key |-> k, val |-> t]
      BY <3>2, OwedRecord
    <3> QED
      BY <3>4, <3>5, <3>6
  <2>2. CASE c \notin waiters[k]
    <3>1. \A x \in Conns : c \in handing'[x] <=> c \in handing[x]
      BY <1>3, <1>4, <1>5, <2>2
    <3>2. registryCall'[c] = registryCall[c]
      BY <1>1, <1>2, <3>1, CallStays
    <3>3. ~(registryCall[c].st = "waiting" /\ registryCall[c].key = k)
      <4>1. CallSeen(c) /\ PlaceSeen(c) /\ caller[c] \in Caller
        BY <1>1 DEF RegistrySeen
      <4>2. CASE caller[c].pc = "waiting" /\ c \in waiters[caller[c].key]
        BY <2>2, <4>1, <4>2 DEF CallSeen
      <4>3. CASE caller[c].pc = "waiting" /\ c \notin waiters[caller[c].key]
        <5>1. PICK x \in Conns : chan[c] = x \/ c \in handing[x]
          BY <4>1, <4>3 DEF PlaceSeen
        <5>2. registryCall[c] = [st |-> "owed", key |-> caller[c].key, val |-> x]
          BY <4>1, <4>3, <5>1 DEF CallSeen
        <5> QED
          BY <5>2
      <4>4. CASE caller[c].pc # "waiting"
        BY <4>1, <4>4 DEF CallSeen, Caller
      <4> QED
        BY <4>2, <4>3, <4>4
    <3> QED
      BY <3>2, <3>3
  <2> QED
    BY <2>1, <2>2
<1>8. registryCall' = [c \in Callers |->
        IF registryCall[c].st = "waiting" /\ registryCall[c].key = k
        THEN [registryCall[c] EXCEPT !.st = "owed", !.val = t] ELSE registryCall[c]]
  <2>1. registryCall' = [c \in Callers |-> registryCall'[c]]
    BY <1>1 DEF RegistrySeen
  <2> QED
    BY <1>7, <2>1
<1> QED
  BY <1>3, <1>6, <1>8 DEF Registry!Publish

(* The teardown withdraws; an older tunnel may show again. *)
LEMMA RemoveWorkspaceSim ==
  ASSUME TunnelsInv, TunnelsInv', NEW t \in Conns, RemoveWorkspace(t)
  PROVE  \/ UNCHANGED <<registryOffer, registryCall>>
         \/ \E k \in Keys : \E v \in Conns \cup {None} : Registry!Withdraw(k, v)
<1>1. RegistrySeen /\ RegistrySeen'
  BY SeesRegistry, SeesRegistryNext
<1>2. conn[t].pc = "up" /\ UNCHANGED <<caller, chan, handing>>
  BY DEF RemoveWorkspace, Draining
<1>3. PICK k \in Keys : k = key(t)
  BY <1>2, KeyType
<1> DEFINE v == Newest(k)'
<1>4. workspaces' = [workspaces EXCEPT ![k] = remove(@, t)]
  BY <1>3 DEF RemoveWorkspace
<1>5. registryCall' = registryCall
  BY <1>1, <1>2, CallStays, CallsStay
<1>6. workspaces \in [Keys -> Seq(Conns)] /\ workspaces' \in [Keys -> Seq(Conns)]
  BY DEF TunnelsInv, TypeOK
<1>7. \A l \in Keys : l # k => Newest(l)' = Newest(l)
  BY <1>3, <1>4, <1>6 DEF Newest
<1>8. CASE workspaces[k] = <<>>
  <2>1. workspaces'[k] = workspaces[k]
    <3>1. DOMAIN workspaces[k] = {}
      BY <1>8, EmptySeq
    <3>2. t \notin ToSet(workspaces[k])
      BY <3>1 DEF ToSet
    <3> QED
      BY <1>3, <1>4, <1>6, <3>2 DEF remove
  <2>2. workspaces' = workspaces
    BY <1>3, <1>4, <1>6, <2>1
  <2> QED
    BY <1>5, <2>2, OffersStay
<1>9. CASE workspaces[k] # <<>>
  <2>1. registryOffer[k] # None
    BY <1>1, <1>3, <1>9, NewestFields DEF RegistrySeen
  <2>2. v \in Conns \cup {None}
    <3>1. CASE workspaces'[k] = <<>>
      BY <3>1 DEF Newest
    <3>2. CASE workspaces'[k] # <<>>
      <4>1. workspaces'[k] \in Seq(Conns)
        BY <1>3, <1>6
      <4>2. Len(workspaces'[k]) \in 1..Len(workspaces'[k])
        BY <3>2, <4>1, EmptySeq, LenProperties
      <4>3. v = workspaces'[k][Len(workspaces'[k])]
        BY <3>2 DEF Newest, Last
      <4> QED
        BY <4>1, <4>2, <4>3, ElementOfSeq
    <3> QED
      BY <3>1, <3>2
  <2>3. registryOffer' = [registryOffer EXCEPT ![k] = v]
    BY <1>1, <1>3, <1>7 DEF RegistrySeen
  <2> HIDE DEF v
  <2>4. Registry!Withdraw(k, v)
    BY <1>5, <2>1, <2>3 DEF Registry!Withdraw
  <2> QED
    BY <1>3, <2>2, <2>4
<1> QED
  BY <1>8, <1>9

(* The steps of a request, seen as those of a call. *)
LEMMA FinishSim ==
  ASSUME TunnelsInv, TunnelsInv', NEW c \in Callers, NEW pc \in {"failed", "admitted", "refused"},
         caller[c].pc \notin {"failed", "admitted", "refused"}, Finish(c, pc),
         UNCHANGED <<workspaces, handing>>,
         \A d \in Callers : d # c => chan'[d] = chan[d]
  PROVE  Registry!Go(c)
<1>1. RegistrySeen /\ RegistrySeen'
  BY SeesRegistry, SeesRegistryNext
<1>2. caller'[c].pc = pc /\ \A d \in Callers : d # c => caller'[d] = caller[d]
  <2>1. caller' = [caller EXCEPT ![c] = [Fresh EXCEPT !.pc = pc]] /\ caller \in [Callers -> Caller]
    BY DEF Finish, TunnelsInv, TypeOK
  <2> QED
    BY <2>1, FreshType
<1>3. registryCall'[c] = [st |-> "gone", key |-> None, val |-> None]
  BY <1>1, <1>2 DEF RegistrySeen, CallSeen
<1>4. \A d \in Callers : d # c => registryCall'[d] = registryCall[d]
  BY <1>1, <1>2, CallStays
<1>5. registryCall' = [registryCall EXCEPT ![c] = [st |-> "gone", key |-> None, val |-> None]]
  BY <1>1, <1>3, <1>4, OneCall
<1>6. registryCall[c].st # "gone"
  <2>1. CallSeen(c) /\ PlaceSeen(c) /\ caller[c] \in Caller
    BY <1>1 DEF RegistrySeen
  <2>2. CASE caller[c].pc = "waiting"
    <3>1. CASE c \in waiters[caller[c].key]
      BY <2>1, <2>2, <3>1 DEF CallSeen
    <3>2. CASE c \notin waiters[caller[c].key]
      <4>1. PICK x \in Conns : chan[c] = x \/ c \in handing[x]
        BY <2>1, <2>2, <3>2 DEF PlaceSeen
      <4>2. registryCall[c] = [st |-> "owed", key |-> caller[c].key, val |-> x]
        BY <2>1, <2>2, <4>1 DEF CallSeen
      <4> QED
        BY <4>2
    <3> QED
      BY <3>1, <3>2
  <2>3. CASE caller[c].pc # "waiting"
    BY <2>1, <2>3 DEF CallSeen, Caller
  <2> QED
    BY <2>2, <2>3
<1> QED
  BY <1>5, <1>6, OffersStay DEF Registry!Go

(* PickWorkspace asks, gives up, or has not asked yet. *)
LEMMA PickWorkspaceSim ==
  ASSUME TunnelsInv, TunnelsInv', NEW c \in Callers, NEW k \in Keys, PickWorkspace(c, k)
  PROVE  \/ UNCHANGED <<registryOffer, registryCall>>
         \/ Registry!Go(c) \/ Registry!Ask(c, k)
<1> USE DEF store
<1>1. RegistrySeen /\ RegistrySeen'
  BY SeesRegistry, SeesRegistryNext
<1>2. /\ caller[c].pc = "new" /\ caller \in [Callers -> Caller]
      /\ UNCHANGED <<workspaces, waiters, handing, chan>>
  BY DEF PickWorkspace, TunnelsInv, TypeOK
<1>3. registryCall[c] = [st |-> "new", key |-> None, val |-> None]
  BY <1>1, <1>2 DEF RegistrySeen, CallSeen
<1>4. registryOffer[k] = Newest(k)
  BY <1>1 DEF RegistrySeen
<1>5. CASE Newest(k) # None
  <2> DEFINE new == [caller[c] EXCEPT !.key = k, !.got = Newest(k), !.pc = "gate"]
  <2>1. caller' = [caller EXCEPT ![c] = new]
    BY <1>5 DEF PickWorkspace
  <2>2. new.key = k /\ new.got = Newest(k) /\ new.pc = "gate"
    BY <1>2 DEF Caller
  <2> HIDE DEF new
  <2>3. caller'[c] = new /\ \A d \in Callers : d # c => caller'[d] = caller[d]
    BY <1>2, <2>1
  <2>4. registryCall'[c] = [st |-> "answered", key |-> k, val |-> Newest(k)]
    BY <1>1, <2>2, <2>3 DEF RegistrySeen, CallSeen
  <2>5. \A d \in Callers : d # c => registryCall'[d] = registryCall[d]
    BY <1>1, <1>2, <2>3, CallStays
  <2>6. registryCall' = [registryCall EXCEPT
          ![c] = [st |-> "answered", key |-> k, val |-> Newest(k)]]
    BY <1>1, <2>4, <2>5, OneCall
  <2>7. registryOffer' = registryOffer
    BY <1>2, OffersStay
  <2> QED
    BY <1>3, <1>4, <1>5, <2>6, <2>7 DEF Registry!Ask
<1>6. CASE Newest(k) = None /\ RunnersOf(k.tenant) = <<>>
  <2>1. Finish(c, "failed")
    BY <1>6 DEF PickWorkspace
  <2> QED
    BY <1>2, <2>1, FinishSim
<1>7. CASE Newest(k) = None /\ RunnersOf(k.tenant) # <<>>
  <2> DEFINE new == [caller[c] EXCEPT !.key = k, !.pc = "ask",
                                      !.via = RoundRobin(RunnersOf(k.tenant))]
  <2>1. caller' = [caller EXCEPT ![c] = new]
    BY <1>7 DEF PickWorkspace
  <2>2. new.pc = "ask"
    BY <1>2 DEF Caller
  <2> HIDE DEF new
  <2>3. caller'[c] = new /\ \A d \in Callers : d # c => caller'[d] = caller[d]
    BY <1>2, <2>1
  <2>4. registryCall'[c] = registryCall[c]
    BY <1>1, <1>3, <2>2, <2>3 DEF RegistrySeen, CallSeen
  <2>5. \A d \in Callers : d # c => registryCall'[d] = registryCall[d]
    BY <1>1, <1>2, <2>3, CallStays
  <2> QED
    BY <1>1, <1>2, <2>4, <2>5, CallsStay, OffersStay
<1> QED
  BY <1>5, <1>6, <1>7

(* WaitWorkspace asks. *)
LEMMA WaitWorkspaceSim ==
  ASSUME TunnelsInv, TunnelsInv', NEW c \in Callers, WaitWorkspace(c)
  PROVE  \E k \in Keys : Registry!Ask(c, k)
<1>1. RegistrySeen /\ RegistrySeen'
  BY SeesRegistry, SeesRegistryNext
<1> DEFINE asked == [caller[c] EXCEPT !.via = None]
<1>2. /\ caller[c].pc = "ask" /\ caller \in [Callers -> Caller]
      /\ UNCHANGED <<workspaces, handing, chan>>
  BY DEF WaitWorkspace, TunnelsInv, TypeOK
<1>3. PICK k \in Keys : k = caller[c].key
  BY <1>2 DEF TunnelsInv, CallersRight, Given
<1>4. registryCall[c] = [st |-> "new", key |-> None, val |-> None]
  BY <1>1, <1>2 DEF RegistrySeen, CallSeen
<1>5. registryOffer[k] = Newest(k) /\ registryOffer' = registryOffer
  BY <1>1, <1>2, <1>3, OffersStay DEF RegistrySeen
<1>6. asked \in Caller /\ asked.key = k
  BY <1>2, <1>3 DEF Caller
<1>7. CASE Newest(k) # None
  <2> DEFINE new == [asked EXCEPT !.pc = "gate", !.got = Newest(k)]
  <2>1. caller' = [caller EXCEPT ![c] = new]
    BY <1>3, <1>7 DEF WaitWorkspace
  <2> HIDE DEF asked
  <2>2. new.key = k /\ new.got = Newest(k) /\ new.pc = "gate"
    BY <1>6 DEF Caller
  <2> HIDE DEF new
  <2>3. caller'[c] = new /\ \A d \in Callers : d # c => caller'[d] = caller[d]
    BY <1>2, <2>1
  <2>4. registryCall'[c] = [st |-> "answered", key |-> k, val |-> Newest(k)]
    BY <1>1, <2>2, <2>3 DEF RegistrySeen, CallSeen
  <2>5. \A d \in Callers : d # c => registryCall'[d] = registryCall[d]
    BY <1>1, <1>2, <2>3, CallStays
  <2>6. registryCall' = [registryCall EXCEPT
          ![c] = [st |-> "answered", key |-> k, val |-> Newest(k)]]
    BY <1>1, <2>4, <2>5, OneCall
  <2>7. Registry!Ask(c, k)
    BY <1>4, <1>5, <1>7, <2>6 DEF Registry!Ask
  <2> QED
    BY <2>7
<1>8. CASE Newest(k) = None
  <2> DEFINE new == [asked EXCEPT !.pc = "waiting"]
  <2>1. caller' = [caller EXCEPT ![c] = new] /\ waiters' = [waiters EXCEPT ![k] = @ \cup {c}]
    BY <1>3, <1>8 DEF WaitWorkspace
  <2> HIDE DEF asked
  <2>2. new.key = k /\ new.pc = "waiting"
    BY <1>6 DEF Caller
  <2> HIDE DEF new
  <2>3. caller'[c] = new /\ \A d \in Callers : d # c => caller'[d] = caller[d]
    BY <1>2, <2>1
  <2>4. c \in waiters'[k]
    BY <1>3, <2>1 DEF TunnelsInv, TypeOK
  <2>5. registryCall'[c] = [st |-> "waiting", key |-> k, val |-> None]
    BY <1>1, <2>2, <2>3, <2>4 DEF RegistrySeen, CallSeen
  <2>6. \A d \in Callers : d # c => registryCall'[d] = registryCall[d]
    BY <1>1, <1>2, <2>3, CallStays
  <2>7. registryCall' = [registryCall EXCEPT
          ![c] = [st |-> "waiting", key |-> k, val |-> None]]
    BY <1>1, <2>5, <2>6, OneCall
  <2>8. Registry!Ask(c, k)
    BY <1>4, <1>5, <1>8, <2>7 DEF Registry!Ask
  <2> QED
    BY <2>8
<1> QED
  BY <1>7, <1>8

(* Receiving delivers what was owed. *)
LEMMA ReceiveSim ==
  ASSUME TunnelsInv, TunnelsInv', NEW c \in Callers, Receive(c)
  PROVE  Registry!Deliver(c)
<1>1. RegistrySeen /\ RegistrySeen'
  BY SeesRegistry, SeesRegistryNext
<1>2. /\ caller[c].pc = "waiting" /\ chan[c] # None /\ caller \in [Callers -> Caller]
      /\ chan \in [Callers -> Conns \cup {None}] /\ chan' = [chan EXCEPT ![c] = None]
      /\ UNCHANGED <<workspaces, handing>>
  BY DEF Receive, TunnelsInv, TypeOK
<1> DEFINE new == [caller[c] EXCEPT !.pc = "gate", !.got = chan[c]]
<1>3. caller' = [caller EXCEPT ![c] = new]
  BY DEF Receive
<1>4. new.pc = "gate" /\ new.got = chan[c] /\ new.key = caller[c].key
  BY <1>2 DEF Caller
<1> HIDE DEF new
<1>5. caller'[c] = new /\ \A d \in Callers : d # c => caller'[d] = caller[d] /\ chan'[d] = chan[d]
  BY <1>2, <1>3
<1>6. registryCall[c] = [st |-> "owed", key |-> caller[c].key, val |-> chan[c]]
  BY <1>1, <1>2 DEF RegistrySeen, CallSeen
<1>7. registryCall'[c] = [st |-> "answered", key |-> caller[c].key, val |-> chan[c]]
  BY <1>1, <1>4, <1>5 DEF RegistrySeen, CallSeen
<1>8. registryCall'[c] = [registryCall[c] EXCEPT !.st = "answered"]
  BY <1>6, <1>7
<1>9. \A d \in Callers : d # c => registryCall'[d] = registryCall[d]
  BY <1>1, <1>2, <1>5, CallStays
<1>10. registryCall' = [registryCall EXCEPT ![c] = [registryCall[c] EXCEPT !.st = "answered"]]
  BY <1>1, <1>8, <1>9, OneCall
<1> QED
  BY <1>2, <1>6, <1>10, OffersStay DEF Registry!Deliver

(* The gate keeps the answer, or is done with it. *)
LEMMA WaitPreflightSim ==
  ASSUME TunnelsInv, TunnelsInv', NEW c \in Callers, WaitPreflight(c)
  PROVE  UNCHANGED <<registryOffer, registryCall>> \/ Registry!Go(c)
<1> USE DEF store
<1>1. RegistrySeen /\ RegistrySeen'
  BY SeesRegistry, SeesRegistryNext
<1> DEFINE k == caller[c].key
<1>2. /\ caller[c].pc = "gate" /\ caller \in [Callers -> Caller]
      /\ UNCHANGED <<workspaces, waiters, handing, chan>>
  BY DEF WaitPreflight, TunnelsInv, TypeOK
<1>3. CASE reports[k] # None
  <2>1. Finish(c, Judge(reports[k]))
    BY <1>3 DEF WaitPreflight
  <2>2. PICK pc \in {"failed", "admitted", "refused"} : Finish(c, pc)
    BY <2>1, JudgeType
  <2> QED
    BY <1>2, <2>2, FinishSim
<1>4. CASE reports[k] = None
  <2> DEFINE new == [caller[c] EXCEPT !.pc = "pending"]
  <2>1. caller' = [caller EXCEPT ![c] = new]
    BY <1>4 DEF WaitPreflight
  <2>2. new.pc = "pending" /\ new.key = caller[c].key /\ new.got = caller[c].got
    BY <1>2 DEF Caller
  <2> HIDE DEF new
  <2>3. caller'[c] = new /\ \A d \in Callers : d # c => caller'[d] = caller[d]
    BY <1>2, <2>1
  <2>4. registryCall'[c] = registryCall[c]
    BY <1>1, <1>2, <2>2, <2>3 DEF RegistrySeen, CallSeen
  <2>5. \A d \in Callers : d # c => registryCall'[d] = registryCall[d]
    BY <1>1, <1>2, <2>3, CallStays
  <2> QED
    BY <1>1, <1>2, <2>4, <2>5, CallsStay, OffersStay
<1> QED
  BY <1>3, <1>4

(* Who gives up, or is answered, is gone. *)
LEMMA ExpireSim ==
  ASSUME TunnelsInv, TunnelsInv', NEW c \in Callers,
         Expire(c) \/ ReceiveVerdict(c) \/ ExpireVerdict(c)
  PROVE  Registry!Go(c)
<1> USE DEF store
<1>1. /\ caller[c].pc \in {"waiting", "pending"} /\ UNCHANGED <<workspaces, handing>>
      /\ chan \in [Callers -> Conns \cup {None}]
  BY DEF Expire, ReceiveVerdict, ExpireVerdict, TunnelsInv, TypeOK
<1>2. PICK pc \in {"failed", "admitted", "refused"} : Finish(c, pc)
  BY JudgeType DEF Expire, ReceiveVerdict, ExpireVerdict
<1>3. \A d \in Callers : d # c => chan'[d] = chan[d]
  BY <1>1 DEF Expire, ReceiveVerdict, ExpireVerdict
<1> QED
  BY <1>1, <1>2, <1>3, FinishSim

(* Every step of the registry, the handlers and the requests is a step of    *)
(* the rendezvous or changes nothing there.                                  *)
LEMMA RegistryStep ==
  ASSUME TunnelsInv, TunnelsInv', [Next]_vars
  PROVE  [Registry!Next]_<<registryOffer, registryCall>>
<1> USE DEF store
<1>1. CASE UNCHANGED vars
  BY <1>1, QuietSim DEF vars
<1>2. CASE \E task \in Tasks : NextTask(task) \/ Unauthorized(task) \/ TaskExits(task)
  BY <1>2, QuietSim DEF NextTask, Unauthorized, TaskExits
<1>3. ASSUME NEW t \in Conns, Cut(t) \/ \E task \in Tasks : Verify(t, task)
      PROVE  UNCHANGED <<registryOffer, registryCall>>
  BY <1>3, QuietSim DEF Cut, Verify
<1>4. CASE CloseAll
  BY <1>4, QuietSim DEF CloseAll
<1>5. CASE \E r \in Runners : AddRunner(r) \/ RemoveRunner(r)
  BY <1>5, QuietSim DEF AddRunner, RemoveRunner
<1>6. ASSUME NEW t \in Conns, Handler(t)
      PROVE  [Registry!Next]_<<registryOffer, registryCall>>
  <2>1. CASE AddWorkspace(t)
    BY <2>1, AddWorkspaceSim DEF Registry!Next
  <2>2. CASE RemoveWorkspace(t)
    BY <2>2, RemoveWorkspaceSim DEF Registry!Next
  <2>3. CASE PutPreflight(t) \/ ForgetPreflight(t) \/ \E c \in Callers : HandVerdict(t, c)
    BY <2>3, QuietSim DEF PutPreflight, ForgetPreflight, HandVerdict
  <2>4. CASE \E c \in Callers : Hand(t, c)
    BY <2>4, HandSim
  <2> QED
    BY <1>6, <2>1, <2>2, <2>3, <2>4 DEF Handler
<1>7. ASSUME NEW c \in Callers, Request(c)
      PROVE  [Registry!Next]_<<registryOffer, registryCall>>
  <2>1. CASE WaitWorkspace(c)
    BY <2>1, WaitWorkspaceSim DEF Registry!Next
  <2>2. CASE Receive(c)
    BY <2>2, ReceiveSim DEF Registry!Next
  <2>3. CASE Expire(c) \/ ReceiveVerdict(c) \/ ExpireVerdict(c)
    BY <2>3, ExpireSim DEF Registry!Next
  <2>4. CASE WaitPreflight(c)
    BY <2>4, WaitPreflightSim DEF Registry!Next
  <2> QED
    BY <1>7, <2>1, <2>2, <2>3, <2>4 DEF Request
<1>8. ASSUME NEW c \in Callers, NEW k \in Keys, PickWorkspace(c, k)
      PROVE  [Registry!Next]_<<registryOffer, registryCall>>
  BY <1>8, PickWorkspaceSim DEF Registry!Next
<1> QED
  BY <1>1, <1>2, <1>3, <1>4, <1>5, <1>6, <1>7, <1>8 DEF Next

(* Initial states map to initial states. *)
LEMMA RegistryInit ==
  ASSUME Init PROVE Registry!Init
<1>1. RegistrySeen
  BY InitInv, SeesRegistry
<1>2. \A c \in Callers : caller[c].pc = "new"
  BY DEF Init, Fresh
<1>3. registryCall = [c \in Callers |-> [st |-> "new", key |-> None, val |-> None]]
  <2>1. \A c \in Callers : registryCall[c] = [st |-> "new", key |-> None, val |-> None]
    BY <1>1, <1>2 DEF RegistrySeen, CallSeen
  <2> QED
    BY <1>1, <2>1 DEF RegistrySeen
<1>4. registryOffer = [k \in Keys |-> None]
  <2>1. \A k \in Keys : Newest(k) = None
    BY DEF Init, Newest
  <2> QED
    BY <1>1, <2>1 DEF RegistrySeen
<1> QED
  BY <1>3, <1>4 DEF Registry!Init

(* The registry implements Rendezvous: however AddWorkspace, WaitWorkspace,  *)
(* the sends after the unlock, the timeouts and the teardowns interleave, no *)
(* waiter misses a tunnel, keeps waiting beside one, or is owed two.         *)
THEOREM RegistryRefines == Spec => RegistryIsRendezvous
<1>1. Init => Registry!Init
  BY RegistryInit
<1>2. TunnelsInv /\ TunnelsInv' /\ [Next]_vars
        => [Registry!Next]_<<registryOffer, registryCall>>
  BY RegistryStep
<1> QED
  BY <1>1, <1>2, TunnelsInvariant, PTL DEF Spec, RegistryIsRendezvous, Registry!Spec

-----------------------------------------------------------------------------
(* The preflight store implements Rendezvous. *)

(* The verdict of task v is in the request's channel, or a handler has it    *)
(* still to send.                                                            *)
OwedTask(c, v) == pchan[c] = v \/ \E t \in Conns : c \in phanding[t] /\ conn[t].task = v

VerdictSeen(c) ==
  /\ caller[c].pc \in {"new", "ask", "waiting", "gate"} =>
       verdictCall[c] = [st |-> "new", key |-> None, val |-> None]
  /\ caller[c].pc = "pending" /\ c \in pwaiters[caller[c].key] =>
       verdictCall[c] = [st |-> "waiting", key |-> caller[c].key, val |-> None]
  /\ \A v \in Tasks :
       caller[c].pc = "pending" /\ OwedTask(c, v) =>
         verdictCall[c] = [st |-> "owed", key |-> caller[c].key, val |-> v]
  /\ caller[c].pc \in {"failed", "admitted", "refused"} =>
       verdictCall[c] = [st |-> "gone", key |-> None, val |-> None]

VerdictPlace(c) ==
  caller[c].pc = "pending" =>
    /\ caller[c].key \in Keys
    /\ c \in pwaiters[caller[c].key] \/ \E v \in Tasks : OwedTask(c, v)
    /\ \A v \in Tasks : OwedTask(c, v) => c \notin pwaiters[caller[c].key]

VerdictsSeen ==
  /\ verdictCall = [c \in Callers |-> verdictCall[c]]
  /\ \A c \in Callers : VerdictSeen(c) /\ VerdictPlace(c) /\ caller[c] \in Caller

(* The invariant fixes what OwedVerdict is. *)
LEMMA SeesVerdicts == TunnelsInv => VerdictsSeen
<1> SUFFICES ASSUME TunnelsInv PROVE VerdictsSeen
  OBVIOUS
<1>1. verdictCall = [c \in Callers |-> verdictCall[c]]
  BY DEF verdictCall
<1>2. ASSUME NEW c \in Callers PROVE VerdictSeen(c) /\ VerdictPlace(c) /\ caller[c] \in Caller
  <2>1. /\ Given(c) /\ QueuedVerdict(c) /\ pchan[c] \in Tasks \cup {None}
        /\ caller[c] \in Caller
        /\ \A t \in Conns : c \in phanding[t] => conn[t].task \in Tasks
    BY DEF TunnelsInv, CallersRight, TypeOK, TunnelsKnow
  <2>2. VerdictPlace(c)
    <3> SUFFICES ASSUME caller[c].pc = "pending"
                 PROVE  /\ caller[c].key \in Keys
                        /\ c \in pwaiters[caller[c].key] \/ \E v \in Tasks : OwedTask(c, v)
                        /\ \A v \in Tasks : OwedTask(c, v) => c \notin pwaiters[caller[c].key]
      BY DEF VerdictPlace
    <3>1. caller[c].key \in Keys
      BY <2>1 DEF Given
    <3>2. c \in pwaiters[caller[c].key] \/ \E v \in Tasks : OwedTask(c, v)
      BY <2>1 DEF QueuedVerdict, OwedTask
    <3>3. \A v \in Tasks : OwedTask(c, v) => c \notin pwaiters[caller[c].key]
      BY <2>1, <3>1, NoneOutside DEF QueuedVerdict, OwedTask
    <3> QED
      BY <3>1, <3>2, <3>3
  <2>3. caller[c].pc \in {"new", "ask", "waiting", "gate"} =>
          verdictCall[c] = [st |-> "new", key |-> None, val |-> None]
    BY DEF verdictCall, Mapped
  <2>4. ASSUME caller[c].pc = "pending", c \in pwaiters[caller[c].key]
        PROVE  verdictCall[c] = [st |-> "waiting", key |-> caller[c].key, val |-> None]
    <3>1. pchan[c] = None /\ {t \in Conns : c \in phanding[t]} = {}
      BY <2>1, <2>4 DEF Given, QueuedVerdict
    <3>2. OwedVerdict(c) = None
      BY <3>1 DEF OwedVerdict
    <3>3. verdictCall[c] = Mapped(c, "waiting", None)
      BY <2>4, <3>2 DEF verdictCall
    <3> QED
      BY <3>3 DEF Mapped
  <2>5. ASSUME NEW v \in Tasks, caller[c].pc = "pending", OwedTask(c, v)
        PROVE  verdictCall[c] = [st |-> "owed", key |-> caller[c].key, val |-> v]
    <3>1. OwedVerdict(c) = v
      <4>1. CASE pchan[c] = v
        BY <4>1, NoneOutside DEF OwedVerdict
      <4>2. ASSUME NEW t \in Conns, c \in phanding[t], conn[t].task = v
            PROVE  OwedVerdict(c) = v
        <5> DEFINE S == {x \in Conns : c \in phanding[x]}
        <5>1. pchan[c] = None /\ t \in S /\ \A x \in S : x = t
          BY <2>1, <2>5, <4>2 DEF QueuedVerdict
        <5>2. OwedVerdict(c) = IF S = {} THEN None ELSE conn[CHOOSE x \in S : TRUE].task
          BY <5>1 DEF OwedVerdict
        <5> HIDE DEF S
        <5>3. (CHOOSE x \in S : TRUE) = t
          BY <5>1, ChooseOnly
        <5> QED
          BY <4>2, <5>1, <5>2, <5>3
      <4> QED
        BY <2>5, <4>1, <4>2 DEF OwedTask
    <3>2. verdictCall[c] = Mapped(c, "owed", v)
      BY <2>5, <3>1, NoneOutside DEF verdictCall
    <3> QED
      BY <3>2 DEF Mapped
  <2>6. caller[c].pc \in {"failed", "admitted", "refused"} =>
          verdictCall[c] = [st |-> "gone", key |-> None, val |-> None]
    BY DEF verdictCall, Mapped
  <2> QED
    BY <2>1, <2>2, <2>3, <2>4, <2>5, <2>6 DEF VerdictSeen
<1> QED
  BY <1>1, <1>2 DEF VerdictsSeen

(* The same of the next state. *)
LEMMA SeesVerdictsNext == TunnelsInv' => VerdictsSeen'
  BY SeesVerdicts, PTL

(* A call does not move when its request and what it is owed do not. *)
LEMMA VerdictStays ==
  ASSUME VerdictsSeen, VerdictsSeen', NEW c \in Callers, caller'[c] = caller[c],
         \A v \in Tasks : OwedTask(c, v)' <=> OwedTask(c, v)
  PROVE  verdictCall'[c] = verdictCall[c]
<1>1. /\ VerdictSeen(c) /\ VerdictPlace(c) /\ caller[c] \in Caller
      /\ VerdictSeen(c)' /\ VerdictPlace(c)'
  BY DEF VerdictsSeen
<1>2. CASE caller[c].pc = "pending"
  <2>1. CASE c \in pwaiters[caller[c].key]
    <3>1. \A v \in Tasks : ~OwedTask(c, v)
      BY <1>1, <1>2, <2>1 DEF VerdictPlace
    <3>2. c \in pwaiters'[caller[c].key]
      BY <1>1, <1>2, <3>1 DEF VerdictPlace
    <3> QED
      BY <1>1, <1>2, <2>1, <3>2 DEF VerdictSeen
  <2>2. CASE c \notin pwaiters[caller[c].key]
    <3>1. PICK v \in Tasks : OwedTask(c, v)
      BY <1>1, <1>2, <2>2 DEF VerdictPlace
    <3> QED
      BY <1>1, <1>2, <3>1 DEF VerdictSeen
  <2> QED
    BY <2>1, <2>2
<1>3. CASE caller[c].pc # "pending"
  BY <1>1, <1>3 DEF VerdictSeen, Caller
<1> QED
  BY <1>2, <1>3

(* A tunnel that still has to send keeps its task. *)
LEMMA OwedTaskStays ==
  ASSUME TunnelsInv, ConnsKept, NEW c \in Callers, pchan'[c] = pchan[c],
         \A t \in Conns : c \in phanding'[t] <=> c \in phanding[t]
  PROVE  \A v \in Tasks : OwedTask(c, v)' <=> OwedTask(c, v)
<1>1. \A t \in Conns : c \in phanding[t] => conn'[t].task = conn[t].task
  BY DEF TunnelsInv, TunnelsKnow, ConnsKept
<1> QED
  BY <1>1 DEF OwedTask

(* Calls are equal when each is. *)
LEMMA VerdictCallsStay ==
  ASSUME VerdictsSeen, VerdictsSeen',
         \A c \in Callers : verdictCall'[c] = verdictCall[c]
  PROVE  verdictCall' = verdictCall
  BY DEF VerdictsSeen

(* One call moves. *)
LEMMA OneVerdictCall ==
  ASSUME VerdictsSeen, VerdictsSeen', NEW c \in Callers, NEW new, verdictCall'[c] = new,
         \A d \in Callers : d # c => verdictCall'[d] = verdictCall[d]
  PROVE  verdictCall' = [verdictCall EXCEPT ![c] = new]
  BY DEF VerdictsSeen

(* What keeps the channels, the handlers and the requests. *)
LEMMA VerdictQuietSim ==
  ASSUME TunnelsInv, TunnelsInv', ConnsKept, UNCHANGED <<phanding, pchan, caller>>
  PROVE  verdictCall' = verdictCall
<1>1. VerdictsSeen /\ VerdictsSeen'
  BY SeesVerdicts, SeesVerdictsNext
<1>2. ASSUME NEW c \in Callers PROVE verdictCall'[c] = verdictCall[c]
  <2>1. \A v \in Tasks : OwedTask(c, v)' <=> OwedTask(c, v)
    BY OwedTaskStays
  <2> QED
    BY <1>1, <2>1, VerdictStays
<1> QED
  BY <1>1, <1>2, VerdictCallsStay

(* A send is no step of the rendezvous. *)
LEMMA HandVerdictSim ==
  ASSUME TunnelsInv, TunnelsInv', NEW t \in Conns, NEW c \in Callers, HandVerdict(t, c)
  PROVE  UNCHANGED <<reports, verdictCall>>
<1>1. VerdictsSeen /\ VerdictsSeen'
  BY SeesVerdicts, SeesVerdictsNext
<1>2. /\ c \in phanding[t] /\ phanding'[t] = phanding[t] \ {c}
      /\ \A x \in Conns : x # t => phanding'[x] = phanding[x]
      /\ pchan'[c] = IF caller[c].pc = "pending" THEN conn[t].task ELSE pchan[c]
      /\ \A d \in Callers : d # c => pchan'[d] = pchan[d]
      /\ caller' = caller /\ conn' = conn /\ reports' = reports
  BY DEF TunnelsInv, TypeOK, HandVerdict
<1>3. ASSUME NEW d \in Callers, d # c PROVE verdictCall'[d] = verdictCall[d]
  <2>1. ConnsKept /\ pchan'[d] = pchan[d]
        /\ \A x \in Conns : d \in phanding'[x] <=> d \in phanding[x]
    BY <1>2, <1>3 DEF ConnsKept
  <2>2. \A v \in Tasks : OwedTask(d, v)' <=> OwedTask(d, v)
    BY <2>1, OwedTaskStays
  <2> QED
    BY <1>1, <1>2, <2>2, VerdictStays
<1>4. verdictCall'[c] = verdictCall[c]
  <2>1. CASE caller[c].pc = "pending"
    <3>1. pchan[c] = None /\ \A x \in Conns : c \in phanding[x] => x = t
      BY <1>2, <2>1 DEF TunnelsInv, CallersRight, QueuedVerdict
    <3>2. \A x \in Conns : c \notin phanding'[x]
      BY <1>2, <3>1
    <3>3. pchan'[c] = conn[t].task
      BY <1>2, <2>1
    <3>4. \A v \in Tasks : OwedTask(c, v)' <=> OwedTask(c, v)
      BY <1>2, <3>1, <3>2, <3>3, NoneOutside DEF OwedTask
    <3> QED
      BY <1>1, <1>2, <3>4, VerdictStays
  <2>2. CASE caller[c].pc # "pending"
    BY <1>1, <1>2, <2>2 DEF VerdictsSeen, VerdictSeen, Caller
  <2> QED
    BY <2>1, <2>2
<1> QED
  BY <1>1, <1>2, <1>3, <1>4, VerdictCallsStay

(* put publishes the verdict of the tunnel's task. *)
LEMMA PutPreflightSim ==
  ASSUME TunnelsInv, TunnelsInv', NEW t \in Conns, PutPreflight(t)
  PROVE  \E k \in Keys : \E v \in Tasks : Verdicts!Publish(k, v)
<1>1. VerdictsSeen /\ VerdictsSeen'
  BY SeesVerdicts, SeesVerdictsNext
<1>2. /\ conn[t].pc = "up" /\ phanding[t] = {} /\ caller' = caller /\ pchan' = pchan
      /\ \A x \in Conns : conn'[x].pc = conn[x].pc /\ conn'[x].task = conn[x].task
  BY DEF PutPreflight, Draining, TunnelsInv, TypeOK, Conn
<1>3. PICK k \in Keys : k = key(t)
  BY <1>2, KeyType
<1>4. PICK v \in Tasks : v = conn[t].task
  BY <1>2, KeyType
<1>5. /\ reports' = [reports EXCEPT ![k] = v]
      /\ phanding' = [phanding EXCEPT ![t] = pwaiters[k]]
  BY <1>3, <1>4 DEF PutPreflight
<1>6. phanding \in [Conns -> SUBSET Callers] /\ ConnsKept
  BY <1>2 DEF TunnelsInv, TypeOK, ConnsKept
<1>7. ASSUME NEW c \in Callers
      PROVE  verdictCall'[c] =
               IF verdictCall[c].st = "waiting" /\ verdictCall[c].key = k
               THEN [verdictCall[c] EXCEPT !.st = "owed", !.val = v] ELSE verdictCall[c]
  <2>1. CASE c \in pwaiters[k]
    <3>1. caller[c].pc = "pending" /\ caller[c].key = k
      BY <2>1 DEF TunnelsInv, CallersRight, QueuedVerdict
    <3>2. verdictCall[c] = [st |-> "waiting", key |-> k, val |-> None]
      BY <1>1, <2>1, <3>1 DEF VerdictsSeen, VerdictSeen
    <3>3. c \in phanding'[t]
      BY <1>5, <1>6, <2>1
    <3>4. OwedTask(c, v)'
      BY <1>2, <1>4, <3>3 DEF OwedTask
    <3>5. verdictCall'[c] = [st |-> "owed", key |-> k, val |-> v]
      BY <1>1, <1>2, <3>1, <3>4 DEF VerdictsSeen, VerdictSeen
    <3>6. verdictCall[c].st = "waiting" /\ verdictCall[c].key = k
      BY <3>2
    <3>7. [verdictCall[c] EXCEPT !.st = "owed", !.val = v]
            = [st |-> "owed", key |-> k, val |-> v]
      BY <3>2, OwedRecord
    <3> QED
      BY <3>5, <3>6, <3>7
  <2>2. CASE c \notin pwaiters[k]
    <3>1. \A x \in Conns : c \in phanding'[x] <=> c \in phanding[x]
      BY <1>2, <1>5, <1>6, <2>2
    <3>2. \A w \in Tasks : OwedTask(c, w)' <=> OwedTask(c, w)
      BY <1>2, <1>6, <3>1, OwedTaskStays
    <3>3. verdictCall'[c] = verdictCall[c]
      BY <1>1, <1>2, <3>2, VerdictStays
    <3>4. ~(verdictCall[c].st = "waiting" /\ verdictCall[c].key = k)
      <4>1. VerdictSeen(c) /\ VerdictPlace(c) /\ caller[c] \in Caller
        BY <1>1 DEF VerdictsSeen
      <4>2. CASE caller[c].pc = "pending" /\ c \in pwaiters[caller[c].key]
        BY <2>2, <4>1, <4>2 DEF VerdictSeen
      <4>3. CASE caller[c].pc = "pending" /\ c \notin pwaiters[caller[c].key]
        <5>1. PICK w \in Tasks : OwedTask(c, w)
          BY <4>1, <4>3 DEF VerdictPlace
        <5>2. verdictCall[c] = [st |-> "owed", key |-> caller[c].key, val |-> w]
          BY <4>1, <4>3, <5>1 DEF VerdictSeen
        <5> QED
          BY <5>2
      <4>4. CASE caller[c].pc # "pending"
        BY <4>1, <4>4 DEF VerdictSeen, Caller
      <4> QED
        BY <4>2, <4>3, <4>4
    <3> QED
      BY <3>3, <3>4
  <2> QED
    BY <2>1, <2>2
<1>8. verdictCall' = [c \in Callers |->
        IF verdictCall[c].st = "waiting" /\ verdictCall[c].key = k
        THEN [verdictCall[c] EXCEPT !.st = "owed", !.val = v] ELSE verdictCall[c]]
  <2>1. verdictCall' = [c \in Callers |-> verdictCall'[c]]
    BY <1>1 DEF VerdictsSeen
  <2> QED
    BY <1>7, <2>1
<1>9. Verdicts!Publish(k, v)
  BY <1>5, <1>8 DEF Verdicts!Publish
<1> QED
  BY <1>9

(* forget withdraws whatever is filed under the name. *)
LEMMA ForgetPreflightSim ==
  ASSUME TunnelsInv, TunnelsInv', NEW t \in Conns, ForgetPreflight(t)
  PROVE  \/ UNCHANGED <<reports, verdictCall>>
         \/ \E k \in Keys : Verdicts!Withdraw(k, None)
<1>1. /\ conn[t].pc = "removed" /\ UNCHANGED <<phanding, pchan, caller>>
      /\ reports \in [Keys -> Tasks \cup {None}] /\ ConnsKept
  BY DEF ForgetPreflight, TunnelsInv, TypeOK, ConnsKept, Conn
<1>2. PICK k \in Keys : k = key(t)
  BY <1>1, KeyType
<1>3. reports' = [reports EXCEPT ![k] = None]
  BY <1>2 DEF ForgetPreflight
<1>4. verdictCall' = verdictCall
  BY <1>1, VerdictQuietSim
<1>5. CASE reports[k] = None
  BY <1>1, <1>3, <1>4, <1>5
<1>6. CASE reports[k] # None
  <2>1. Verdicts!Withdraw(k, None)
    BY <1>3, <1>4, <1>6 DEF Verdicts!Withdraw
  <2> QED
    BY <2>1
<1> QED
  BY <1>5, <1>6

(* A request that is over is gone. *)
LEMMA FinishVerdictSim ==
  ASSUME TunnelsInv, TunnelsInv', NEW c \in Callers, NEW pc \in {"failed", "admitted", "refused"},
         caller[c].pc \notin {"failed", "admitted", "refused"}, Finish(c, pc),
         UNCHANGED <<conn, reports, phanding>>,
         \A d \in Callers : d # c => pchan'[d] = pchan[d]
  PROVE  Verdicts!Go(c)
<1>1. VerdictsSeen /\ VerdictsSeen'
  BY SeesVerdicts, SeesVerdictsNext
<1>2. caller'[c].pc = pc /\ \A d \in Callers : d # c => caller'[d] = caller[d]
  <2>1. caller' = [caller EXCEPT ![c] = [Fresh EXCEPT !.pc = pc]] /\ caller \in [Callers -> Caller]
    BY DEF Finish, TunnelsInv, TypeOK
  <2> QED
    BY <2>1, FreshType
<1>3. verdictCall'[c] = [st |-> "gone", key |-> None, val |-> None]
  BY <1>1, <1>2 DEF VerdictsSeen, VerdictSeen
<1>4. ASSUME NEW d \in Callers, d # c PROVE verdictCall'[d] = verdictCall[d]
  <2>1. ConnsKept
    BY DEF ConnsKept
  <2>2. \A v \in Tasks : OwedTask(d, v)' <=> OwedTask(d, v)
    BY <1>4, <2>1, OwedTaskStays
  <2> QED
    BY <1>1, <1>2, <1>4, <2>2, VerdictStays
<1>5. verdictCall' = [verdictCall EXCEPT ![c] = [st |-> "gone", key |-> None, val |-> None]]
  BY <1>1, <1>3, <1>4, OneVerdictCall
<1>6. verdictCall[c].st # "gone"
  <2>1. VerdictSeen(c) /\ VerdictPlace(c) /\ caller[c] \in Caller
    BY <1>1 DEF VerdictsSeen
  <2>2. CASE caller[c].pc = "pending"
    <3>1. CASE c \in pwaiters[caller[c].key]
      BY <2>1, <2>2, <3>1 DEF VerdictSeen
    <3>2. CASE c \notin pwaiters[caller[c].key]
      <4>1. PICK v \in Tasks : OwedTask(c, v)
        BY <2>1, <2>2, <3>2 DEF VerdictPlace
      <4>2. verdictCall[c] = [st |-> "owed", key |-> caller[c].key, val |-> v]
        BY <2>1, <2>2, <4>1 DEF VerdictSeen
      <4> QED
        BY <4>2
    <3> QED
      BY <3>1, <3>2
  <2>3. CASE caller[c].pc # "pending"
    BY <2>1, <2>3 DEF VerdictSeen, Caller
  <2> QED
    BY <2>2, <2>3
<1> QED
  BY <1>5, <1>6 DEF Verdicts!Go

(* Before its request is at the gate, a call of the store has not begun. *)
LEMMA BeforeGateSim ==
  ASSUME TunnelsInv, TunnelsInv', NEW c \in Callers,
         caller[c].pc \in {"new", "ask", "waiting", "gate"},
         caller'[c].pc \in {"new", "ask", "waiting", "gate"},
         \A d \in Callers : d # c => caller'[d] = caller[d],
         UNCHANGED <<conn, reports, phanding, pchan>>
  PROVE  UNCHANGED <<reports, verdictCall>>
<1>1. VerdictsSeen /\ VerdictsSeen'
  BY SeesVerdicts, SeesVerdictsNext
<1>2. verdictCall'[c] = verdictCall[c]
  BY <1>1 DEF VerdictsSeen, VerdictSeen
<1>3. ASSUME NEW d \in Callers, d # c PROVE verdictCall'[d] = verdictCall[d]
  <2>1. ConnsKept
    BY DEF ConnsKept
  <2>2. \A v \in Tasks : OwedTask(d, v)' <=> OwedTask(d, v)
    BY <2>1, OwedTaskStays
  <2> QED
    BY <1>1, <1>3, <2>2, VerdictStays
<1> QED
  BY <1>1, <1>2, <1>3, VerdictCallsStay

(* Picking a tunnel does not ask the store. *)
LEMMA PickVerdictSim ==
  ASSUME TunnelsInv, TunnelsInv', NEW c \in Callers, NEW k \in Keys, PickWorkspace(c, k)
  PROVE  UNCHANGED <<reports, verdictCall>> \/ Verdicts!Go(c)
<1> USE DEF verdict
<1>1. /\ caller[c].pc = "new" /\ caller \in [Callers -> Caller]
      /\ UNCHANGED <<conn, reports, phanding, pchan>>
  BY DEF PickWorkspace, TunnelsInv, TypeOK
<1>2. CASE Newest(k) = None /\ RunnersOf(k.tenant) = <<>>
  <2>1. Finish(c, "failed")
    BY <1>2 DEF PickWorkspace
  <2> QED
    BY <1>1, <2>1, FinishVerdictSim
<1>3. CASE Newest(k) # None
  <2> DEFINE new == [caller[c] EXCEPT !.key = k, !.got = Newest(k), !.pc = "gate"]
  <2>1. caller' = [caller EXCEPT ![c] = new] /\ new.pc = "gate"
    BY <1>1, <1>3 DEF PickWorkspace, Caller
  <2> HIDE DEF new
  <2>2. caller'[c] = new /\ \A d \in Callers : d # c => caller'[d] = caller[d]
    BY <1>1, <2>1
  <2> QED
    BY <1>1, <2>1, <2>2, BeforeGateSim
<1>4. CASE Newest(k) = None /\ RunnersOf(k.tenant) # <<>>
  <2> DEFINE new == [caller[c] EXCEPT !.key = k, !.pc = "ask",
                                      !.via = RoundRobin(RunnersOf(k.tenant))]
  <2>1. caller' = [caller EXCEPT ![c] = new] /\ new.pc = "ask"
    BY <1>1, <1>4 DEF PickWorkspace, Caller
  <2> HIDE DEF new
  <2>2. caller'[c] = new /\ \A d \in Callers : d # c => caller'[d] = caller[d]
    BY <1>1, <2>1
  <2> QED
    BY <1>1, <2>1, <2>2, BeforeGateSim
<1> QED
  BY <1>2, <1>3, <1>4

(* Nor does waiting for one. *)
LEMMA WaitVerdictSim ==
  ASSUME TunnelsInv, TunnelsInv', NEW c \in Callers, WaitWorkspace(c) \/ Receive(c)
  PROVE  UNCHANGED <<reports, verdictCall>>
<1> USE DEF verdict
<1>1. /\ caller[c].pc \in {"ask", "waiting"} /\ caller \in [Callers -> Caller]
      /\ UNCHANGED <<conn, reports, phanding, pchan>>
  BY DEF WaitWorkspace, Receive, TunnelsInv, TypeOK
<1>2. \E new : /\ caller' = [caller EXCEPT ![c] = new]
               /\ new.pc \in {"waiting", "gate"}
  <2>1. CASE WaitWorkspace(c)
    <3> DEFINE asked == [caller[c] EXCEPT !.via = None]
               k == caller[c].key
    <3>1. asked \in [pc : {"new", "ask", "waiting", "failed", "gate", "pending",
                           "admitted", "refused"},
                     key : Keys \cup {None}, via : Runners \cup {None},
                     got : Conns \cup {None}]
      BY <1>1 DEF Caller
    <3>2. CASE Newest(k) # None
      <4>1. caller' = [caller EXCEPT ![c] = [asked EXCEPT !.pc = "gate", !.got = Newest(k)]]
        BY <2>1, <3>2 DEF WaitWorkspace
      <4> HIDE DEF asked
      <4>2. [asked EXCEPT !.pc = "gate", !.got = Newest(k)].pc = "gate"
        BY <3>1
      <4> QED
        BY <4>1, <4>2
    <3>3. CASE Newest(k) = None
      <4>1. caller' = [caller EXCEPT ![c] = [asked EXCEPT !.pc = "waiting"]]
        BY <2>1, <3>3 DEF WaitWorkspace
      <4> HIDE DEF asked
      <4>2. [asked EXCEPT !.pc = "waiting"].pc = "waiting"
        BY <3>1
      <4> QED
        BY <4>1, <4>2
    <3> QED
      BY <3>2, <3>3
  <2>2. CASE Receive(c)
    <3> DEFINE new == [caller[c] EXCEPT !.pc = "gate", !.got = chan[c]]
    <3>1. caller' = [caller EXCEPT ![c] = new] /\ new.pc = "gate"
      BY <1>1, <2>2 DEF Receive, Caller
    <3> QED
      BY <3>1
  <2> QED
    BY <2>1, <2>2
<1>3. PICK new : caller' = [caller EXCEPT ![c] = new] /\ new.pc \in {"waiting", "gate"}
  BY <1>2
<1>4. caller'[c] = new /\ \A d \in Callers : d # c => caller'[d] = caller[d]
  BY <1>1, <1>3
<1> QED
  BY <1>1, <1>3, <1>4, BeforeGateSim

(* wait looks at the report and joins under one lock. *)
LEMMA AskVerdictSim ==
  ASSUME TunnelsInv, TunnelsInv', NEW c \in Callers, WaitPreflight(c)
  PROVE  Verdicts!Go(c) \/ \E k \in Keys : Verdicts!Ask(c, k)
<1>1. VerdictsSeen /\ VerdictsSeen'
  BY SeesVerdicts, SeesVerdictsNext
<1>2. /\ caller[c].pc = "gate" /\ caller \in [Callers -> Caller]
      /\ UNCHANGED <<conn, reports, phanding, pchan>>
  BY DEF WaitPreflight, TunnelsInv, TypeOK
<1>3. PICK k \in Keys : k = caller[c].key
  BY <1>2 DEF TunnelsInv, CallersRight, Given
<1>4. CASE reports[k] # None
  <2>1. Finish(c, Judge(reports[k]))
    BY <1>3, <1>4 DEF WaitPreflight
  <2>2. PICK pc \in {"failed", "admitted", "refused"} : Finish(c, pc)
    BY <2>1, JudgeType
  <2> QED
    BY <1>2, <2>2, FinishVerdictSim
<1>5. CASE reports[k] = None
  <2> DEFINE new == [caller[c] EXCEPT !.pc = "pending"]
  <2>1. /\ caller' = [caller EXCEPT ![c] = new]
        /\ pwaiters' = [pwaiters EXCEPT ![k] = @ \cup {c}]
    BY <1>3, <1>5 DEF WaitPreflight
  <2>2. new.pc = "pending" /\ new.key = k
    BY <1>2, <1>3 DEF Caller
  <2> HIDE DEF new
  <2>3. caller'[c] = new /\ \A d \in Callers : d # c => caller'[d] = caller[d]
    BY <1>2, <2>1
  <2>4. c \in pwaiters'[k]
    BY <2>1 DEF TunnelsInv, TypeOK
  <2>5. verdictCall'[c] = [st |-> "waiting", key |-> k, val |-> None]
    BY <1>1, <2>2, <2>3, <2>4 DEF VerdictsSeen, VerdictSeen
  <2>6. verdictCall[c] = [st |-> "new", key |-> None, val |-> None]
    BY <1>1, <1>2 DEF VerdictsSeen, VerdictSeen
  <2>7. ASSUME NEW d \in Callers, d # c PROVE verdictCall'[d] = verdictCall[d]
    <3>1. ConnsKept
      BY <1>2 DEF ConnsKept
    <3>2. \A v \in Tasks : OwedTask(d, v)' <=> OwedTask(d, v)
      BY <1>2, <3>1, OwedTaskStays
    <3> QED
      BY <1>1, <2>3, <2>7, <3>2, VerdictStays
  <2>8. verdictCall' = [verdictCall EXCEPT ![c] = [st |-> "waiting", key |-> k, val |-> None]]
    BY <1>1, <2>5, <2>7, OneVerdictCall
  <2>9. Verdicts!Ask(c, k)
    BY <1>2, <1>5, <2>6, <2>8 DEF Verdicts!Ask
  <2> QED
    BY <2>9
<1> QED
  BY <1>4, <1>5

(* Who gives up, or is answered, is gone. *)
LEMMA ExpireVerdictSim ==
  ASSUME TunnelsInv, TunnelsInv', NEW c \in Callers,
         Expire(c) \/ ReceiveVerdict(c) \/ ExpireVerdict(c)
  PROVE  Verdicts!Go(c)
<1> USE DEF verdict
<1>1. /\ caller[c].pc \in {"waiting", "pending"} /\ UNCHANGED <<conn, reports, phanding>>
      /\ pchan \in [Callers -> Tasks \cup {None}]
  BY DEF Expire, ReceiveVerdict, ExpireVerdict, TunnelsInv, TypeOK
<1>2. PICK pc \in {"failed", "admitted", "refused"} : Finish(c, pc)
  BY JudgeType DEF Expire, ReceiveVerdict, ExpireVerdict
<1>3. \A d \in Callers : d # c => pchan'[d] = pchan[d]
  BY <1>1 DEF Expire, ReceiveVerdict, ExpireVerdict
<1> QED
  BY <1>1, <1>2, <1>3, FinishVerdictSim

(* What no store sees keeps the tasks of the tunnels. *)
LEMMA TunnelsKept ==
  ASSUME TunnelsInv,
         \/ UNCHANGED vars
         \/ \E task \in Tasks : NextTask(task) \/ Unauthorized(task) \/ TaskExits(task)
         \/ CloseAll
         \/ \E r \in Runners : AddRunner(r) \/ RemoveRunner(r)
         \/ \E t \in Conns :
              \/ Cut(t) \/ AddWorkspace(t) \/ RemoveWorkspace(t)
              \/ \E task \in Tasks : Verify(t, task)
              \/ \E c \in Callers : Hand(t, c)
  PROVE  ConnsKept /\ UNCHANGED <<reports, phanding, pchan, caller>>
<1> USE DEF verdict, ConnsKept
<1>0. conn \in [Conns -> Conn]
  BY DEF TunnelsInv, TypeOK
<1>1. CASE UNCHANGED vars
  BY <1>1 DEF vars
<1>2. CASE \E task \in Tasks : NextTask(task) \/ Unauthorized(task)
  BY <1>2 DEF NextTask, Unauthorized
<1>3. CASE \E task \in Tasks : TaskExits(task)
  BY <1>0, <1>3 DEF TaskExits, Conn
<1>4. CASE CloseAll
  BY <1>0, <1>4 DEF CloseAll, Conn
<1>5. CASE \E r \in Runners : AddRunner(r) \/ RemoveRunner(r)
  BY <1>5 DEF AddRunner, RemoveRunner
<1>6. ASSUME NEW t \in Conns, Cut(t) PROVE ConnsKept /\ UNCHANGED <<reports, phanding, pchan, caller>>
  BY <1>0, <1>6 DEF Cut, Conn
<1>7. ASSUME NEW t \in Conns, AddWorkspace(t) \/ RemoveWorkspace(t)
      PROVE ConnsKept /\ UNCHANGED <<reports, phanding, pchan, caller>>
  BY <1>0, <1>7 DEF AddWorkspace, RemoveWorkspace, Conn
<1>8. ASSUME NEW t \in Conns, NEW task \in Tasks, Verify(t, task)
      PROVE ConnsKept /\ UNCHANGED <<reports, phanding, pchan, caller>>
  <2>1. conn[t].pc = "free" /\ \A x \in Conns : x # t => conn'[x] = conn[x]
    BY <1>0, <1>8 DEF Verify
  <2> QED
    BY <1>8, <2>1 DEF Verify
<1>9. ASSUME NEW t \in Conns, NEW c \in Callers, Hand(t, c)
      PROVE ConnsKept /\ UNCHANGED <<reports, phanding, pchan, caller>>
  BY <1>9 DEF Hand
<1> QED
  BY <1>1, <1>2, <1>3, <1>4, <1>5, <1>6, <1>7, <1>8, <1>9

(* Every step is one of the rendezvous or changes nothing there. *)
LEMMA VerdictStep ==
  ASSUME TunnelsInv, TunnelsInv', [Next]_vars
  PROVE  [Verdicts!Next]_<<reports, verdictCall>>
<1>1. CASE \/ UNCHANGED vars
           \/ \E task \in Tasks : NextTask(task) \/ Unauthorized(task) \/ TaskExits(task)
           \/ CloseAll
           \/ \E r \in Runners : AddRunner(r) \/ RemoveRunner(r)
           \/ \E t \in Conns :
                \/ Cut(t) \/ AddWorkspace(t) \/ RemoveWorkspace(t)
                \/ \E task \in Tasks : Verify(t, task)
                \/ \E c \in Callers : Hand(t, c)
  <2>1. ConnsKept /\ UNCHANGED <<reports, phanding, pchan, caller>>
    BY <1>1, TunnelsKept
  <2> QED
    BY <2>1, VerdictQuietSim
<1>2. ASSUME NEW t \in Conns, PutPreflight(t) PROVE Verdicts!Next
  BY <1>2, PutPreflightSim DEF Verdicts!Next
<1>3. ASSUME NEW t \in Conns, ForgetPreflight(t)
      PROVE  [Verdicts!Next]_<<reports, verdictCall>>
  BY <1>3, ForgetPreflightSim DEF Verdicts!Next
<1>4. ASSUME NEW t \in Conns, NEW c \in Callers, HandVerdict(t, c)
      PROVE  UNCHANGED <<reports, verdictCall>>
  BY <1>4, HandVerdictSim
<1>5. ASSUME NEW c \in Callers, NEW k \in Keys, PickWorkspace(c, k)
      PROVE  [Verdicts!Next]_<<reports, verdictCall>>
  BY <1>5, PickVerdictSim DEF Verdicts!Next
<1>6. ASSUME NEW c \in Callers, Request(c)
      PROVE  [Verdicts!Next]_<<reports, verdictCall>>
  <2>1. CASE WaitWorkspace(c) \/ Receive(c)
    BY <2>1, WaitVerdictSim
  <2>2. CASE WaitPreflight(c)
    BY <2>2, AskVerdictSim DEF Verdicts!Next
  <2>3. CASE Expire(c) \/ ReceiveVerdict(c) \/ ExpireVerdict(c)
    BY <2>3, ExpireVerdictSim DEF Verdicts!Next
  <2> QED
    BY <1>6, <2>1, <2>2, <2>3 DEF Request
<1> QED
  BY <1>1, <1>2, <1>3, <1>4, <1>5, <1>6 DEF Next, Handler

(* Initial states map to initial states. *)
LEMMA VerdictInit ==
  ASSUME Init PROVE Verdicts!Init
<1>1. VerdictsSeen
  BY InitInv, SeesVerdicts
<1>2. \A c \in Callers : caller[c].pc = "new"
  BY DEF Init, Fresh
<1>3. \A c \in Callers : verdictCall[c] = [st |-> "new", key |-> None, val |-> None]
  BY <1>1, <1>2 DEF VerdictsSeen, VerdictSeen
<1>4. verdictCall = [c \in Callers |-> [st |-> "new", key |-> None, val |-> None]]
  BY <1>1, <1>3 DEF VerdictsSeen
<1> QED
  BY <1>4 DEF Verdicts!Init, Init

(* The preflight store implements Rendezvous, though any handler of the name *)
(* may overwrite or forget what another one filed: nobody waits beside a     *)
(* filed verdict, and a verdict reaches everybody who waits for it.          *)
THEOREM VerdictsRefine == Spec => VerdictsAreRendezvous
<1>1. Init => Verdicts!Init
  BY VerdictInit
<1>2. TunnelsInv /\ TunnelsInv' /\ [Next]_vars
        => [Verdicts!Next]_<<reports, verdictCall>>
  BY VerdictStep
<1> QED
  BY <1>1, <1>2, TunnelsInvariant, PTL DEF Spec, VerdictsAreRendezvous, Verdicts!Spec
-----------------------------------------------------------------------------
(* What the two stores promise their callers. *)

(* Both maps yield a rendezvous with the right types. *)
LEMMA RegistryTypes == TunnelsInv => Registry!TypeOK
<1> SUFFICES ASSUME TunnelsInv PROVE Registry!TypeOK
  OBVIOUS
<1>1. RegistrySeen
  BY SeesRegistry
<1>2. \A k \in Keys : Newest(k) \in Conns \cup {None}
  BY NewestFields DEF TunnelsInv, TypeOK
<1>3. ASSUME NEW c \in Callers
      PROVE  /\ registryCall[c] \in Registry!Call
             /\ registryCall[c].st = "waiting" => registryCall[c].key \in Keys
  <2>1. /\ CallSeen(c) /\ PlaceSeen(c) /\ caller[c] \in Caller
    BY <1>1, <1>3 DEF RegistrySeen
  <2>2. CASE caller[c].pc = "waiting"
    <3>1. CASE c \in waiters[caller[c].key]
      BY <2>1, <2>2, <3>1 DEF CallSeen, PlaceSeen, Registry!Call
    <3>2. CASE c \notin waiters[caller[c].key]
      <4>1. PICK t \in Conns : chan[c] = t \/ c \in handing[t]
        BY <2>1, <2>2, <3>2 DEF PlaceSeen
      <4>2. registryCall[c] = [st |-> "owed", key |-> caller[c].key, val |-> t]
        BY <2>1, <2>2, <4>1 DEF CallSeen
      <4> QED
        BY <2>1, <2>2, <4>2 DEF PlaceSeen, Registry!Call
    <3> QED
      BY <3>1, <3>2
  <2>3. CASE caller[c].pc # "waiting"
    BY <2>1, <2>3 DEF CallSeen, Caller, Registry!Call
  <2> QED
    BY <2>2, <2>3
<1> QED
  BY <1>1, <1>2, <1>3 DEF Registry!TypeOK, RegistrySeen

LEMMA VerdictTypes == TunnelsInv => Verdicts!TypeOK
<1> SUFFICES ASSUME TunnelsInv PROVE Verdicts!TypeOK
  OBVIOUS
<1>1. VerdictsSeen /\ reports \in [Keys -> Tasks \cup {None}]
  BY SeesVerdicts DEF TunnelsInv, TypeOK
<1>2. ASSUME NEW c \in Callers
      PROVE  /\ verdictCall[c] \in Verdicts!Call
             /\ verdictCall[c].st = "waiting" => verdictCall[c].key \in Keys
  <2>1. /\ VerdictSeen(c) /\ VerdictPlace(c) /\ caller[c] \in Caller
    BY <1>1, <1>2 DEF VerdictsSeen
  <2>2. CASE caller[c].pc = "pending"
    <3>1. CASE c \in pwaiters[caller[c].key]
      BY <2>1, <2>2, <3>1 DEF VerdictSeen, VerdictPlace, Verdicts!Call
    <3>2. CASE c \notin pwaiters[caller[c].key]
      <4>1. PICK v \in Tasks : OwedTask(c, v)
        BY <2>1, <2>2, <3>2 DEF VerdictPlace
      <4>2. verdictCall[c] = [st |-> "owed", key |-> caller[c].key, val |-> v]
        BY <2>1, <2>2, <4>1 DEF VerdictSeen
      <4> QED
        BY <2>1, <2>2, <4>2 DEF VerdictPlace, Verdicts!Call
    <3> QED
      BY <3>1, <3>2
  <2>3. CASE caller[c].pc # "pending"
    BY <2>1, <2>3 DEF VerdictSeen, Caller, Verdicts!Call
  <2> QED
    BY <2>2, <2>3
<1> QED
  BY <1>1, <1>2 DEF Verdicts!TypeOK, VerdictsSeen

(* A publication takes the whole queue of its key, and what is withdrawn was *)
(* on offer, so that nobody waited for it.                                   *)
LEMMA RegistryKept ==
  ASSUME Registry!TypeOK, Registry!NobodyForgotten,
         [Registry!Next]_<<registryOffer, registryCall>>
  PROVE  Registry!NobodyForgotten'
<1>1. CASE UNCHANGED <<registryOffer, registryCall>>
  BY <1>1 DEF Registry!NobodyForgotten
<1>2. ASSUME NEW c \in Callers, Registry!Deliver(c) \/ Registry!Go(c)
      PROVE  Registry!NobodyForgotten'
  BY <1>2
  DEF Registry!Deliver, Registry!Go, Registry!TypeOK, Registry!Call, Registry!NobodyForgotten
<1>3. ASSUME NEW c \in Callers, NEW k \in Keys, Registry!Ask(c, k)
      PROVE  Registry!NobodyForgotten'
  BY <1>3 DEF Registry!Ask, Registry!TypeOK, Registry!Call, Registry!NobodyForgotten
<1>4. ASSUME NEW k \in Keys, NEW v \in Conns, Registry!Publish(k, v)
      PROVE  Registry!NobodyForgotten'
  <2>1. ASSUME NEW c \in Callers, registryCall'[c].st = "waiting"
        PROVE  registryCall'[c] = registryCall[c] /\ registryCall[c].key # k
    BY <1>4, <2>1 DEF Registry!Publish, Registry!TypeOK, Registry!Call
  <2> QED
    BY <1>4, <2>1 DEF Registry!Publish, Registry!TypeOK, Registry!NobodyForgotten
<1>5. ASSUME NEW k \in Keys, NEW v \in Conns \cup {None}, Registry!Withdraw(k, v)
      PROVE  Registry!NobodyForgotten'
  BY <1>5 DEF Registry!Withdraw, Registry!TypeOK, Registry!NobodyForgotten
<1> QED
  BY <1>1, <1>2, <1>3, <1>4, <1>5 DEF Registry!Next

(* The same of the verdicts. *)
LEMMA VerdictsKept ==
  ASSUME Verdicts!TypeOK, Verdicts!NobodyForgotten,
         [Verdicts!Next]_<<reports, verdictCall>>
  PROVE  Verdicts!NobodyForgotten'
<1>1. CASE UNCHANGED <<reports, verdictCall>>
  BY <1>1 DEF Verdicts!NobodyForgotten
<1>2. ASSUME NEW c \in Callers, Verdicts!Deliver(c) \/ Verdicts!Go(c)
      PROVE  Verdicts!NobodyForgotten'
  BY <1>2
  DEF Verdicts!Deliver, Verdicts!Go, Verdicts!TypeOK, Verdicts!Call, Verdicts!NobodyForgotten
<1>3. ASSUME NEW c \in Callers, NEW k \in Keys, Verdicts!Ask(c, k)
      PROVE  Verdicts!NobodyForgotten'
  BY <1>3 DEF Verdicts!Ask, Verdicts!TypeOK, Verdicts!Call, Verdicts!NobodyForgotten
<1>4. ASSUME NEW k \in Keys, NEW v \in Tasks, Verdicts!Publish(k, v)
      PROVE  Verdicts!NobodyForgotten'
  <2>1. ASSUME NEW c \in Callers, verdictCall'[c].st = "waiting"
        PROVE  verdictCall'[c] = verdictCall[c] /\ verdictCall[c].key # k
    BY <1>4, <2>1 DEF Verdicts!Publish, Verdicts!TypeOK, Verdicts!Call
  <2> QED
    BY <1>4, <2>1 DEF Verdicts!Publish, Verdicts!TypeOK, Verdicts!NobodyForgotten
<1>5. ASSUME NEW k \in Keys, NEW v \in Tasks \cup {None}, Verdicts!Withdraw(k, v)
      PROVE  Verdicts!NobodyForgotten'
  BY <1>5 DEF Verdicts!Withdraw, Verdicts!TypeOK, Verdicts!NobodyForgotten
<1> QED
  BY <1>1, <1>2, <1>3, <1>4, <1>5 DEF Verdicts!Next

(* However publications, withdrawals, asks and expiries interleave, nobody   *)
(* waits for a tunnel, or for a verdict, that is there (WaitWorkspace,       *)
(* preflightStore.wait).                                                     *)
THEOREM NobodyWaitsInVain ==
  Spec => [](Registry!NobodyForgotten /\ Verdicts!NobodyForgotten)
<1>1. Registry!Init => Registry!NobodyForgotten
  BY DEF Registry!Init, Registry!NobodyForgotten
<1>2. Verdicts!Init => Verdicts!NobodyForgotten
  BY DEF Verdicts!Init, Verdicts!NobodyForgotten
<1>3. Init => Registry!NobodyForgotten /\ Verdicts!NobodyForgotten
  BY <1>1, <1>2, RegistryInit, VerdictInit
<1>4. TunnelsInv /\ TunnelsInv' /\ [Next]_vars
        /\ Registry!NobodyForgotten /\ Verdicts!NobodyForgotten
        => Registry!NobodyForgotten' /\ Verdicts!NobodyForgotten'
  BY RegistryStep, VerdictStep, RegistryTypes, VerdictTypes, RegistryKept, VerdictsKept
<1> QED
  BY <1>3, <1>4, TunnelsInvariant, PTL DEF Spec

(* Whoever leaves the queue of either store is owed the value then on offer, *)
(* or gave up (AddWorkspace, put): no waiter is dropped, and none is served  *)
(* with anything older.                                                      *)
THEOREM QueuesAreServed ==
  Spec => Registry!QueueEndsWithValue /\ Verdicts!QueueEndsWithValue
<1>1. TunnelsInv /\ TunnelsInv' /\ [Next]_vars =>
        [\A c \in Callers :
           registryCall[c].st = "waiting" /\ registryCall'[c].st # "waiting" =>
             \/ registryCall'[c].st = "gone"
             \/ registryCall'[c].st = "owed" /\
                registryCall'[c].val = registryOffer'[registryCall[c].key]]_<<registryOffer, registryCall>>
  <2> SUFFICES ASSUME Registry!TypeOK, Registry!Next, NEW c \in Callers,
                      registryCall[c].st = "waiting", registryCall'[c].st # "waiting"
               PROVE  \/ registryCall'[c].st = "gone"
                      \/ registryCall'[c].st = "owed" /\
                         registryCall'[c].val = registryOffer'[registryCall[c].key]
    BY RegistryStep, RegistryTypes
  <2>1. ASSUME NEW d \in Callers, Registry!Deliver(d) PROVE FALSE
    BY <2>1 DEF Registry!Deliver, Registry!TypeOK, Registry!Call
  <2>2. ASSUME NEW d \in Callers, Registry!Go(d) PROVE registryCall'[c].st = "gone"
    BY <2>2 DEF Registry!Go, Registry!TypeOK, Registry!Call
  <2>3. ASSUME NEW d \in Callers, NEW k \in Keys, Registry!Ask(d, k) PROVE FALSE
    BY <2>3 DEF Registry!Ask, Registry!TypeOK, Registry!Call
  <2>4. ASSUME NEW k \in Keys, NEW v \in Conns, Registry!Publish(k, v)
        PROVE  /\ registryCall'[c].st = "owed"
               /\ registryCall'[c].val = registryOffer'[registryCall[c].key]
    BY <2>4 DEF Registry!Publish, Registry!TypeOK, Registry!Call
  <2>5. ASSUME NEW k \in Keys, NEW v \in Conns \cup {None}, Registry!Withdraw(k, v)
        PROVE  FALSE
    BY <2>5 DEF Registry!Withdraw
  <2> QED
    BY <2>1, <2>2, <2>3, <2>4, <2>5 DEF Registry!Next
<1>2. TunnelsInv /\ TunnelsInv' /\ [Next]_vars =>
        [\A c \in Callers :
           verdictCall[c].st = "waiting" /\ verdictCall'[c].st # "waiting" =>
             \/ verdictCall'[c].st = "gone"
             \/ verdictCall'[c].st = "owed" /\
                verdictCall'[c].val = reports'[verdictCall[c].key]]_<<reports, verdictCall>>
  <2> SUFFICES ASSUME Verdicts!TypeOK, Verdicts!Next, NEW c \in Callers,
                      verdictCall[c].st = "waiting", verdictCall'[c].st # "waiting"
               PROVE  \/ verdictCall'[c].st = "gone"
                      \/ verdictCall'[c].st = "owed" /\
                         verdictCall'[c].val = reports'[verdictCall[c].key]
    BY VerdictStep, VerdictTypes
  <2>1. ASSUME NEW d \in Callers, Verdicts!Deliver(d) PROVE FALSE
    BY <2>1 DEF Verdicts!Deliver, Verdicts!TypeOK, Verdicts!Call
  <2>2. ASSUME NEW d \in Callers, Verdicts!Go(d) PROVE verdictCall'[c].st = "gone"
    BY <2>2 DEF Verdicts!Go, Verdicts!TypeOK, Verdicts!Call
  <2>3. ASSUME NEW d \in Callers, NEW k \in Keys, Verdicts!Ask(d, k) PROVE FALSE
    BY <2>3 DEF Verdicts!Ask, Verdicts!TypeOK, Verdicts!Call
  <2>4. ASSUME NEW k \in Keys, NEW v \in Tasks, Verdicts!Publish(k, v)
        PROVE  /\ verdictCall'[c].st = "owed"
               /\ verdictCall'[c].val = reports'[verdictCall[c].key]
    BY <2>4 DEF Verdicts!Publish, Verdicts!TypeOK, Verdicts!Call
  <2>5. ASSUME NEW k \in Keys, NEW v \in Tasks \cup {None}, Verdicts!Withdraw(k, v)
        PROVE  FALSE
    BY <2>5 DEF Verdicts!Withdraw
  <2> QED
    BY <2>1, <2>2, <2>3, <2>4, <2>5 DEF Verdicts!Next
<1> QED
  BY <1>1, <1>2, TunnelsInvariant, PTL
  DEF Spec, Registry!QueueEndsWithValue, Verdicts!QueueEndsWithValue
=============================================================================

--------------------------- MODULE Attach_proofs ---------------------------
(***************************************************************************)
(* Proofs about Attach, for any number of terminals, tasks, credentials,   *)
(* restarts of the relay and ticks of the clock: who may drive a session,  *)
(* when a credential can be used twice, what "ended" means, and whom a     *)
(* child runs as.                                                          *)
(***************************************************************************)
EXTENDS Attach, SequenceTheorems, TLAPS

-----------------------------------------------------------------------------
(* The inductive invariant. *)

(* A task's data tunnel is on the relay's list once. *)
OneTunnelEach ==
  \A i, j \in DOMAIN tunnels : tunnels[i] = tunnels[j] => i = j

(* A request under way was authorised, past that has a credential, and read  *)
(* the clock in the past.                                                    *)
Entitled(k) ==
  /\ k.pc \in {"placing", "ensured"} => Authorised(k.user, k.asked)
  /\ k.pc \in {"granted", "dialled", "verified", "timed", "redeemed", "routed",
               "attached"} => k.tok \in 1..Len(tokens)
  /\ k.pc \in {"routed", "attached"} => k.task \in Task
  /\ k.pc # "attached" => k.link = "open"
  /\ k.at <= now

(* An open attachment is to the child that runs; from the end of the child   *)
(* to the close frame, the child is one that exited.                         *)
StreamRight(k) ==
  /\ k.pc = "attached" /\ k.link = "open" => k.run # 0 /\ live[k.task] = k.run
  /\ k.pc = "attached" /\ k.link \in {"ended", "marker", "normal"} =>
       k.run \in exited
  /\ k.pc = "ended" => k.run \in exited

ClientsRight ==
  \A c \in Clients : Entitled(client[c]) /\ StreamRight(client[c])

(* Only the session's user has a credential to drive it; a keystroke came    *)
(* over one that exists and drives.                                          *)
TokensEntitled ==
  /\ \A n \in 1..Len(tokens) :
       tokens[n].mode = "control" => tokens[n].user = SessionUser
  /\ \A n \in typed : n \in 1..Len(tokens) /\ tokens[n].mode = "control"

(* The relay remembers every timely redemption of its life, or the           *)
(* credential has expired since; seen names credentials that exist.          *)
RedemptionsSeen ==
  /\ \A n \in seen : n \in 1..Len(tokens)
  /\ \A n \in Nonce : uses[n] # 0 =>
       /\ n \in 1..Len(tokens) /\ uses[n] = 1
       /\ n \in seen \/ Expired(n)

(* Nobody else was ever announced. *)
ToldRight == \A t \in Task : told[t] \in {Nobody, SessionUser}

AttachInv ==
  /\ TypeOK /\ OneTunnelEach /\ ClientsRight /\ TokensEntitled
  /\ RedemptionsSeen /\ ToldRight /\ RunsAsItsUser

-----------------------------------------------------------------------------
(* A client that starts, or is over. *)
LEMMA FreshType ==
  /\ Fresh \in Client /\ Fresh.pc = "idle" /\ Fresh.at = 0 /\ Fresh.link = "open"
  /\ Over \in Client /\ Over.pc = "over" /\ Over.at = 0 /\ Over.link = "open"
<1>1. Fresh \in Client /\ Fresh.pc = "idle" /\ Fresh.at = 0 /\ Fresh.link = "open"
  <2>1. /\ SessionUser \in Users /\ 0 \in 0..MaxTokens /\ 0 \in 0..MaxTime
        /\ 0 \in 0..MaxGen /\ 0 \in Nat
    BY AttachAssumption
  <2> QED
    BY <2>1 DEF Fresh, Client, Mode, Link
<1> QED
  BY <1>1 DEF Over, Client

(* Init establishes it. *)
LEMMA InitInv == Init => AttachInv
<1> SUFFICES ASSUME Init PROVE AttachInv
  OBVIOUS
<1>1. 1 \in Task /\ 0 \in 0..MaxTime /\ 0 \in 0..MaxRestarts
  BY AttachAssumption DEF Task
<1>2. TypeOK
  BY <1>1, FreshType, AttachAssumption, EmptySeq DEF Init, TypeOK
<1>3. ClientsRight
  BY FreshType DEF Init, ClientsRight, Entitled, StreamRight
<1>4. OneTunnelEach /\ TokensEntitled /\ RedemptionsSeen
  BY DEF Init, OneTunnelEach, TokensEntitled, RedemptionsSeen
<1>5. ToldRight /\ RunsAsItsUser
  BY DEF Init, ToldRight, RunsAsItsUser
<1> QED
  BY <1>2, <1>3, <1>4, <1>5 DEF AttachInv

(* Clients that stay or are over keep what is known of clients, as long as   *)
(* the child of an open attachment stays.                                    *)
LEMMA ClientsStay ==
  ASSUME AttachInv, client' \in [Clients -> Client], NEW c \in Clients,
         client'[c] = client[c] \/ client'[c] = Over,
         Len(tokens) <= Len(tokens'), Len(tokens') \in Nat, now <= now', now' \in Nat,
         exited \subseteq exited',
         StreamRight(client[c]) /\ client'[c] = client[c] /\ At(c, "attached")
           /\ client[c].link = "open" => live'[client[c].task] = live[client[c].task]
  PROVE  Entitled(client[c])' /\ StreamRight(client[c])'
<1>1. /\ Len(tokens) \in Nat /\ now \in Nat /\ client[c].at \in Nat
      /\ Entitled(client[c]) /\ StreamRight(client[c])
  BY AttachAssumption DEF AttachInv, TypeOK, ClientsRight, Client
<1>2. CASE client'[c] = client[c]
  BY <1>1, <1>2 DEF Entitled, StreamRight, Authorised, At
<1>3. CASE client'[c] = Over
  BY <1>1, <1>3, FreshType DEF Entitled, StreamRight
<1> QED
  BY <1>2, <1>3

(* What is known of credentials stays with them. *)
LEMMA CredentialsStay ==
  ASSUME AttachInv, UNCHANGED <<now, tokens, uses, seen, typed>>
  PROVE  TokensEntitled' /\ RedemptionsSeen'
  BY DEF AttachInv, TokensEntitled, RedemptionsSeen, Expired

(* A step that keeps the children keeps what is known of them. *)
LEMMA ChildrenStay ==
  ASSUME AttachInv, UNCHANGED <<told, live, runsAs>>
  PROVE  ToldRight' /\ RunsAsItsUser'
  BY DEF AttachInv, ToldRight, RunsAsItsUser

(* A step that keeps the tunnels keeps what is known of them. *)
LEMMA TunnelsStay ==
  ASSUME AttachInv, UNCHANGED tunnels PROVE OneTunnelEach'
  BY DEF AttachInv, OneTunnelEach

(* What is left of a list when one place is cut out. *)
LEMMA RemoveAtFields ==
  ASSUME NEW S, NEW s \in Seq(S), NEW i \in 1..Len(s)
  PROVE  /\ RemoveAt(s, i) \in Seq(S) /\ Len(RemoveAt(s, i)) = Len(s) - 1
         /\ \A j \in 1..(Len(s) - 1) :
              RemoveAt(s, i)[j] = IF j < i THEN s[j] ELSE s[j + 1]
<1> DEFINE a == SubSeq(s, 1, i - 1)
           b == SubSeq(s, i + 1, Len(s))
<1>1. Len(s) \in Nat /\ \A j \in 1..Len(s) : s[j] \in S
  BY LenProperties, ElementOfSeq
<1>2. /\ a \in Seq(S) /\ Len(a) = i - 1
      /\ \A j \in 1..(i - 1) : a[j] = s[j]
  BY <1>1, SubSeqProperties
<1>3. b \in Seq(S) /\ Len(b) = Len(s) - i
  <2>1. \A j \in (i + 1)..Len(s) : s[j] \in S
    BY <1>1
  <2>2. i + 1 \in Int /\ Len(s) \in Int /\ 1 <= i + 1
    BY <1>1
  <2> QED
    BY <1>1, <2>1, <2>2, SubSeqProperties
<1>4. ASSUME NEW j \in 1..(Len(s) - i) PROVE b[j] = s[i + j]
  BY <1>1
<1> HIDE DEF a, b
<1>5. /\ a \o b \in Seq(S) /\ Len(a \o b) = Len(a) + Len(b)
      /\ \A j \in 1..(Len(a) + Len(b)) :
           (a \o b)[j] = IF j <= Len(a) THEN a[j] ELSE b[j - Len(a)]
  BY <1>2, <1>3, ConcatProperties
<1>6. ASSUME NEW j \in 1..(Len(s) - 1)
      PROVE  (a \o b)[j] = IF j < i THEN s[j] ELSE s[j + 1]
  <2>1. CASE j < i
    BY <1>1, <1>2, <1>3, <1>5, <2>1
  <2>2. CASE ~(j < i)
    <3>1. j - Len(a) \in 1..(Len(s) - i) /\ i + (j - Len(a)) = j + 1
      BY <1>1, <1>2, <2>2
    <3>2. (a \o b)[j] = b[j - Len(a)]
      BY <1>1, <1>2, <1>3, <1>5, <2>2
    <3> QED
      BY <1>4, <2>2, <3>1, <3>2
  <2> QED
    BY <2>1, <2>2
<1>7. RemoveAt(s, i) = a \o b
  BY DEF RemoveAt, a, b
<1>8. Len(a \o b) = Len(s) - 1
  BY <1>1, <1>2, <1>3, <1>5
<1> QED
  BY <1>5, <1>6, <1>7, <1>8

(* registry.remove leaves the others, and not the one removed. *)
LEMMA WithoutFields ==
  ASSUME AttachInv, NEW t
  PROVE  /\ Without(t) \in Seq(running \ {t})
         /\ \A i, j \in DOMAIN Without(t) : Without(t)[i] = Without(t)[j] => i = j
<1>1. /\ tunnels \in Seq(running) /\ Len(tunnels) \in Nat
      /\ DOMAIN tunnels = 1..Len(tunnels)
  BY LenProperties DEF AttachInv, TypeOK
<1>2. CASE t \notin ToSet(tunnels)
  <2>1. \A i \in 1..Len(tunnels) : tunnels[i] \in running \ {t}
    BY <1>1, <1>2, ElementOfSeq DEF ToSet
  <2>2. tunnels \in Seq(running \ {t})
    BY <1>1, <2>1
  <2>3. Without(t) = tunnels
    BY <1>2 DEF Without
  <2> QED
    BY <2>2, <2>3 DEF AttachInv, OneTunnelEach
<1>3. CASE t \in ToSet(tunnels)
  <2> DEFINE i == CHOOSE i \in DOMAIN tunnels : tunnels[i] = t
             w == RemoveAt(tunnels, i)
  <2>1. i \in 1..Len(tunnels) /\ tunnels[i] = t
    BY <1>1, <1>3 DEF ToSet
  <2>2. Without(t) = w
    BY <1>3 DEF Without
  <2> HIDE DEF i
  <2>3. /\ w \in Seq(running) /\ Len(w) = Len(tunnels) - 1
        /\ \A j \in 1..(Len(tunnels) - 1) :
             w[j] = IF j < i THEN tunnels[j] ELSE tunnels[j + 1]
    BY <1>1, <2>1, RemoveAtFields
  <2> HIDE DEF w
  <2>4. DOMAIN w = 1..(Len(tunnels) - 1)
    BY <2>3, LenProperties
  <2>5. ASSUME NEW j \in 1..Len(tunnels), NEW k \in 1..Len(tunnels),
               tunnels[j] = tunnels[k]
        PROVE  j = k
    BY <1>1, <2>5 DEF AttachInv, OneTunnelEach
  <2>6. ASSUME NEW j \in 1..(Len(tunnels) - 1) PROVE w[j] \in running \ {t}
    <3>1. CASE j < i
      BY <1>1, <2>1, <2>3, <2>5, <3>1, ElementOfSeq
    <3>2. CASE ~(j < i)
      BY <1>1, <2>1, <2>3, <2>5, <3>2, ElementOfSeq
    <3> QED
      BY <3>1, <3>2
  <2>7. ASSUME NEW j \in 1..(Len(tunnels) - 1), NEW k \in 1..(Len(tunnels) - 1),
               w[j] = w[k]
        PROVE  j = k
    <3> DEFINE at(m) == IF m < i THEN m ELSE m + 1
    <3>1. at(j) \in 1..Len(tunnels) /\ at(k) \in 1..Len(tunnels)
      BY <1>1, <2>1
    <3>2. w[j] = tunnels[at(j)] /\ w[k] = tunnels[at(k)]
      BY <2>3
    <3>3. at(j) = at(k)
      BY <2>5, <2>7, <3>1, <3>2
    <3> QED
      BY <1>1, <2>1, <3>3
  <2>8. w \in Seq(running \ {t})
    BY <1>1, <2>3, <2>4, <2>6
  <2> QED
    BY <2>2, <2>4, <2>7, <2>8
<1> QED
  BY <1>2, <1>3

-----------------------------------------------------------------------------
(* Steps of one client that change nothing but its own record. *)

(* A client that goes on with a record that suits where it goes. *)
LEMMA TakesInv ==
  ASSUME AttachInv,
         UNCHANGED <<now, ctlVars, childVars, relayVars, tokens, uses, typed>>,
         NEW c \in Clients, NEW new \in Client,
         client' = [client EXCEPT ![c] = new], Entitled(new), StreamRight(new)
  PROVE  AttachInv'
<1>1. UNCHANGED <<now, gen, running, leaving, verified, control, told, live, runsAs,
                  forks, exited, tunnels, seen, life, tokens, uses, typed>>
  BY DEF ctlVars, childVars, relayVars
<1>2. /\ client' \in [Clients -> Client] /\ client'[c] = new
      /\ \A d \in Clients \ {c} : client'[d] = client[d]
  BY DEF AttachInv, TypeOK
<1>3. TypeOK'
  BY <1>1, <1>2 DEF AttachInv, TypeOK
<1>4. OneTunnelEach' /\ ToldRight' /\ RunsAsItsUser' /\ TokensEntitled'
      /\ RedemptionsSeen'
  BY <1>1, TunnelsStay, ChildrenStay, CredentialsStay
<1>5. ASSUME NEW d \in Clients
      PROVE  Entitled(client[d])' /\ StreamRight(client[d])'
  <2>1. CASE d = c
    BY <1>1, <1>2, <2>1 DEF Entitled, StreamRight, Authorised
  <2>2. CASE d # c
    <3>1. Entitled(client[d]) /\ StreamRight(client[d]) /\ client'[d] = client[d]
      BY <1>2, <2>2 DEF AttachInv, ClientsRight
    <3> QED
      BY <1>1, <3>1 DEF Entitled, StreamRight, Authorised
  <2> QED
    BY <2>1, <2>2
<1>6. ClientsRight'
  BY <1>5 DEF ClientsRight
<1> QED
  BY <1>3, <1>4, <1>6 DEF AttachInv

(* A client that leaves. *)
LEMMA LeavesInv ==
  ASSUME AttachInv,
         UNCHANGED <<now, ctlVars, childVars, relayVars, tokens, uses, typed>>,
         NEW c \in Clients, Exits(c)
  PROVE  AttachInv'
<1>1. Entitled(Over) /\ StreamRight(Over)
  BY FreshType, AttachAssumption DEF Entitled, StreamRight, AttachInv, TypeOK
<1> QED
  BY <1>1, FreshType, TakesInv DEF Exits

(* What is known of one client. *)
LEMMA OneClient ==
  ASSUME AttachInv, NEW c \in Clients
  PROVE  /\ client[c] \in Client /\ Entitled(client[c]) /\ StreamRight(client[c])
         /\ Len(tokens) \in Nat /\ Len(tokens) <= MaxTokens /\ MaxTokens \in Nat
         /\ now \in 0..MaxTime /\ MaxTime \in Nat
  BY AttachAssumption DEF AttachInv, TypeOK, ClientsRight

(* A client that moves on with what it has. *)
LEMMA GoesInv ==
  ASSUME AttachInv,
         UNCHANGED <<now, ctlVars, childVars, relayVars, tokens, uses, typed>>,
         NEW c \in Clients, NEW pc \in {"ensured", "verified"}, Goes(c, pc),
         pc = "ensured" => At(c, "placing"), pc = "verified" => At(c, "dialled")
  PROVE  AttachInv'
<1> DEFINE new == [client[c] EXCEPT !.pc = pc]
<1>1. /\ new \in Client /\ new.pc = pc /\ new.user = client[c].user
      /\ new.asked = client[c].asked /\ new.tok = client[c].tok
      /\ new.at = client[c].at /\ new.link = client[c].link
  BY OneClient DEF Client
<1>2. client' = [client EXCEPT ![c] = new]
  BY DEF Goes
<1> HIDE DEF new
<1>3. Entitled(new) /\ StreamRight(new)
  BY <1>1, OneClient DEF Entitled, StreamRight, At
<1> QED
  BY <1>1, <1>2, <1>3, TakesInv

(* The session is negotiated with the control plane. *)
LEMMA NegotiateInv ==
  ASSUME AttachInv, NEW c \in Clients, NEW u \in Users, NEW mode \in Mode,
         Negotiate(c, u, mode)
  PROVE  AttachInv'
<1>1. UNCHANGED <<now, ctlVars, childVars, relayVars, tokens, uses, typed>>
  BY DEF Negotiate
<1>2. CASE Authorised(u, mode)
  <2> DEFINE new == [client[c] EXCEPT !.pc = "placing", !.user = u,
                                      !.asked = mode]
  <2>1. /\ new \in Client /\ new.pc = "placing" /\ new.user = u
        /\ new.asked = mode /\ new.at = client[c].at /\ new.link = client[c].link
    BY OneClient DEF Client
  <2>2. client' = [client EXCEPT ![c] = new]
    BY <1>2 DEF Negotiate
  <2> HIDE DEF new
  <2>3. Entitled(new) /\ StreamRight(new)
    BY <1>2, <2>1, OneClient DEF Entitled, StreamRight, Negotiate, At
  <2> QED
    BY <1>1, <2>1, <2>2, <2>3, TakesInv
<1>3. CASE ~Authorised(u, mode)
  BY <1>1, <1>3, LeavesInv DEF Negotiate
<1> QED
  BY <1>2, <1>3

(* The workspace is ensured, or asking for the endpoint fails. *)
LEMMA EndpointInv ==
  ASSUME AttachInv, NEW c \in Clients, Ensured(c) \/ EndpointFails(c)
  PROVE  AttachInv'
<1>1. UNCHANGED <<now, ctlVars, childVars, relayVars, tokens, uses, typed>>
  BY DEF Ensured, EndpointFails
<1>2. CASE Ensured(c)
  BY <1>1, <1>2, GoesInv DEF Ensured
<1>3. CASE EndpointFails(c)
  BY <1>1, <1>3, LeavesInv DEF EndpointFails
<1> QED
  BY <1>2, <1>3

(* Two records that differ at most in how far the stream's end has come. *)
SameBut(k, m) ==
  /\ k.pc = m.pc /\ k.asked = m.asked /\ k.user = m.user /\ k.tok = m.tok
  /\ k.at = m.at /\ k.task = m.task /\ k.run = m.run

(* What Linked makes of the clients. *)
LEMMA LinkedFields ==
  ASSUME AttachInv, NEW C, NEW l \in Link, client' = Linked(C, l)
  PROVE  /\ client' \in [Clients -> Client]
         /\ \A c \in Clients :
              /\ client'[c] \in Client
              /\ c \notin C => client'[c] = client[c]
              /\ c \in C => SameBut(client'[c], client[c]) /\ client'[c].link = l
<1> DEFINE new(c) == [client[c] EXCEPT !.link = l]
<1>1. ASSUME NEW c \in Clients
      PROVE  new(c) \in Client /\ SameBut(new(c), client[c]) /\ new(c).link = l
  BY OneClient DEF Client, SameBut
<1>2. client' = [c \in Clients |-> IF c \in C THEN new(c) ELSE client[c]]
  BY DEF Linked
<1> HIDE DEF new
<1>3. \A c \in Clients : client[c] \in Client
  BY OneClient
<1> QED
  BY <1>1, <1>2, <1>3

(* The client dials the relay. *)
LEMMA DialInv ==
  ASSUME AttachInv, NEW c \in Clients, NEW n \in Nonce, Dial(c, n)
  PROVE  AttachInv'
<1> DEFINE new == [client[c] EXCEPT !.pc = "dialled", !.tok = n]
<1>0. n \in 0..MaxTokens
  BY AttachAssumption DEF Nonce
<1>1. /\ new \in Client /\ new.pc = "dialled" /\ new.tok = n
      /\ new.at = client[c].at /\ new.link = client[c].link
  BY <1>0, OneClient DEF Client
<1>2. client' = [client EXCEPT ![c] = new]
  BY DEF Dial
<1>3. n \in 1..Len(tokens)
  BY OneClient DEF Dial, At, Entitled
<1>4. UNCHANGED <<now, ctlVars, childVars, relayVars, tokens, uses, typed>>
  BY DEF Dial
<1> HIDE DEF new
<1>5. Entitled(new) /\ StreamRight(new)
  BY <1>1, <1>3, OneClient DEF Entitled, StreamRight, Dial, At
<1> QED
  BY <1>1, <1>2, <1>4, <1>5, TakesInv

(* The relay verifies the credential. *)
LEMMA VerifyAttachInv ==
  ASSUME AttachInv, NEW c \in Clients, VerifyAttach(c) PROVE AttachInv'
<1>1. UNCHANGED <<now, ctlVars, childVars, relayVars, tokens, uses, typed>>
  BY DEF VerifyAttach
<1>2. CASE Expired(client[c].tok)
  BY <1>1, <1>2, LeavesInv DEF VerifyAttach
<1>3. CASE ~Expired(client[c].tok)
  BY <1>1, <1>3, GoesInv DEF VerifyAttach
<1> QED
  BY <1>2, <1>3

(* The relay reads the clock. *)
LEMMA ReadClockInv ==
  ASSUME AttachInv, NEW c \in Clients, ReadClock(c) PROVE AttachInv'
<1> DEFINE new == [client[c] EXCEPT !.pc = "timed", !.at = now]
<1>1. /\ new \in Client /\ new.pc = "timed" /\ new.tok = client[c].tok
      /\ new.at = now /\ new.link = client[c].link
  BY OneClient DEF Client
<1>2. client' = [client EXCEPT ![c] = new]
  BY DEF ReadClock
<1>3. UNCHANGED <<now, ctlVars, childVars, relayVars, tokens, uses, typed>>
  BY DEF ReadClock
<1> HIDE DEF new
<1>4. Entitled(new)
  <2>1. new.tok \in 1..Len(tokens)
    BY <1>1, OneClient DEF Entitled, ReadClock, At
  <2>2. new.at <= now
    BY <1>1, OneClient
  <2> QED
    BY <1>1, <2>1, <2>2, OneClient DEF Entitled, ReadClock, At
<1>5. StreamRight(new)
  BY <1>1 DEF StreamRight
<1> QED
  BY <1>1, <1>2, <1>3, <1>4, <1>5, TakesInv

(* The stream is routed to a task. *)
LEMMA RouteInv ==
  ASSUME AttachInv, NEW c \in Clients, Route(c) PROVE AttachInv'
<1>1. UNCHANGED <<now, ctlVars, childVars, relayVars, tokens, uses, typed>>
  BY DEF Route
<1>2. CASE tunnels = <<>>
  BY <1>1, <1>2, LeavesInv DEF Route
<1>3. CASE tunnels # <<>>
  <2> DEFINE new == [client[c] EXCEPT !.pc = "routed", !.task = Newest]
  <2>1. tunnels \in Seq(running) /\ running \subseteq Task
    BY DEF AttachInv, TypeOK
  <2>2. Newest \in Task /\ Newest \in 0..MaxGen
    <3>1. Len(tunnels) \in 1..Len(tunnels)
      BY <1>3, <2>1, EmptySeq, LenProperties
    <3>2. Newest \in running
      BY <2>1, <3>1, ElementOfSeq DEF Newest
    <3> QED
      BY <2>1, <3>2, AttachAssumption DEF Task
  <2>3. /\ new \in Client /\ new.pc = "routed" /\ new.tok = client[c].tok
        /\ new.task = Newest /\ new.at = client[c].at
        /\ new.link = client[c].link
    BY <2>2, OneClient DEF Client
  <2>4. client' = [client EXCEPT ![c] = new]
    BY <1>3 DEF Route
  <2> HIDE DEF new
  <2>5. Entitled(new) /\ StreamRight(new)
    BY <2>2, <2>3, OneClient DEF Route, At, Entitled, StreamRight
  <2> QED
    BY <1>1, <2>3, <2>4, <2>5, TakesInv
<1> QED
  BY <1>2, <1>3

(* Where a stream's end has come to, one step further. *)
LEMMA LinkInv ==
  ASSUME AttachInv, NEW c \in Clients, At(c, "attached"), NEW l \in Link \ {"open"},
         UNCHANGED <<now, ctlVars, childVars, relayVars, tokens, uses, typed>>,
         client' = Linked({c}, l),
         l \in {"ended", "marker", "normal"} => client[c].run \in exited
  PROVE  AttachInv'
<1> DEFINE new == [client[c] EXCEPT !.link = l]
<1>1. /\ new \in Client /\ new.pc = client[c].pc /\ new.tok = client[c].tok
      /\ new.task = client[c].task /\ new.at = client[c].at
      /\ new.run = client[c].run /\ new.link = l
      /\ new.user = client[c].user /\ new.asked = client[c].asked
  BY OneClient DEF Client
<1>2. client' = [client EXCEPT ![c] = new]
  BY OneClient DEF Linked, AttachInv, TypeOK
<1> HIDE DEF new
<1>3. Entitled(new)
  BY <1>1, OneClient DEF Entitled, At
<1>4. StreamRight(new)
  BY <1>1 DEF StreamRight, At
<1> QED
  BY <1>1, <1>2, <1>3, <1>4, TakesInv

(* Overflow, pump and relay: the marker follows the end of the child only. *)
LEMMA StreamEndsInv ==
  ASSUME AttachInv, NEW c \in Clients, Overflows(c) \/ Pump(c) \/ Forward(c)
  PROVE  AttachInv'
<1>1. UNCHANGED <<now, ctlVars, childVars, relayVars, tokens, uses, typed>>
      /\ At(c, "attached")
  BY DEF Overflows, Pump, Forward
<1>2. client[c].link \in {"ended", "marker"} => client[c].run \in exited
  BY <1>1, OneClient DEF StreamRight, At
<1>3. CASE Overflows(c)
  BY <1>1, <1>3, LinkInv DEF Overflows, Link
<1>4. CASE Pump(c) /\ client[c].link = "ended"
  BY <1>1, <1>2, <1>4, LinkInv DEF Pump, Link
<1>5. CASE Pump(c) /\ client[c].link # "ended"
  BY <1>1, <1>5, LinkInv DEF Pump, Link
<1>6. CASE Forward(c) /\ client[c].link = "marker"
  BY <1>1, <1>2, <1>6, LinkInv DEF Forward, Link
<1>7. CASE Forward(c) /\ client[c].link # "marker"
  BY <1>1, <1>7, LeavesInv DEF Forward
<1> QED
  BY <1>3, <1>4, <1>5, <1>6, <1>7

(* Joining fails, the client detaches, or reads the close frame. *)
LEMMA LeavingInv ==
  ASSUME AttachInv, NEW c \in Clients, JoinFails(c) \/ Detach(c) \/ LemReads(c)
  PROVE  AttachInv'
<1>1. UNCHANGED <<now, ctlVars, childVars, relayVars, tokens, uses, typed>>
  BY DEF JoinFails, Detach, LemReads
<1>2. CASE JoinFails(c) \/ Detach(c)
  BY <1>1, <1>2, LeavesInv DEF JoinFails, Detach
<1>3. CASE LemReads(c)
  <2> DEFINE new == [Fresh EXCEPT !.pc = "ended", !.run = client[c].run]
  <2>1. /\ new \in Client /\ new.pc = "ended" /\ new.run = client[c].run
        /\ new.at = 0 /\ new.link = "open"
    BY OneClient, FreshType DEF Client
  <2>2. client' = [client EXCEPT ![c] = new]
    BY <1>3 DEF LemReads
  <2> HIDE DEF new
  <2>3. client[c].run \in exited
    BY <1>3, OneClient DEF LemReads, StreamRight, At
  <2>4. Entitled(new) /\ StreamRight(new)
    BY <2>1, <2>3, OneClient DEF Entitled, StreamRight
  <2> QED
    BY <1>1, <2>1, <2>2, <2>4, TakesInv
<1> QED
  BY <1>2, <1>3

-----------------------------------------------------------------------------
(* Credentials: time passes, one is minted, redeemed, typed over. *)

(* Steps that leave the children alone keep what is known of clients that    *)
(* stay.                                                                     *)
LEMMA ClientsKept ==
  ASSUME AttachInv, client' \in [Clients -> Client], UNCHANGED <<live, exited>>,
         Len(tokens) <= Len(tokens'), Len(tokens') \in Nat, now <= now', now' \in Nat,
         NEW c, \A d \in Clients \ {c} : client'[d] = client[d] \/ client'[d] = Over
  PROVE  \A d \in Clients \ {c} : Entitled(client[d])' /\ StreamRight(client[d])'
<1> SUFFICES ASSUME NEW d \in Clients \ {c}
             PROVE  Entitled(client[d])' /\ StreamRight(client[d])'
  OBVIOUS
<1>1. client'[d] = client[d] \/ client'[d] = Over
  OBVIOUS
<1> QED
  BY <1>1, ClientsStay

(* A credential that expired stays so. *)
LEMMA TickInv ==
  ASSUME AttachInv, Tick PROVE AttachInv'
<1>1. UNCHANGED <<gen, running, leaving, verified, control, told, live, runsAs,
                  forks, exited, tunnels, seen, life, tokens, client, uses, typed>>
  BY DEF Tick, ctlVars, childVars, relayVars
<1>2. now \in 0..MaxTime /\ now' = now + 1 /\ now' \in 0..MaxTime
  BY AttachAssumption DEF Tick, AttachInv, TypeOK
<1>3. TypeOK'
  BY <1>1, <1>2 DEF AttachInv, TypeOK
<1>4. OneTunnelEach' /\ ToldRight' /\ RunsAsItsUser' /\ TokensEntitled'
  BY <1>1, TunnelsStay, ChildrenStay DEF AttachInv, TokensEntitled
<1>5. ASSUME NEW n \in 1..Len(tokens), Expired(n) PROVE Expired(n)'
  <2>1. tokens[n] \in AttachClaims
    BY ElementOfSeq DEF AttachInv, TypeOK
  <2>2. tokens[n].expires \in Int
    BY <2>1, AttachAssumption DEF AttachClaims
  <2> QED
    BY <1>1, <1>2, <1>5, <2>2 DEF Expired
<1>6. RedemptionsSeen'
  BY <1>1, <1>5 DEF AttachInv, RedemptionsSeen
<1>7. ASSUME NEW c \in Clients
      PROVE  Entitled(client[c])' /\ StreamRight(client[c])'
  <2>1. Entitled(client[c]) /\ StreamRight(client[c]) /\ client[c].at \in 0..MaxTime
    BY OneClient DEF Client
  <2> QED
    BY <1>1, <1>2, <2>1, AttachAssumption DEF Entitled, StreamRight, Authorised
<1>8. ClientsRight'
  BY <1>7 DEF ClientsRight
<1> QED
  BY <1>3, <1>4, <1>6, <1>8 DEF AttachInv

(* The credential minted is for the user and the mode that were authorised,  *)
(* and the user announced is the session's.                                  *)
LEMMA MintInv ==
  ASSUME AttachInv, NEW c \in Clients, Mint(c) PROVE AttachInv'
<1> DEFINE k == [user |-> client[c].user, mode |-> client[c].asked,
                 expires |-> now + TTL]
           new == [client[c] EXCEPT !.pc = "granted", !.tok = Len(tokens) + 1]
<1>1. UNCHANGED <<now, gen, running, leaving, verified, control, live, runsAs, forks,
                  exited, tunnels, seen, life, uses, typed>>
  BY DEF Mint, ctlVars, relayVars
<1>2. /\ client[c] \in Client /\ tokens \in Seq(AttachClaims)
      /\ Len(tokens) \in Nat /\ Len(tokens) + 1 <= MaxTokens
      /\ Len(tokens) + 1 \in 0..MaxTokens
  BY AttachAssumption DEF Mint, AttachInv, TypeOK
<1>3. k \in AttachClaims /\ k.user = client[c].user /\ k.mode = client[c].asked
  <2>1. now + TTL \in 0..(MaxTime + TTL)
    BY AttachAssumption DEF AttachInv, TypeOK
  <2> QED
    BY <1>2, <2>1 DEF AttachClaims, Client
<1>4. /\ new \in Client /\ new.pc = "granted" /\ new.tok = Len(tokens) + 1
      /\ new.at = client[c].at /\ new.link = client[c].link
  BY <1>2 DEF Client
<1>5. tokens' = Append(tokens, k) /\ client' = [client EXCEPT ![c] = new]
  BY DEF Mint
<1>6. Authorised(client[c].user, client[c].asked)
  BY OneClient DEF Mint, At, Entitled
<1> HIDE DEF k, new
<1>7. /\ tokens' \in Seq(AttachClaims) /\ Len(tokens') = Len(tokens) + 1
      /\ tokens'[Len(tokens) + 1] = k
      /\ \A n \in 1..Len(tokens) : tokens'[n] = tokens[n]
  BY <1>2, <1>3, <1>5, AppendProperties
<1>8. /\ client' \in [Clients -> Client] /\ client'[c] = new
      /\ \A d \in Clients \ {c} : client'[d] = client[d]
  BY <1>4, <1>5 DEF AttachInv, TypeOK
<1>9. ToldRight' /\ told' \in [Task -> Users \cup {Nobody}]
  <2>1. /\ control \subseteq Task /\ told \in [Task -> Users \cup {Nobody}]
        /\ SessionUser \in Users
    BY AttachAssumption DEF AttachInv, TypeOK
  <2> QED
    BY <2>1 DEF Mint, Announced, AttachInv, ToldRight
<1>10. TypeOK'
  BY <1>1, <1>2, <1>7, <1>8, <1>9 DEF AttachInv, TypeOK
<1>11. ClientsRight'
  <2>1. /\ Len(tokens') \in Nat /\ Len(tokens) <= Len(tokens')
        /\ now \in Nat /\ now' = now /\ now <= now'
    BY <1>1, <1>2, <1>7, OneClient
  <2>2. \A d \in Clients \ {c} : Entitled(client[d])' /\ StreamRight(client[d])'
    BY <1>1, <1>8, <2>1, ClientsKept
  <2>3. new.tok \in 1..Len(tokens')
    BY <1>2, <1>4, <1>7
  <2>4. Entitled(client[c])' /\ StreamRight(client[c])'
    BY <1>1, <1>4, <1>8, <2>3, OneClient DEF Entitled, StreamRight, Mint, At
  <2> QED
    BY <2>2, <2>4 DEF ClientsRight
<1>12. \A n \in 1..Len(tokens') : n \in 1..Len(tokens) \/ n = Len(tokens) + 1
  BY <1>2, <1>7
<1>13. \A n \in 1..Len(tokens) : n \in 1..Len(tokens') /\ (Expired(n)' = Expired(n))
  BY <1>1, <1>2, <1>7 DEF Expired
<1>14. TokensEntitled'
  <2>1. k.mode = "control" => k.user = SessionUser
    BY <1>3, <1>6 DEF Authorised
  <2> QED
    BY <1>1, <1>7, <1>12, <1>13, <2>1 DEF AttachInv, TokensEntitled
<1>15. RedemptionsSeen'
  BY <1>1, <1>13 DEF AttachInv, RedemptionsSeen
<1>16. OneTunnelEach' /\ RunsAsItsUser'
  BY <1>1, TunnelsStay DEF AttachInv, RunsAsItsUser
<1> QED
  BY <1>9, <1>10, <1>11, <1>14, <1>15, <1>16 DEF AttachInv

(* The relay sweeps what had expired at a moment in the past; a credential   *)
(* it does not remember is new to this life of it, or has expired.           *)
LEMMA RedeemInv ==
  ASSUME AttachInv, NEW c \in Clients, Redeem(c) PROVE AttachInv'
<1> DEFINE n == client[c].tok
           kept == Unexpired(client[c].at)
           new == [client[c] EXCEPT !.pc = "redeemed", !.at = 0]
<1>1. UNCHANGED <<now, gen, running, leaving, verified, control, told, live, runsAs,
                  forks, exited, tunnels, life, tokens, typed>>
  BY DEF Redeem, ctlVars, childVars
<1>2. n \in 1..Len(tokens) /\ n \in Nonce
  <2>1. n \in 1..Len(tokens)
    BY OneClient DEF Redeem, At, Entitled
  <2> QED
    BY <2>1, OneClient DEF Nonce
<1>3. client' \in [Clients -> Client] /\ ClientsRight'
  <2>0. 0 \in 0..MaxTime
    BY OneClient
  <2>1. /\ new \in Client /\ new.pc = "redeemed" /\ new.tok = n /\ new.at = 0
        /\ new.link = client[c].link
    BY <2>0, OneClient DEF Client
  <2> HIDE DEF new
  <2>2. client' = [client EXCEPT ![c] = new] \/ client' = [client EXCEPT ![c] = Over]
    BY DEF Redeem, Exits, new
  <2>3. /\ client' \in [Clients -> Client] /\ client'[c] \in {new, Over}
        /\ \A d \in Clients \ {c} : client'[d] = client[d]
    BY <2>1, <2>2, FreshType DEF AttachInv, TypeOK
  <2>4. /\ Len(tokens') \in Nat /\ Len(tokens) <= Len(tokens')
        /\ now' \in Nat /\ now <= now'
    BY <1>1, OneClient
  <2>5. \A d \in Clients \ {c} : Entitled(client[d])' /\ StreamRight(client[d])'
    BY <1>1, <2>3, <2>4, ClientsKept
  <2>6. Entitled(client[c])' /\ StreamRight(client[c])'
    BY <1>1, <1>2, <2>1, <2>3, <2>4, FreshType, OneClient DEF Entitled, StreamRight,
       Redeem, At
  <2> QED
    BY <2>3, <2>5, <2>6 DEF ClientsRight
<1>4. kept \subseteq seen /\ \A m \in seen : m \in kept \/ Expired(m)
  <2>1. client[c].at \in Nat /\ client[c].at <= now /\ now \in Nat
    BY OneClient DEF Client, Entitled
  <2>2. ASSUME NEW m \in seen, m \notin kept PROVE Expired(m)
    <3>1. client[c].at > tokens[m].expires
      BY <2>2 DEF Unexpired
    <3>2. tokens[m] \in AttachClaims
      BY ElementOfSeq DEF AttachInv, RedemptionsSeen, TypeOK
    <3>3. tokens[m].expires \in Int
      BY <3>2, AttachAssumption DEF AttachClaims
    <3> QED
      BY <2>1, <3>1, <3>3 DEF Expired
  <2> QED
    BY <2>2 DEF Unexpired
<1>5. OneTunnelEach' /\ ToldRight' /\ RunsAsItsUser' /\ TokensEntitled'
  BY <1>1, TunnelsStay, ChildrenStay DEF AttachInv, TokensEntitled
<1>6. seen' \in {kept, kept \cup {n}} /\ (n \in kept => seen' = kept)
      /\ (n \notin kept => seen' = kept \cup {n})
  BY DEF Redeem
<1>7. /\ uses \in [Nonce -> Nat] /\ seen \subseteq Nonce
      /\ \A m \in seen : m \in 1..Len(tokens)
      /\ \A m \in Nonce : uses[m] # 0 =>
           m \in 1..Len(tokens) /\ uses[m] = 1 /\ (m \in seen \/ Expired(m))
  BY DEF AttachInv, TypeOK, RedemptionsSeen
<1>8. uses' = uses \/ (/\ n \notin kept /\ ~Expired(n)
                      /\ uses' = [uses EXCEPT ![n] = @ + 1])
  BY DEF Redeem
<1> HIDE DEF kept, n, new
<1>9. CASE uses' = uses
  <2>1. TypeOK'
    BY <1>1, <1>2, <1>3, <1>4, <1>6, <1>9 DEF AttachInv, TypeOK
  <2>2. RedemptionsSeen'
    BY <1>1, <1>2, <1>4, <1>6, <1>7, <1>9 DEF RedemptionsSeen, Expired
  <2> QED
    BY <1>3, <1>5, <2>1, <2>2 DEF AttachInv
<1>10. CASE n \notin kept /\ ~Expired(n) /\ uses' = [uses EXCEPT ![n] = @ + 1]
  <2>1. uses[n] = 0
    BY <1>2, <1>4, <1>7, <1>10
  <2>2. /\ uses' \in [Nonce -> Nat] /\ uses'[n] = 1
        /\ \A m \in Nonce \ {n} : uses'[m] = uses[m]
    BY <1>2, <1>7, <1>10, <2>1
  <2>3. TypeOK'
    BY <1>1, <1>2, <1>3, <1>4, <1>6, <2>2 DEF AttachInv, TypeOK
  <2>4. RedemptionsSeen'
    <3>1. \A m \in seen' : m \in 1..Len(tokens')
      BY <1>1, <1>2, <1>4, <1>6, <1>7
    <3>2. ASSUME NEW m \in Nonce, uses'[m] # 0
          PROVE  /\ m \in 1..Len(tokens') /\ uses'[m] = 1
                 /\ m \in seen' \/ Expired(m)'
      <4>1. CASE m = n
        BY <1>1, <1>2, <1>6, <1>10, <2>2, <4>1
      <4>2. CASE m # n
        <5>1. /\ m \in 1..Len(tokens) /\ uses[m] = 1
              /\ m \in seen \/ Expired(m)
          BY <1>7, <2>2, <3>2, <4>2
        <5>2. m \in seen' \/ Expired(m)
          BY <1>4, <1>6, <5>1
        <5>3. Expired(m)' = Expired(m)
          BY <1>1 DEF Expired
        <5> QED
          BY <1>1, <2>2, <4>2, <5>1, <5>2, <5>3
      <4> QED
        BY <4>1, <4>2
    <3> QED
      BY <3>1, <3>2 DEF RedemptionsSeen
  <2> QED
    BY <1>3, <1>5, <2>3, <2>4 DEF AttachInv
<1> QED
  BY <1>8, <1>9, <1>10

(* What the relay and the supervisor let through was not a viewer's. *)
LEMMA TypeInv ==
  ASSUME AttachInv, NEW c \in Clients, Type(c) PROVE AttachInv'
<1> DEFINE n == client[c].tok
<1>1. UNCHANGED <<now, gen, running, leaving, verified, control, told, live, runsAs,
                  forks, exited, tunnels, seen, life, tokens, client, uses>>
  BY DEF Type, ctlVars, childVars, relayVars
<1>2. n \in 1..Len(tokens) /\ n \in Nonce
  <2>1. n \in 1..Len(tokens)
    BY OneClient DEF Type, At, Entitled
  <2> QED
    BY <2>1, OneClient DEF Nonce
<1>3. tokens[n].mode = "control"
  <2>1. tokens[n] \in AttachClaims
    BY <1>2, ElementOfSeq DEF AttachInv, TypeOK
  <2> QED
    BY <2>1 DEF AttachClaims, Mode, Type
<1>4. typed' = typed \cup {n}
  BY DEF Type
<1> HIDE DEF n
<1>5. TypeOK'
  BY <1>1, <1>2, <1>4 DEF AttachInv, TypeOK
<1>6. TokensEntitled'
  BY <1>1, <1>2, <1>3, <1>4 DEF AttachInv, TokensEntitled
<1>7. RedemptionsSeen' /\ OneTunnelEach' /\ ToldRight' /\ RunsAsItsUser'
  BY <1>1, TunnelsStay, ChildrenStay DEF AttachInv, RedemptionsSeen, Expired
<1>8. ClientsRight'
  BY <1>1 DEF AttachInv, ClientsRight, Entitled, StreamRight, Authorised
<1> QED
  BY <1>5, <1>6, <1>7, <1>8 DEF AttachInv

-----------------------------------------------------------------------------
(* The child, the tunnels and the tasks. *)

(* A client attaches to the child that runs, or to one forked for the user   *)
(* that the task was told, if it needs to be told.                           *)
LEMMA JoinInv ==
  ASSUME AttachInv, NEW c \in Clients, Join(c) PROVE AttachInv'
<1> DEFINE t == client[c].task
           run == IF live[t] # 0 THEN live[t] ELSE forks + 1
           new == [client[c] EXCEPT !.pc = "attached", !.run = run]
<1>1. UNCHANGED <<now, gen, running, leaving, verified, control, told, exited,
                  tunnels, seen, life, tokens, uses, typed>>
  BY DEF Join, ctlVars, relayVars
<1>2. t \in Task /\ client[c].tok \in 1..Len(tokens) /\ client[c].at <= now
  BY OneClient DEF Join, At, Entitled
<1>3. live[t] \in Nat /\ forks \in Nat /\ forks + 1 \in Nat \ {0}
  BY <1>2 DEF AttachInv, TypeOK
<1>4. run \in Nat /\ run # 0
  BY <1>3
<1>5. /\ new \in Client /\ new.pc = "attached" /\ new.task = t
      /\ new.tok = client[c].tok /\ new.at = client[c].at /\ new.run = run
      /\ new.link = client[c].link
  BY <1>4, OneClient DEF Client
<1>6. TokensEntitled' /\ RedemptionsSeen' /\ OneTunnelEach' /\ ToldRight'
  BY <1>1, CredentialsStay, TunnelsStay DEF AttachInv, ToldRight
<1>7. /\ Len(tokens') \in Nat /\ Len(tokens) <= Len(tokens')
      /\ now' \in Nat /\ now <= now' /\ exited \subseteq exited'
  BY <1>1, OneClient
<1>8. CASE live[t] # 0
  <2>1. /\ client' = [client EXCEPT ![c] = new] /\ live' = live
        /\ runsAs' = runsAs /\ forks' = forks /\ run = live[t]
    BY <1>8 DEF Join
  <2> HIDE DEF new, run, t
  <2>2. /\ client' \in [Clients -> Client] /\ client'[c] = new
        /\ \A d \in Clients \ {c} : client'[d] = client[d]
    BY <1>5, <2>1 DEF AttachInv, TypeOK
  <2>3. \A d \in Clients \ {c} : Entitled(client[d])' /\ StreamRight(client[d])'
    BY <1>1, <1>7, <2>1, <2>2, ClientsKept
  <2>4. new.link = "open"
    BY <1>5, OneClient DEF Join, At, Entitled
  <2>5. Entitled(client[c])' /\ StreamRight(client[c])'
    BY <1>1, <1>2, <1>4, <1>5, <2>1, <2>2, <2>4 DEF Entitled, StreamRight
  <2>6. ClientsRight'
    BY <2>3, <2>5 DEF ClientsRight
  <2>7. TypeOK' /\ RunsAsItsUser'
    BY <1>1, <2>1, <2>2 DEF AttachInv, TypeOK, RunsAsItsUser
  <2> QED
    BY <1>6, <2>6, <2>7 DEF AttachInv
<1>9. CASE live[t] = 0 /\ Identified(t)
  <2>1. /\ client' = [client EXCEPT ![c] = new] /\ forks' = forks + 1
        /\ live' = [live EXCEPT ![t] = forks + 1] /\ run = forks + 1
        /\ runsAs' = [runsAs EXCEPT ![t] = IdentityFor(t)]
    BY <1>9 DEF Join
  <2> HIDE DEF new, run, t
  <2>2. /\ client' \in [Clients -> Client] /\ client'[c] = new
        /\ \A d \in Clients \ {c} : client'[d] = client[d]
    BY <1>5, <2>1 DEF AttachInv, TypeOK
  <2>3. /\ live' \in [Task -> Nat] /\ live'[t] = run
        /\ \A u \in Task \ {t} : live'[u] = live[u]
    BY <1>2, <1>3, <2>1 DEF AttachInv, TypeOK
  <2>4. ASSUME NEW d \in Clients \ {c}
        PROVE  Entitled(client[d])' /\ StreamRight(client[d])'
    <3>1. At(d, "attached") /\ client[d].link = "open" => client[d].task \in Task \ {t}
      BY <1>9, OneClient DEF StreamRight, Entitled, At
    <3> QED
      BY <1>7, <2>2, <2>3, <3>1, ClientsStay
  <2>5. Entitled(client[c])' /\ StreamRight(client[c])'
    <3>1. new.link = "open"
      BY <1>5, OneClient DEF Join, At, Entitled
    <3> QED
      BY <1>1, <1>2, <1>4, <1>5, <2>2, <2>3, <3>1 DEF Entitled, StreamRight
  <2>6. ClientsRight'
    BY <2>4, <2>5 DEF ClientsRight
  <2>7. IdentityFor(t) \in Users \cup {Nobody}
    BY <1>2 DEF AttachInv, TypeOK, IdentityFor
  <2>8. TypeOK'
    BY <1>1, <1>3, <2>1, <2>2, <2>3, <2>7 DEF AttachInv, TypeOK
  <2>9. \/ IdentityFor(t) = SessionUser
        \/ IdentityFor(t) = Nobody /\ Boundary # "set"
    BY <1>2, <1>9 DEF AttachInv, ToldRight, Identified, IdentityFor
  <2>10. RunsAsItsUser'
    <3>1. /\ runsAs'[t] = IdentityFor(t)
          /\ \A u \in Task \ {t} : runsAs'[u] = runsAs[u]
      BY <1>2, <2>1 DEF AttachInv, TypeOK
    <3> QED
      BY <2>3, <2>9, <3>1 DEF AttachInv, RunsAsItsUser
  <2> QED
    BY <1>6, <2>6, <2>8, <2>10 DEF AttachInv
<1>10. CASE live[t] = 0 /\ ~Identified(t)
  <2>1. /\ Exits(c)
        /\ UNCHANGED <<now, ctlVars, childVars, relayVars, tokens, uses, typed>>
    BY <1>10 DEF Join, childVars
  <2> QED
    BY <2>1, LeavesInv
<1> QED
  BY <1>8, <1>9, <1>10

(* The child exits, and every attachment still open to it hears so. *)
LEMMA ChildExitsInv ==
  ASSUME AttachInv, NEW t \in Task, ChildExits(t) PROVE AttachInv'
<1> DEFINE C == Streams(t, {"open"})
<1>1. UNCHANGED <<now, gen, running, leaving, verified, control, told, forks,
                  tunnels, seen, life, tokens, uses, typed>>
  BY DEF ChildExits, ctlVars, relayVars
<1>2. /\ live[t] \in Nat \ {0} /\ exited' = exited \cup {live[t]}
      /\ live' = [live EXCEPT ![t] = 0]
      /\ runsAs' = [runsAs EXCEPT ![t] = Nobody]
  BY DEF ChildExits, AttachInv, TypeOK
<1>3. /\ live' \in [Task -> Nat] /\ live'[t] = 0
      /\ \A u \in Task \ {t} : live'[u] = live[u]
  BY <1>2 DEF AttachInv, TypeOK
<1>4. /\ client' \in [Clients -> Client]
      /\ \A c \in Clients :
           /\ client'[c] \in Client /\ (c \notin C => client'[c] = client[c])
           /\ c \in C => SameBut(client'[c], client[c]) /\ client'[c].link = "ended"
  <2>1. client' = Linked(C, "ended")
    BY DEF ChildExits
  <2> HIDE DEF C
  <2> QED
    BY <2>1, LinkedFields DEF Link
<1> HIDE DEF C
<1>5. TypeOK'
  BY <1>1, <1>2, <1>3, <1>4 DEF AttachInv, TypeOK
<1>6. RunsAsItsUser' /\ ToldRight'
  BY <1>1, <1>2, <1>3 DEF AttachInv, TypeOK, RunsAsItsUser, ToldRight
<1>7. ASSUME NEW c \in Clients
      PROVE  Entitled(client[c])' /\ StreamRight(client[c])'
  <2>1. Entitled(client[c]) /\ StreamRight(client[c])
    BY OneClient
  <2>2. c \in C <=> At(c, "attached") /\ client[c].task = t /\ client[c].link = "open"
    BY DEF C, Streams, Joined, At
  <2>3. CASE c \in C
    BY <1>1, <1>2, <1>4, <2>1, <2>2, <2>3 DEF Entitled, StreamRight, SameBut, At,
       Authorised
  <2>4. CASE c \notin C
    <3>1. client'[c] = client[c]
      BY <1>4, <2>4
    <3>2. Entitled(client[c])'
      BY <1>1, <2>1, <3>1 DEF Entitled, Authorised
    <3>3. StreamRight(client[c])'
      BY <1>2, <1>3, <2>1, <2>2, <2>4, <3>1 DEF StreamRight, Entitled, At
    <3> QED
      BY <3>2, <3>3
  <2> QED
    BY <2>3, <2>4
<1>8. ClientsRight'
  BY <1>7 DEF ClientsRight
<1>9. TokensEntitled' /\ RedemptionsSeen' /\ OneTunnelEach'
  BY <1>1, CredentialsStay, TunnelsStay
<1> QED
  BY <1>5, <1>6, <1>8, <1>9 DEF AttachInv

(* A task is placed, its control tunnel comes or goes, or it is refused. *)
LEMMA TasksInv ==
  ASSUME AttachInv, NEW t \in Task,
         \/ Place \/ ControlVerified(t) \/ ControlUp(t) \/ ControlDrops(t)
         \/ Unauthorized(t)
  PROVE  AttachInv'
<1>1. UNCHANGED <<now, told, live, runsAs, forks, exited, tunnels, seen, life,
                  tokens, client, uses, typed>>
  BY DEF Place, ControlVerified, ControlUp, ControlDrops, Unauthorized, childVars,
     relayVars
<1>2. /\ gen' \in Task /\ running \subseteq running' /\ running' \subseteq Task
      /\ verified' \subseteq running' /\ control' \subseteq running'
      /\ leaving' \subseteq running' \ (verified' \cup control')
  <2>1. /\ gen \in Task /\ running \subseteq Task /\ control \subseteq running
        /\ verified \subseteq running
        /\ leaving \subseteq running \ (verified \cup control)
    BY DEF AttachInv, TypeOK
  <2>2. gen < MaxGen => gen + 1 \in Task
    BY <2>1, AttachAssumption DEF Task
  <2>3. CASE Place
    BY <2>1, <2>2, <2>3 DEF Place
  <2>4. CASE ControlVerified(t)
    BY <2>1, <2>4 DEF ControlVerified
  <2>5. CASE ControlUp(t)
    BY <2>1, <2>5 DEF ControlUp
  <2>6. CASE ControlDrops(t)
    BY <2>1, <2>6 DEF ControlDrops
  <2>7. CASE Unauthorized(t)
    BY <2>1, <2>7 DEF Unauthorized
  <2> QED
    BY <2>3, <2>4, <2>5, <2>6, <2>7
<1>3. tunnels' \in Seq(running')
  <2>1. tunnels \in Seq(running)
    BY DEF AttachInv, TypeOK
  <2> QED
    BY <1>1, <1>2, <2>1
<1>4. TypeOK'
  BY <1>1, <1>2, <1>3 DEF AttachInv, TypeOK
<1>5. ClientsRight'
  BY <1>1 DEF AttachInv, ClientsRight, Entitled, StreamRight, Authorised
<1>6. TokensEntitled' /\ RedemptionsSeen' /\ OneTunnelEach' /\ ToldRight'
      /\ RunsAsItsUser'
  BY <1>1, CredentialsStay, TunnelsStay, ChildrenStay
<1> QED
  BY <1>4, <1>5, <1>6 DEF AttachInv

(* A tunnel that breaks leaves no attachment of its task open, and makes no  *)
(* marker.                                                                   *)
LEMMA BreaksFields ==
  ASSUME AttachInv, NEW t \in Task, Breaks(t), UNCHANGED <<now, tokens>>,
         exited \subseteq exited', \A u \in Task \ {t} : live'[u] = live[u]
  PROVE  /\ client' \in [Clients -> Client] /\ ClientsRight'
         /\ tunnels' \in Seq(running \ {t}) /\ OneTunnelEach'
<1>1. tunnels' \in Seq(running \ {t}) /\ OneTunnelEach'
  BY WithoutFields DEF Breaks, OneTunnelEach
<1>2. PICK K \in SUBSET Streams(t, {"marker"}) :
        client' = Linked(Streams(t, {"open", "ended", "overflow"}) \cup K, "eof")
  BY DEF Breaks
<1> DEFINE C == Streams(t, {"open", "ended", "overflow"}) \cup K
<1>3. /\ client' \in [Clients -> Client]
      /\ \A c \in Clients :
           /\ client'[c] \in Client /\ (c \notin C => client'[c] = client[c])
           /\ c \in C => SameBut(client'[c], client[c]) /\ client'[c].link = "eof"
  <2>1. client' = Linked(C, "eof")
    BY <1>2
  <2> HIDE DEF C
  <2> QED
    BY <2>1, LinkedFields DEF Link
<1>4. ASSUME NEW c \in Clients, At(c, "attached"), client[c].task = t,
             client[c].link = "open"
      PROVE  c \in C
  BY <1>4 DEF Streams, Joined, At
<1>5. \A c \in C : client[c].pc = "attached"
  BY DEF Streams, Joined
<1> HIDE DEF C
<1>6. ASSUME NEW c \in Clients
      PROVE  Entitled(client[c])' /\ StreamRight(client[c])'
  <2>1. Entitled(client[c]) /\ StreamRight(client[c])
    BY OneClient
  <2>2. CASE c \in C
    BY <1>3, <1>5, <2>1, <2>2 DEF Entitled, StreamRight, SameBut, Authorised
  <2>3. CASE c \notin C
    <3>1. client'[c] = client[c]
      BY <1>3, <2>3
    <3>2. Entitled(client[c])'
      BY <2>1, <3>1 DEF Entitled, Authorised
    <3>3. StreamRight(client[c])'
      BY <1>4, <2>1, <2>3, <3>1 DEF StreamRight, Entitled, At
    <3> QED
      BY <3>2, <3>3
  <2> QED
    BY <2>2, <2>3
<1> QED
  BY <1>1, <1>3, <1>6 DEF ClientsRight

(* A task goes with its tunnel and its child. *)
LEMMA TaskExitsInv ==
  ASSUME AttachInv, NEW t \in Task, TaskExits(t) PROVE AttachInv'
<1>1. UNCHANGED <<now, gen, verified, control, forks, seen, life, tokens, uses,
                  typed>>
  BY DEF TaskExits
<1>2. /\ live \in [Task -> Nat] /\ exited' = exited \cup ({live[t]} \ {0})
      /\ live' = [live EXCEPT ![t] = 0] /\ told' = [told EXCEPT ![t] = Nobody]
      /\ runsAs' = [runsAs EXCEPT ![t] = Nobody] /\ exited \subseteq Nat \ {0}
  BY DEF TaskExits, AttachInv, TypeOK
<1>3. /\ live' \in [Task -> Nat] /\ live'[t] = 0 /\ exited' \subseteq Nat \ {0}
      /\ \A u \in Task \ {t} : live'[u] = live[u]
  BY <1>2
<1>4. /\ running' = running \ {t} /\ leaving' = leaving \ {t} /\ running' \subseteq Task
      /\ verified' \subseteq running' /\ control' \subseteq running'
      /\ leaving' \subseteq running' \ (verified' \cup control')
  BY DEF TaskExits, AttachInv, TypeOK
<1>5. /\ client' \in [Clients -> Client] /\ ClientsRight'
      /\ tunnels' \in Seq(running \ {t}) /\ OneTunnelEach'
  BY <1>1, <1>2, <1>3, BreaksFields DEF TaskExits
<1>6. /\ told' \in [Task -> Users \cup {Nobody}]
      /\ runsAs' \in [Task -> Users \cup {Nobody}] /\ ToldRight'
  BY <1>2 DEF AttachInv, TypeOK, ToldRight
<1>7. RunsAsItsUser'
  BY <1>2, <1>3 DEF AttachInv, TypeOK, RunsAsItsUser
<1>8. TypeOK'
  BY <1>1, <1>3, <1>4, <1>5, <1>6 DEF AttachInv, TypeOK
<1>9. TokensEntitled' /\ RedemptionsSeen'
  BY <1>1, CredentialsStay
<1> QED
  BY <1>5, <1>6, <1>7, <1>8, <1>9 DEF AttachInv

(* Only the tunnel drops. *)
LEMMA DataDropsInv ==
  ASSUME AttachInv, NEW t \in Task, DataDrops(t) PROVE AttachInv'
<1>1. UNCHANGED <<now, gen, running, leaving, verified, control, told, live, runsAs,
                  forks, exited, seen, life, tokens, uses, typed>>
  BY DEF DataDrops, ctlVars, childVars
<1>2. /\ client' \in [Clients -> Client] /\ ClientsRight'
      /\ tunnels' \in Seq(running \ {t}) /\ OneTunnelEach'
  BY <1>1, BreaksFields DEF DataDrops
<1>3. tunnels' \in Seq(running')
  BY <1>1, <1>2
<1>4. TypeOK'
  BY <1>1, <1>2, <1>3 DEF AttachInv, TypeOK
<1>5. TokensEntitled' /\ RedemptionsSeen' /\ ToldRight' /\ RunsAsItsUser'
  BY <1>1, CredentialsStay, ChildrenStay
<1> QED
  BY <1>2, <1>4, <1>5 DEF AttachInv

(* A data tunnel comes up. *)
LEMMA DataUpInv ==
  ASSUME AttachInv, NEW t \in Task, DataUp(t) PROVE AttachInv'
<1>1. UNCHANGED <<now, gen, running, leaving, verified, control, told, live, runsAs,
                  forks, exited, seen, life, tokens, client, uses, typed>>
  BY DEF DataUp, ctlVars, childVars
<1>2. /\ tunnels \in Seq(running) /\ Len(tunnels) \in Nat
      /\ DOMAIN tunnels = 1..Len(tunnels) /\ t \in running
      /\ tunnels' = Append(tunnels, t)
  BY LenProperties DEF DataUp, AttachInv, TypeOK
<1>3. /\ tunnels' \in Seq(running) /\ Len(tunnels') = Len(tunnels) + 1
      /\ tunnels'[Len(tunnels) + 1] = t
      /\ \A i \in 1..Len(tunnels) : tunnels'[i] = tunnels[i]
  BY <1>2, AppendProperties
<1>4. DOMAIN tunnels' = 1..(Len(tunnels) + 1)
  BY <1>3, LenProperties
<1>5. OneTunnelEach'
  <2>1. \A i \in 1..Len(tunnels) : tunnels[i] # t
    BY <1>2 DEF DataUp
  <2>2. \A i \in 1..(Len(tunnels) + 1) :
          i \in 1..Len(tunnels) \/ i = Len(tunnels) + 1
    BY <1>2
  <2> QED
    BY <1>2, <1>3, <1>4, <2>1, <2>2 DEF AttachInv, OneTunnelEach
<1>6. TypeOK'
  BY <1>1, <1>3 DEF AttachInv, TypeOK
<1>7. ClientsRight'
  BY <1>1 DEF AttachInv, ClientsRight, Entitled, StreamRight, Authorised
<1>8. TokensEntitled' /\ RedemptionsSeen' /\ ToldRight' /\ RunsAsItsUser'
  BY <1>1, CredentialsStay, ChildrenStay
<1> QED
  BY <1>5, <1>6, <1>7, <1>8 DEF AttachInv

(* A relay that restarts remembers no redemption, and has made none. *)
LEMMA RelayRestartsInv ==
  ASSUME AttachInv, RelayRestarts PROVE AttachInv'
<1>1. UNCHANGED <<now, gen, running, leaving, verified, control, told, live, runsAs,
                  forks, exited, tokens, typed>>
  BY DEF RelayRestarts, ctlVars, childVars
<1>2. /\ life' \in 0..MaxRestarts /\ tunnels' = <<>> /\ seen' = {}
      /\ uses' = [n \in Nonce |-> 0]
  BY AttachAssumption DEF RelayRestarts, AttachInv, TypeOK
<1>3. /\ client' = [c \in Clients |-> client'[c]]
      /\ \A c \in Clients : client'[c] = client[c] \/ client'[c] = Over
  BY DEF RelayRestarts
<1>4. client' \in [Clients -> Client]
  BY <1>3, FreshType DEF AttachInv, TypeOK
<1>5. ASSUME NEW c \in Clients
      PROVE  Entitled(client[c])' /\ StreamRight(client[c])'
  <2>1. /\ Len(tokens') \in Nat /\ Len(tokens) <= Len(tokens')
        /\ now' \in Nat /\ now <= now' /\ exited \subseteq exited'
    BY <1>1, OneClient
  <2>2. client'[c] = client[c] \/ client'[c] = Over
    BY <1>3
  <2> QED
    BY <1>1, <1>4, <2>1, <2>2, ClientsStay
<1>6. TypeOK'
  BY <1>1, <1>2, <1>4, EmptySeq DEF AttachInv, TypeOK
<1>7. OneTunnelEach' /\ ToldRight' /\ RunsAsItsUser'
  BY <1>1, <1>2, ChildrenStay DEF OneTunnelEach
<1>8. TokensEntitled' /\ RedemptionsSeen' /\ ClientsRight'
  BY <1>1, <1>2, <1>5 DEF AttachInv, TokensEntitled, RedemptionsSeen, ClientsRight
<1> QED
  BY <1>6, <1>7, <1>8 DEF AttachInv

-----------------------------------------------------------------------------
(* Every step keeps the invariant. *)
LEMMA NextInv == AttachInv /\ [Next]_vars => AttachInv'
<1> SUFFICES ASSUME AttachInv, [Next]_vars PROVE AttachInv'
  OBVIOUS
<1>1. 1 \in Task
  BY AttachAssumption DEF Task
<1>2. CASE Tick \/ Place \/ RelayRestarts
  BY <1>1, <1>2, TickInv, TasksInv, RelayRestartsInv
<1>3. CASE \E c \in Clients : Proceed(c) \/ Type(c) \/ Detach(c) \/ Overflows(c)
  BY <1>3, EndpointInv, MintInv, VerifyAttachInv, ReadClockInv, RedeemInv, RouteInv,
     JoinInv, LeavingInv, StreamEndsInv, TypeInv DEF Proceed
<1>4. CASE \E c \in Clients, u \in Users, mode \in Mode : Negotiate(c, u, mode)
  BY <1>4, NegotiateInv
<1>5. CASE \E c \in Clients, n \in Nonce : Dial(c, n)
  BY <1>5, DialInv
<1>6. CASE \E t \in Task :
             \/ ChildExits(t) \/ ControlVerified(t) \/ ControlUp(t)
             \/ ControlDrops(t) \/ Unauthorized(t) \/ TaskExits(t)
             \/ DataUp(t) \/ DataDrops(t)
  BY <1>6, ChildExitsInv, TasksInv, TaskExitsInv, DataUpInv, DataDropsInv
<1>7. CASE UNCHANGED vars
  <2>1. UNCHANGED <<now, gen, running, leaving, verified, control, told, live, runsAs,
                    forks, exited, tunnels, seen, life, tokens, client, uses, typed>>
    BY <1>7 DEF vars, ctlVars, childVars, relayVars
  <2>2. TypeOK' /\ ClientsRight'
    BY <2>1 DEF AttachInv, TypeOK, ClientsRight, Entitled, StreamRight, Authorised
  <2> QED
    BY <2>1, <2>2, CredentialsStay, ChildrenStay, TunnelsStay DEF AttachInv
<1> QED
  BY <1>2, <1>3, <1>4, <1>5, <1>6, <1>7 DEF Next

(* The invariant holds in every state of every behaviour. *)
THEOREM AttachInvariant == Spec => []AttachInv
<1>1. Init => AttachInv
  BY InitInv
<1>2. AttachInv /\ [Next]_vars => AttachInv'
  BY NextInv
<1> QED
  BY <1>1, <1>2, PTL DEF Spec

(* Type correctness: in particular the relay's list names tasks that run,    *)
(* because a task that the control tunnel refuses takes its tunnel along.    *)
THEOREM AttachTypes == Spec => []TypeOK
<1>1. AttachInv => TypeOK
  BY DEF AttachInv
<1> QED
  BY <1>1, AttachInvariant, PTL

(* usedAttachNonces: within a life of the relay a credential is redeemed     *)
(* once before it expires, in whatever order the redemptions read the clock  *)
(* and take the lock.                                                        *)
THEOREM ReplayNeedsExpiry == Spec => []ReplayOnlyAtExpiry
<1>1. AttachInv => ReplayOnlyAtExpiry
  <2> SUFFICES ASSUME AttachInv, NEW n \in Nonce PROVE uses[n] <= 1
    BY DEF ReplayOnlyAtExpiry
  <2> QED
    BY DEF AttachInv, TypeOK, RedemptionsSeen
<1> QED
  BY <1>1, AttachInvariant, PTL

(* handleEndpoint and the relay's and the supervisor's viewer checks: every  *)
(* keystroke that reached the child came over a credential of its own user.  *)
THEOREM OnlyOwnerDrives == Spec => []DrivenByOwner
<1>1. AttachInv => DrivenByOwner
  BY DEF AttachInv, TokensEntitled, DrivenByOwner
<1> QED
  BY <1>1, AttachInvariant, PTL

(* The attachment's reason, the marker, the close code and IsCleanClose: lem *)
(* says "ended" only of a child that exited.                                 *)
THEOREM EndedIsExited == Spec => []EndedMeansExited
<1>1. AttachInv => EndedMeansExited
  BY DEF AttachInv, ClientsRight, StreamRight, EndedMeansExited, At
<1> QED
  BY <1>1, AttachInvariant, PTL

(* announceIdentity and identityFor: whoever's attach forks it, a child runs *)
(* as the session's user, or as the supervisor's where no boundary is set.   *)
THEOREM ChildrenRunAsTheirUser == Spec => []RunsAsItsUser
<1>1. AttachInv => RunsAsItsUser
  BY DEF AttachInv
<1> QED
  BY <1>1, AttachInvariant, PTL
=============================================================================

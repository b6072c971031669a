----------------------------- MODULE PtySession -----------------------------
(***************************************************************************)
(* One session of a workspace task (internal/ptysession): a child process  *)
(* on a PTY, the reader that fans its output out to the attachments and    *)
(* into the replay ring, and for each client the two goroutines of         *)
(* supervisor.handleAttach, the pump that writes queued output to the      *)
(* stream and the handler that reads from it.                              *)
(*                                                                         *)
(* Output is a sequence of chunks, one per Read of the PTY.  Of a chunk    *)
(* only what the properties tell apart is kept: its size, where in the     *)
(* stream it ends, whether the tracker took its beginning for a boundary   *)
(* (clean), and the terminal mode that the first sequence it completes     *)
(* sets.  A queue entry and the ring hold positions in that sequence.  A   *)
(* client is followed to the terminal it feeds: what it got, and the modes *)
(* that left it in.                                                        *)
(*                                                                         *)
(* Reader, Attach, Detach and finish each hold the session's lock          *)
(* throughout, so each is one step.                                        *)
(***************************************************************************)
EXTENDS Integers, Sequences, FiniteSets

CONSTANTS
  Clients,     \* places a client can attach from, one attachment at a time
  Modes,       \* terminal modes an application can set
  Transient,   \* those that bracket one frame (transientModes)
  Chunks,      \* the chunks a child may write, see Chunk
  MaxOut,      \* bound: chunks one child writes
  RingLimit,   \* the replay ring's limit, in bytes
  QueueLimit   \* an attachment's queue limit, in bytes

Value == {"on", "off"}
(* Where a chunk ends: between sequences; inside one that the tracker still  *)
(* follows; or inside one it has given up, the payload of an OSC or DCS      *)
(* string or a CSI longer than maxPartial.                                   *)
Places == {"ground", "sequence", "string"}
Chunk == [size : Nat \ {0}, sets : [Modes -> Value \cup {"same"}], ends : Places]

ASSUME PtyAssumption ==
  /\ Chunks \subseteq Chunk
  /\ Transient \subseteq Modes /\ IsFiniteSet(Modes)
  /\ MaxOut \in Nat /\ RingLimit \in Nat /\ QueueLimit \in Nat

VARIABLES
  out,       \* what the child wrote, oldest first
  ground,    \* ModeTracker: its state is stGround
  dec,       \* ModeTracker: the modes as last set
  ring,      \* the replay ring: positions in out
  phase,     \* the child: "running", "gone" (the read failed), "exited"
  attached,  \* Session.attachments
  queue,     \* per client: Attachment.q
  closed,    \* per client: the attachment's close reason, or "open"
  handler,   \* per client: the goroutine of handleAttach, "none",
             \* "attached" (not answered yet), "reading" or "waiting"
  pump,      \* per client: its output goroutine
  stream,    \* per client: the stream, "up", "stuck" (a write to it blocks,
             \* its client not reading) or "down"
  joined,    \* per client: how much had been written when it attached
  got,       \* per client: the positions that reached its terminal
  term,      \* per client: the modes its terminal is in
  told       \* per client: whether it was sent session_ended

sessionVars == <<out, ground, dec, ring, phase>>
clientVars  == <<attached, queue, closed, handler, pump, stream, joined, got,
                 term, told>>
vars == <<sessionVars, clientVars>>

Unset == [m \in Modes |-> "unset"]
NoPrelude == [m \in Modes |-> "same"]

(* The modes after a chunk or a prelude that sets s. *)
Apply(modes, s) == [m \in Modes |-> IF s[m] = "same" THEN modes[m] ELSE s[m]]

Init ==
  /\ out = <<>> /\ ground = TRUE /\ dec = Unset /\ ring = <<>>
  /\ phase = "running"
  /\ attached = {}
  /\ queue = [c \in Clients |-> <<>>]
  /\ closed = [c \in Clients |-> "open"]
  /\ handler = [c \in Clients |-> "none"]
  /\ pump = [c \in Clients |-> "none"]
  /\ stream = [c \in Clients |-> "down"]
  /\ joined = [c \in Clients |-> 0]
  /\ got = [c \in Clients |-> <<>>]
  /\ term = [c \in Clients |-> Unset]
  /\ told = [c \in Clients |-> FALSE]

-----------------------------------------------------------------------------
(* The replay ring. *)

(* The bytes of the positions r of the stream o. *)
Bytes(o, r) ==
  LET sum[i \in 0..Len(r)] == IF i = 0 THEN 0 ELSE sum[i-1] + o[r[i]].size
  IN sum[Len(r)]

From(r, i) == SubSeq(r, i, Len(r))

(* push's loop: whole chunks are evicted from the front until the rest fits. *)
Evict(o, r) ==
  LET fits == {i \in 1..(Len(r) + 1) : Bytes(o, From(r, i)) <= RingLimit}
  IN From(r, CHOOSE i \in fits : \A j \in fits : i <= j)

(* snapshot: from the oldest chunk flagged clean, or nothing. *)
Snapshot(o, r) ==
  LET clean == {i \in DOMAIN r : o[r[i]].clean}
  IN IF clean = {} THEN <<>>
     ELSE From(r, CHOOSE i \in clean : \A j \in clean : i <= j)

-----------------------------------------------------------------------------
(* Attachment.q: entries, each a mode prelude or a run of output. *)

(* Prelude: every mode set so far, the transient ones excepted.  (Slip: the  *)
(* modes are left to the ring.)                                              *)
PreludeNone == NoPrelude
Prelude == [m \in Modes |->
              IF m \in Transient \/ dec[m] = "unset" THEN "same" ELSE dec[m]]

Entry(s, r) == [sets |-> s, run |-> r]
EntryBytes(o, e) ==
  Bytes(o, e.run) + Cardinality({m \in Modes : e.sets[m] # "same"})
Queued(o, q) ==
  LET sum[i \in 0..Len(q)] == IF i = 0 THEN 0 ELSE sum[i-1] + EntryBytes(o, q[i])
  IN sum[Len(q)]

(* push.  An attachment is its queue and its close reason; a closed one and  *)
(* an empty entry are left alone, and one that cannot keep up is dropped     *)
(* whole, never in part.                                                     *)
Fits(o, q, e) == Queued(o, q) + EntryBytes(o, e) <= QueueLimit
Push(o, a, e) ==
  IF a.why # "open" \/ EntryBytes(o, e) = 0 THEN a
  ELSE IF Fits(o, a.q, e) THEN [a EXCEPT !.q = Append(@, e)]
  ELSE [q |-> <<>>, why |-> "overflow"]

-----------------------------------------------------------------------------
(* ModeTracker.Feed: the state after a chunk.  It resyncs at ground inside a  *)
(* string, and once a sequence is too long.                                  *)
FeedTracker(k) == k.ends # "sequence"

(* AtBoundary, asked before the chunk is fed.  (Slip: after.)                *)
BoundaryAfter(k) == FeedTracker(k)
AtBoundary(k) == ground

(* readLoop: one Read, recorded and fanned out under the session's lock. *)
Read(k) ==
  LET new  == Append(out, [size |-> k.size, clean |-> AtBoundary(k),
                           sets |-> k.sets, ends |-> k.ends])
      e    == Entry(NoPrelude, <<Len(new)>>)
      att  == [c \in Clients |->
                 LET a == [q |-> queue[c], why |-> closed[c]]
                 IN IF c \in attached THEN Push(new, a, e) ELSE a]
  IN /\ phase = "running" /\ Len(out) < MaxOut
     /\ out' = new
     /\ ground' = FeedTracker(k)
     /\ dec' = Apply(dec, k.sets)
     /\ ring' = Evict(new, Append(ring, Len(new)))
     /\ queue' = [c \in Clients |-> att[c].q]
     /\ closed' = [c \in Clients |-> att[c].why]
     /\ UNCHANGED <<phase, attached, handler, pump, stream, joined, got, term,
                    told>>

(* The child is gone: the read fails and the loop ends. *)
ReadFails ==
  /\ phase = "running"
  /\ phase' = "gone"
  /\ UNCHANGED <<out, ground, dec, ring, clientVars>>

(* finish: every attachment still open is closed with ReasonSessionEnded.    *)
CloseAll == [c \in Clients |->
               IF c \in attached /\ closed[c] = "open" THEN "ended" ELSE closed[c]]
Finish ==
  /\ phase = "gone"
  /\ phase' = "exited"
  /\ closed' = CloseAll
  /\ attached' = {}
  /\ UNCHANGED <<out, ground, dec, ring, queue, handler, pump, stream, joined,
                 got, term, told>>

-----------------------------------------------------------------------------
(* handleAttach *)

(* Attach: the queue is seeded with the prelude and the replay, and the      *)
(* attachment registered, under the lock.  (Slip: the snapshot is taken      *)
(* before the lock, and output read in between is not in it.)                *)
ReplayEarly ==
  IF ring = <<>> THEN <<>> ELSE Snapshot(out, SubSeq(ring, 1, Len(ring) - 1))
Replay == Snapshot(out, ring)
Attach(c) ==
  LET fresh == [q |-> <<>>, why |-> "open"]
      a     == Push(out, Push(out, fresh, Entry(Prelude, <<>>)),
                    Entry(NoPrelude, Replay))
  IN /\ handler[c] = "none" /\ phase # "exited"
     /\ attached' = attached \cup {c}
     /\ queue' = [queue EXCEPT ![c] = a.q]
     /\ closed' = [closed EXCEPT ![c] = a.why]
     /\ handler' = [handler EXCEPT ![c] = "attached"]
     /\ stream' = [stream EXCEPT ![c] = "up"]
     /\ joined' = [joined EXCEPT ![c] = Len(out)]
     /\ UNCHANGED <<sessionVars, pump, got, term, told>>

(* Session.Detach: unregistered, and closed unless something closed it       *)
(* before.  The child runs on.                                               *)
Detached(c) ==
  /\ attached' = attached \ {c}
  /\ closed' = [closed EXCEPT ![c] = IF @ = "open" THEN "detached" ELSE @]

(* The handler returns: nothing refers to the attachment any more, and the   *)
(* client's terminal is its own affair.                                      *)
Forget(c) ==
  /\ handler' = [handler EXCEPT ![c] = "none"]
  /\ pump' = [pump EXCEPT ![c] = "none"]
  /\ queue' = [queue EXCEPT ![c] = <<>>]
  /\ closed' = [closed EXCEPT ![c] = "open"]
  /\ joined' = [joined EXCEPT ![c] = 0]
  /\ got' = [got EXCEPT ![c] = <<>>]
  /\ term' = [term EXCEPT ![c] = Unset]
  /\ told' = [told EXCEPT ![c] = FALSE]

(* The ok answer is written and the output goroutine started; when it cannot *)
(* be written the handler returns, and its deferred Detach runs.             *)
Answer(c) ==
  /\ handler[c] = "attached"
  /\ IF stream[c] = "up"
       THEN /\ handler' = [handler EXCEPT ![c] = "reading"]
            /\ pump' = [pump EXCEPT ![c] = "on"]
            /\ UNCHANGED <<attached, closed, queue>>
            /\ UNCHANGED <<joined, got, term, told>>
       ELSE /\ attached' = attached \ {c}
            /\ Forget(c)
  /\ UNCHANGED <<sessionVars, stream>>

(* A terminal fed positions r after those it already got: of the chunks that *)
(* set a mode the last decides.  It makes nothing of the sequence a chunk     *)
(* completes when it did not see it begin.                                   *)
Feed(c, e) ==
  LET seen == got[c] \o e.run
      known(p) == out[p].clean \/ \E i \in DOMAIN seen : seen[i] = p - 1
      setters(m) == {i \in DOMAIN e.run :
                       known(e.run[i]) /\ out[e.run[i]].sets[m] # "same"}
      last(m) == CHOOSE i \in setters(m) : \A j \in setters(m) : j <= i
  IN [m \in Modes |-> IF setters(m) = {} THEN Apply(term[c], e.sets)[m]
                      ELSE out[e.run[last(m)]].sets[m]]

(* The pump takes the next entry, if any is left even after a close, and     *)
(* writes it; a stream that is down ends it.  No write has a deadline: the   *)
(* entry whose write blocks counts as queued.                                *)
Next_(c) ==
  /\ pump[c] = "on" /\ queue[c] # <<>> /\ stream[c] # "stuck"
  /\ queue' = [queue EXCEPT ![c] = Tail(@)]
  /\ IF stream[c] = "up"
       THEN /\ got' = [got EXCEPT ![c] = @ \o Head(queue[c]).run]
            /\ term' = [term EXCEPT ![c] = Feed(c, Head(queue[c]))]
            /\ UNCHANGED pump
       ELSE /\ pump' = [pump EXCEPT ![c] = "done"]
            /\ UNCHANGED <<got, term>>
  /\ UNCHANGED <<sessionVars, attached, closed, handler, stream, joined, told>>

(* The queue is drained and the attachment closed: session_ended goes out    *)
(* when that is why, and the stream is closed.  (Slip: Next looks at closed  *)
(* before it looks at the queue.)                                            *)
NotAsked(c) == TRUE
Drained(c) == queue[c] = <<>>
PumpEnds(c) ==
  /\ pump[c] = "on" /\ Drained(c) /\ closed[c] # "open" /\ stream[c] # "stuck"
  /\ told' = [told EXCEPT ![c] = closed[c] = "ended" /\ stream[c] = "up"]
  /\ stream' = [stream EXCEPT ![c] = "down"]
  /\ pump' = [pump EXCEPT ![c] = "done"]
  /\ UNCHANGED <<sessionVars, attached, queue, closed, handler, joined, got,
                 term>>

(* The client stops reading with the stream's window full, and the pump's    *)
(* write of an entry or of session_ended blocks; and it reads again, or not. *)
Stall(c) ==
  /\ pump[c] = "on" /\ (queue[c] # <<>> \/ closed[c] = "ended")
  /\ stream[c] = "up" /\ stream' = [stream EXCEPT ![c] = "stuck"]
  /\ UNCHANGED <<sessionVars, attached, queue, closed, handler, pump, joined,
                 got, term, told>>
Resume(c) ==
  /\ stream[c] = "stuck" /\ stream' = [stream EXCEPT ![c] = "up"]
  /\ UNCHANGED <<sessionVars, attached, queue, closed, handler, pump, joined,
                 got, term, told>>

(* The client goes away. *)
ClientLeaves(c) ==
  /\ stream[c] # "down"
  /\ stream' = [stream EXCEPT ![c] = "down"]
  /\ UNCHANGED <<sessionVars, attached, queue, closed, handler, pump, joined,
                 got, term, told>>

(* The handler's read fails: it detaches first, and only then waits for the  *)
(* pump.  (Slip: it waits first.)                                            *)
DetachLater(c) == UNCHANGED <<attached, closed>>
Detach(c) == Detached(c)
ReadFrameFails(c) ==
  /\ handler[c] = "reading" /\ stream[c] = "down"
  /\ handler' = [handler EXCEPT ![c] = "waiting"]
  /\ Detach(c)
  /\ UNCHANGED <<sessionVars, queue, pump, stream, joined, got, term, told>>

HandlerEnds(c) ==
  /\ handler[c] = "waiting" /\ pump[c] = "done"
  /\ Forget(c)
  /\ UNCHANGED <<sessionVars, attached, stream>>

Client(c) ==
  \/ Attach(c) \/ Answer(c) \/ Next_(c) \/ PumpEnds(c)
  \/ Stall(c) \/ Resume(c) \/ ClientLeaves(c)
  \/ ReadFrameFails(c) \/ HandlerEnds(c)

Next ==
  \/ \E k \in Chunks : Read(k)
  \/ ReadFails \/ Finish
  \/ \E c \in Clients : Client(c)

Spec == Init /\ [][Next]_vars

(* Goroutines run: the reader reaches finish once its read failed, a pump    *)
(* that has something to do and whose write does not block does it, and a    *)
(* handler whose stream is down goes on.  Nothing is assumed of the child or *)
(* of the clients: they need not read, leave or come back.                   *)
Fairness ==
  /\ WF_vars(Finish)
  /\ \A c \in Clients : /\ WF_vars(Answer(c))
                        /\ WF_vars(Next_(c) \/ PumpEnds(c))
                        /\ WF_vars(ReadFrameFails(c))
                        /\ WF_vars(HandlerEnds(c))
FairSpec == Spec /\ Fairness

-----------------------------------------------------------------------------
(* Every variable has its type. *)
TypeOK ==
  /\ out \in Seq([size : Nat \ {0}, clean : BOOLEAN,
                  sets : [Modes -> Value \cup {"same"}], ends : Places])
  /\ ground \in BOOLEAN
  /\ dec \in [Modes -> Value \cup {"unset"}]
  /\ ring \in Seq(1..Len(out))
  /\ phase \in {"running", "gone", "exited"}
  /\ attached \subseteq Clients
  /\ queue \in [Clients -> Seq([sets : [Modes -> Value \cup {"same"}],
                                run : Seq(1..Len(out))])]
  /\ closed \in [Clients -> {"open", "ended", "detached", "overflow"}]
  /\ handler \in [Clients -> {"none", "attached", "reading", "waiting"}]
  /\ pump \in [Clients -> {"none", "on", "done"}]
  /\ stream \in [Clients -> {"up", "stuck", "down"}]
  /\ joined \in [Clients -> 0..Len(out)]
  /\ got \in [Clients -> Seq(1..Len(out))]
  /\ term \in [Clients -> [Modes -> Value \cup {"unset"}]]
  /\ told \in [Clients -> BOOLEAN]

(* What reached client c, piece 0, and what is queued for it. *)
Piece(c, i) == IF i = 0 THEN got[c] ELSE queue[c][i].run
Pieces(c) == 0..Len(queue[c])
Feeding(c) == handler[c] = "attached" \/ pump[c] = "on"

(* The piece with which the output begins. *)
Begins(c, i) == Piece(c, i) # <<>> /\ (i = 0 \/ Piece(c, i-1) = <<>>)

Consecutive(r) == \A i \in DOMAIN r : r[i] = r[1] + i - 1
End(r) == r[Len(r)]

(* Replay and live output meet without a gap or a duplicate, whatever is     *)
(* written between, before and after an Attach: what an attachment gets is   *)
(* at most a prelude and then one contiguous run of the child's output,      *)
(* which begins no later than the first chunk written after it attached and, *)
(* while it is open, reaches the last one.                                   *)
NoGapNoDuplicate ==
  \A c \in Clients : Feeding(c) =>
    /\ \A i \in Pieces(c) :
         /\ Consecutive(Piece(c, i))
         /\ Piece(c, i) = <<>> => i = 0 \/ (i = 1 /\ got[c] = <<>>)
         /\ Piece(c, i) # <<>> /\ i+1 \in Pieces(c) =>
              Piece(c, i+1)[1] = End(Piece(c, i)) + 1
         /\ Begins(c, i) => Piece(c, i)[1] <= joined[c] + 1
    /\ closed[c] = "open" =>
         LET last == Piece(c, Len(queue[c])) IN
         IF last = <<>> THEN joined[c] = Len(out) ELSE End(last) = Len(out)

(* A replay, as opposed to live output, never begins in the middle of a      *)
(* sequence that the tracker follows, wherever the ring's eviction has cut:  *)
(* the chunk before its first, long evicted perhaps, did not end inside one  *)
(* (ring.snapshot, ModeTracker.AtBoundary).  It may begin inside a string.   *)
ReplayStartsClean ==
  \A c \in Clients : Feeding(c) =>
    \A i \in Pieces(c) :
      Begins(c, i) /\ Piece(c, i)[1] <= joined[c] =>
        Piece(c, i)[1] = 1 \/ out[Piece(c, i)[1] - 1].ends # "sequence"

(* A client that is told the session ended, and so will not reconnect, has   *)
(* everything the child wrote since it attached: output still queued when    *)
(* the child exits is delivered first, and an attachment dropped for         *)
(* overflow is never told.                                                   *)
EndedMeansComplete ==
  \A c \in Clients : told[c] =>
    IF got[c] = <<>> THEN joined[c] = Len(out) ELSE End(got[c]) = Len(out)

(* The prelude's purpose: a terminal that has caught up is in the modes the  *)
(* child set, however long before the ring's horizon it set them, and in no  *)
(* stale transient one.  Only a terminal whose output began in the middle of *)
(* a sequence, because no chunk in the ring began between two, is exempt.    *)
ModesCurrent ==
  \A c \in Clients :
    /\ pump[c] = "on" /\ stream[c] = "up" /\ closed[c] = "open"
    /\ queue[c] = <<>>
    /\ got[c] # <<>> => out[got[c][1]].clean
    => \A m \in Modes : term[c][m] = dec[m]
                         \/ (m \in Transient /\ term[c][m] = "unset")

(* Nobody is left waiting: the handler of a client that went away, however   *)
(* idle the session, and of one that stays on after the child's exit, comes  *)
(* to its end, unless a write to the one that stays blocks (a stream that is *)
(* down is never stuck).  Detach and finish are what wake the pump it waits  *)
(* for.                                                                      *)
NobodyLeftWaiting ==
  \A c \in Clients :
    handler[c] # "none" /\ (stream[c] = "down" \/ phase = "exited")
      ~> handler[c] = "none" \/ stream[c] = "stuck"
=============================================================================

------------------------- MODULE PtySession_proofs -------------------------
(***************************************************************************)
(* Proofs about PtySession, for any clients, modes, chunks and limits:     *)
(* replay and live output meet without a gap or a duplicate, a replay      *)
(* begins between escape sequences, a client told that the session ended   *)
(* has all of it, and a terminal that caught up is in the child's modes.   *)
(***************************************************************************)
EXTENDS PtySession, SequenceTheorems, FiniteSetTheorems, TLAPS

-----------------------------------------------------------------------------
(* The inductive invariant.  Its parts about one client are written over     *)
(* values: the output o, what the client got g, its queue q, how much had    *)
(* been written when it attached j, and its terminal t.                      *)

ChunkRow == [size : Nat \ {0}, clean : BOOLEAN,
             sets : [Modes -> Value \cup {"same"}], ends : Places]
Entries(n) == [sets : [Modes -> Value \cup {"same"}], run : Seq(1..n)]

Reasons == {"open", "ended", "detached", "overflow"}
Attachment(n) == [q : Seq(Entries(n)), why : Reasons]

PieceOf(g, q, i) == IF i = 0 THEN g ELSE q[i].run

(* Output begins with the first chunk after the attach, or is a replay.      *)
StartOK(o, j, r) ==
  r[1] = j + 1 \/ (r[1] <= j /\ o[r[1]].clean /\ End(r) >= j)

(* A prelude, if any, comes first; runs are consecutive and meet.            *)
Shape(o, g, q, j) ==
  /\ \A i \in 1..Len(q) : q[i].run = <<>> => i = 1 /\ g = <<>>
  /\ \A i \in 1..Len(q) : q[i].run # <<>> => q[i].sets = NoPrelude
  /\ \A i \in 0..Len(q) : Consecutive(PieceOf(g, q, i))
  /\ \A i \in 0..(Len(q) - 1) :
       PieceOf(g, q, i) # <<>> => PieceOf(g, q, i+1)[1] = End(PieceOf(g, q, i)) + 1
  /\ \A i \in 0..Len(q) :
       PieceOf(g, q, i) # <<>> /\ (i = 0 \/ PieceOf(g, q, i-1) = <<>>)
         => StartOK(o, j, PieceOf(g, q, i))

(* What is sent and queued reaches the last chunk. *)
Complete(o, g, q, j) ==
  IF PieceOf(g, q, Len(q)) = <<>> THEN j = Len(o)
  ELSE End(PieceOf(g, q, Len(q))) = Len(o)

(* v is what mode m was last set to by the first n chunks. *)
LastSet(o, m, n, v) ==
  \/ v = "unset" /\ \A i \in 1..n : o[i].sets[m] = "same"
  \/ v # "same" /\ \E i \in 1..n :
       o[i].sets[m] = v /\ \A k \in (i+1)..n : o[k].sets[m] = "same"

(* The terminal, once the prelude has come. *)
Prepared(q, t) ==
  IF q # <<>> /\ q[1].run = <<>> THEN Apply(t, q[1].sets) ELSE t

(* Before any output it has every mode that is not transient as it was when  *)
(* the client attached, then as of the last chunk it got.                    *)
TermOK(o, g, q, j, t) ==
  /\ g = <<>> => \A m \in Modes :
       IF m \in Transient THEN Prepared(q, t)[m] = "unset"
       ELSE LastSet(o, m, j, Prepared(q, t)[m])
  /\ g # <<>> /\ o[g[1]].clean => \A m \in Modes :
       LastSet(o, m, End(g), t[m]) \/ (m \in Transient /\ t[m] = "unset")

(* A chunk is flagged as beginning at a boundary only when the one before    *)
(* did not end inside a sequence the tracker follows.                        *)
FlagsRight(o, g) ==
  /\ \A i \in 1..Len(o) : o[i].clean => i = 1 \/ o[i - 1].ends # "sequence"
  /\ g => Len(o) = 0 \/ o[Len(o)].ends # "sequence"

(* The ring is the end of the output; the tracker has the modes last set.    *)
SessionRight ==
  /\ FlagsRight(out, ground)
  /\ Consecutive(ring) /\ (ring # <<>> => End(ring) = Len(out))
  /\ \A m \in Modes : LastSet(out, m, Len(out), dec[m])

(* An attachment that is open is on the session's list while its handler     *)
(* reads; without a handler, or before the answer, nothing was sent.         *)
Matched(c) ==
  /\ handler[c] \in {"none", "attached"} =>
       pump[c] = "none" /\ got[c] = <<>> /\ term[c] = Unset /\ ~told[c]
  /\ c \in attached => handler[c] \in {"attached", "reading"}
  /\ handler[c] \in {"attached", "reading"} /\ closed[c] = "open" => c \in attached
  /\ handler[c] = "waiting" => closed[c] # "open"
  /\ closed[c] = "ended" => phase = "exited"

(* What an attachment that is being fed gets. *)
Served(c) ==
  Feeding(c) =>
    /\ Shape(out, got[c], queue[c], joined[c])
    /\ closed[c] \in {"open", "ended"} =>
         Complete(out, got[c], queue[c], joined[c])
    /\ closed[c] = "open" =>
         TermOK(out, got[c], queue[c], joined[c], term[c])

(* Who was told has everything there will ever be. *)
ToldAll(c) ==
  told[c] => /\ phase = "exited" /\ pump[c] = "done"
             /\ Complete(out, got[c], <<>>, joined[c])

PtyInv ==
  /\ TypeOK /\ SessionRight
  /\ \A c \in Clients : Matched(c) /\ Served(c) /\ ToldAll(c)

-----------------------------------------------------------------------------
(* Numbers and sequences. *)

(* A set of naturals that is not empty has a least member. *)
LEMMA LeastExists ==
  ASSUME NEW S \in SUBSET Nat, S # {}
  PROVE  \E x \in S : \A y \in S : x <= y
<1> DEFINE R == {p \in Nat \X Nat : p[1] < p[2]}
<1>1. IsWellFoundedOn(R, Nat)
  BY NatLessThanWellFounded DEF OpToRel
<1>2. PICK x \in S : \A y \in S : ~(<<y, x>> \in R)
  <2> HIDE DEF R
  <2> QED BY <1>1, WFMin
<1>3. \A y \in S : ~(y < x)
  BY <1>2
<1> QED
  BY <1>3

(* One of numbers up to n that is not empty has a greatest. *)
LEMMA GreatestExists ==
  ASSUME NEW n \in Nat, NEW S \in SUBSET (1..n), S # {}
  PROVE  \E x \in S : \A y \in S : y <= x
<1> DEFINE D == {n - x : x \in S}
<1>1. D \in SUBSET Nat /\ D # {}
  <2>1. ASSUME NEW x \in S PROVE n - x \in Nat
    OBVIOUS
  <2> QED
    BY <2>1
<1>2. PICK d \in D : \A e \in D : d <= e
  <2> HIDE DEF D
  <2> QED BY <1>1, LeastExists
<1>3. PICK x \in S : d = n - x
  BY <1>2
<1>4. ASSUME NEW y \in S PROVE y <= x
  <2>1. n - y \in D
    OBVIOUS
  <2>2. n - x <= n - y
    BY <2>1, <1>2, <1>3
  <2> QED
    BY <2>2
<1> QED
  BY <1>4

(* The bytes of no chunk are none. *)
LEMMA NoBytes ==
  ASSUME NEW o PROVE Bytes(o, <<>>) = 0
<1> DEFINE Sum(f) == f = [i \in 0..Len(<<>>) |->
                            IF i = 0 THEN 0 ELSE f[i-1] + o[<<>>[i]].size]
           w == [i \in 0..0 |-> 0]
           s == CHOOSE f : Sum(f)
<1>1. Len(<<>>) = 0 /\ 0..0 = {0}
  OBVIOUS
<1>2. Sum(w)
  BY <1>1
<1>3. Sum(s)
  BY <1>2
<1>4. s[0] = 0
  BY <1>1, <1>3
<1>5. Bytes(o, <<>>) = s[Len(<<>>)]
  BY DEF Bytes
<1> QED
  BY <1>1, <1>4, <1>5

(* One chunk's bytes are its own. *)
LEMMA BytesOfOne ==
  ASSUME NEW o, NEW n \in Nat, o[n].size \in Nat
  PROVE  Bytes(o, <<n>>) = o[n].size
<1> DEFINE Sum(f) == f = [i \in 0..Len(<<n>>) |->
                            IF i = 0 THEN 0 ELSE f[i-1] + o[<<n>>[i]].size]
           w == [i \in 0..1 |-> IF i = 0 THEN 0 ELSE o[n].size]
           s == CHOOSE f : Sum(f)
<1>1. Len(<<n>>) = 1 /\ <<n>>[1] = n /\ 0..1 = {0, 1}
  OBVIOUS
<1>2. Sum(w)
  <2>1. \A i \in 0..1 : w[i] = IF i = 0 THEN 0 ELSE w[i-1] + o[<<n>>[i]].size
    BY <1>1
  <2> QED
    BY <1>1, <2>1
<1>3. Sum(s)
  BY <1>2
<1>4. s[0] = 0
  BY <1>1, <1>3
<1>5. s[1] = s[1-1] + o[<<n>>[1]].size
  <2> HIDE DEF s
  <2>1. 1 \in 0..Len(<<n>>) /\ 1 # 0
    BY <1>1
  <2> QED
    BY <1>3, <2>1
<1>6. s[1] = o[n].size
  BY <1>1, <1>4, <1>5
<1>7. Bytes(o, <<n>>) = s[Len(<<n>>)]
  BY DEF Bytes
<1> QED
  BY <1>1, <1>6, <1>7

-----------------------------------------------------------------------------
(* What a client is sent. *)

(* A piece is a run of positions. *)
LEMMA PieceType ==
  ASSUME NEW n \in Nat, NEW g \in Seq(1..n), NEW q \in Seq(Entries(n)),
         NEW i \in 0..Len(q)
  PROVE  PieceOf(g, q, i) \in Seq(1..n)
<1>1. CASE i = 0
  BY <1>1 DEF PieceOf
<1>2. CASE i # 0
  <2>1. i \in 1..Len(q)
    BY <1>2, LenProperties
  <2>2. q[i] \in Entries(n)
    BY <2>1, ElementOfSeq
  <2> QED
    BY <1>2, <2>2 DEF PieceOf, Entries
<1> QED
  BY <1>1, <1>2

(* A run that is not empty has a beginning and an end. *)
LEMMA RunEnds ==
  ASSUME NEW n \in Nat, NEW r \in Seq(1..n), r # <<>>
  PROVE  /\ Len(r) \in Nat \ {0} /\ r[1] \in 1..n /\ End(r) \in 1..n
         /\ Consecutive(r) => End(r) = r[1] + Len(r) - 1
<1>1. Len(r) \in Nat \ {0} /\ DOMAIN r = 1..Len(r)
  BY EmptySeq, LenProperties
<1>2. 1 \in 1..Len(r) /\ Len(r) \in 1..Len(r)
  BY <1>1
<1>3. r[1] \in 1..n /\ r[Len(r)] \in 1..n
  BY <1>2, ElementOfSeq
<1>4. Consecutive(r) => r[Len(r)] = r[1] + Len(r) - 1
  BY <1>1, <1>2 DEF Consecutive
<1> QED
  BY <1>1, <1>3, <1>4 DEF End

(* A beginning is one still when more is written. *)
LEMMA StartGrows ==
  ASSUME NEW o \in Seq(ChunkRow), NEW k \in ChunkRow, NEW j \in 0..Len(o),
         NEW r \in Seq(1..Len(o)), r # <<>>, StartOK(o, j, r)
  PROVE  StartOK(Append(o, k), j, r)
<1>1. Len(o) \in Nat
  BY LenProperties
<1>2. r[1] \in 1..Len(o)
  BY <1>1, RunEnds
<1>3. Append(o, k)[r[1]] = o[r[1]]
  BY <1>2, AppendProperties
<1> QED
  BY <1>3 DEF StartOK

(* So is all that was sent. *)
LEMMA ShapeGrows ==
  ASSUME NEW o \in Seq(ChunkRow), NEW k \in ChunkRow, NEW j \in 0..Len(o),
         NEW g \in Seq(1..Len(o)), NEW q \in Seq(Entries(Len(o))),
         Shape(o, g, q, j)
  PROVE  Shape(Append(o, k), g, q, j)
<1>1. Len(o) \in Nat
  BY LenProperties
<1>2. ASSUME NEW i \in 0..Len(q), PieceOf(g, q, i) # <<>>,
             StartOK(o, j, PieceOf(g, q, i))
      PROVE  StartOK(Append(o, k), j, PieceOf(g, q, i))
  BY <1>1, <1>2, PieceType, StartGrows
<1> QED
  BY <1>2 DEF Shape

(* An attachment that overflows keeps what it was sent. *)
LEMMA ShapeDropped ==
  ASSUME NEW o, NEW n \in Nat, NEW g \in Seq(1..n), NEW q \in Seq(Entries(n)), NEW j,
         Shape(o, g, q, j)
  PROVE  Shape(o, g, <<>>, j)
<1>1. Len(<<>>) = 0 /\ Len(q) \in Nat
  BY LenProperties
<1>2. 0 \in 0..Len(q)
  BY <1>1
<1>3. PieceOf(g, q, 0) = g /\ PieceOf(g, <<>>, 0) = g
  BY DEF PieceOf
<1>4. Consecutive(g) /\ (g # <<>> => StartOK(o, j, g))
  BY <1>2, <1>3 DEF Shape
<1> QED
  BY <1>1, <1>3, <1>4 DEF Shape

(* A chunk that is written and queued continues what was sent. *)
LEMMA ShapePush ==
  ASSUME NEW o \in Seq(ChunkRow), NEW k \in ChunkRow, NEW j \in 0..Len(o),
         NEW g \in Seq(1..Len(o)), NEW q \in Seq(Entries(Len(o))),
         Shape(o, g, q, j), Complete(o, g, q, j)
  PROVE  LET q2 == Append(q, Entry(NoPrelude, <<Len(o) + 1>>))
         IN  Shape(Append(o, k), g, q2, j) /\ Complete(Append(o, k), g, q2, j)
<1> DEFINE n == Len(o)
           e == Entry(NoPrelude, <<n + 1>>)
           q2 == Append(q, e)
           o2 == Append(o, k)
<1>1. n \in Nat /\ Len(q) \in Nat
  BY LenProperties
<1>2. e.run = <<n + 1>> /\ e.sets = NoPrelude
  BY DEF Entry
<1>3. Len(q2) = Len(q) + 1 /\ (\A i \in 1..Len(q) : q2[i] = q[i]) /\ q2[Len(q) + 1] = e
  BY AppendProperties
<1>4. Len(o2) = n + 1
  BY AppendProperties
<1> HIDE DEF e, q2, o2
<1>5. \A i \in 0..Len(q) : PieceOf(g, q2, i) = PieceOf(g, q, i)
  BY <1>1, <1>3 DEF PieceOf
<1>6. PieceOf(g, q2, Len(q) + 1) = <<n + 1>>
  BY <1>1, <1>2, <1>3 DEF PieceOf
<1>7. <<n + 1>> # <<>> /\ <<n + 1>>[1] = n + 1 /\ End(<<n + 1>>) = n + 1
      /\ Consecutive(<<n + 1>>)
  BY <1>1 DEF End, Consecutive
<1> DEFINE l == PieceOf(g, q, Len(q))
<1>8. Len(q) \in 0..Len(q)
  BY <1>1
<1>9. l \in Seq(1..n)
  BY <1>1, <1>8, PieceType
<1>10. IF l = <<>> THEN j = n ELSE End(l) = n
  BY DEF Complete
<1> HIDE DEF n, l
<1>first. \A i \in 1..Len(q) : q[i].run = <<>> => i = 1 /\ g = <<>>
  BY DEF Shape
<1>plain. \A i \in 1..Len(q) : q[i].run # <<>> => q[i].sets = NoPrelude
  BY DEF Shape
<1>runs. \A i \in 0..Len(q) : Consecutive(PieceOf(g, q, i))
  BY DEF Shape
<1>meet. \A i \in 0..(Len(q) - 1) :
           PieceOf(g, q, i) # <<>> =>
             PieceOf(g, q, i+1)[1] = End(PieceOf(g, q, i)) + 1
  BY DEF Shape
<1>start. \A i \in 0..Len(q) :
            PieceOf(g, q, i) # <<>> /\ (i = 0 \/ PieceOf(g, q, i-1) = <<>>)
              => StartOK(o, j, PieceOf(g, q, i))
  BY DEF Shape
<1>upto. ASSUME NEW i \in 1..Len(q2) PROVE i \in 1..Len(q) \/ i = Len(q) + 1
  BY <1>1, <1>3
<1>11. \A i \in 1..Len(q2) : q2[i].run = <<>> => i = 1 /\ g = <<>>
  BY <1>2, <1>3, <1>7, <1>first, <1>upto
<1>12. \A i \in 1..Len(q2) : q2[i].run # <<>> => q2[i].sets = NoPrelude
  BY <1>2, <1>3, <1>plain, <1>upto
<1>13. \A i \in 0..Len(q2) : Consecutive(PieceOf(g, q2, i))
  <2>1. ASSUME NEW i \in 0..Len(q2) PROVE i \in 0..Len(q) \/ i = Len(q) + 1
    BY <1>1, <1>3
  <2> QED
    BY <2>1, <1>5, <1>6, <1>7, <1>runs
<1>14. ASSUME NEW i \in 0..(Len(q2) - 1), PieceOf(g, q2, i) # <<>>
       PROVE  PieceOf(g, q2, i+1)[1] = End(PieceOf(g, q2, i)) + 1
  <2>1. i \in 0..Len(q)
    BY <1>1, <1>3
  <2>2. CASE i = Len(q)
    BY <2>2, <2>1, <1>1, <1>5, <1>6, <1>7, <1>10, <1>14 DEF l
  <2>3. CASE i # Len(q)
    <3>1. i \in 0..(Len(q) - 1) /\ i + 1 \in 0..Len(q)
      BY <2>1, <2>3, <1>1
    <3>2. PieceOf(g, q2, i) = PieceOf(g, q, i) /\ PieceOf(g, q2, i+1) = PieceOf(g, q, i+1)
      BY <2>1, <3>1, <1>5
    <3> QED
      BY <3>1, <3>2, <1>14, <1>meet
  <2> QED
    BY <2>2, <2>3
<1>15. ASSUME NEW i \in 0..Len(q2), PieceOf(g, q2, i) # <<>>,
              i = 0 \/ PieceOf(g, q2, i-1) = <<>>
       PROVE  StartOK(o2, j, PieceOf(g, q2, i))
  <2>1. CASE i \in 0..Len(q)
    <3>1. PieceOf(g, q2, i) = PieceOf(g, q, i)
      BY <2>1, <1>5
    <3>2. i = 0 \/ PieceOf(g, q, i-1) = <<>>
      BY <2>1, <1>1, <1>5, <1>15
    <3>3. StartOK(o, j, PieceOf(g, q, i))
      BY <2>1, <3>1, <3>2, <1>15, <1>start
    <3> QED
      BY <2>1, <3>1, <3>3, <1>1, <1>15, PieceType, StartGrows DEF n, o2
  <2>2. CASE i = Len(q) + 1
    <3>1. PieceOf(g, q, Len(q)) = <<>>
      BY <2>2, <1>1, <1>5, <1>8, <1>15
    <3> QED
      BY <2>2, <3>1, <1>1, <1>6, <1>7, <1>10 DEF StartOK, l
  <2> QED
    BY <2>1, <2>2, <1>1, <1>3
<1>16. Complete(o2, g, q2, j)
  BY <1>3, <1>4, <1>6, <1>7 DEF Complete
<1>17. Shape(o2, g, q2, j)
  BY <1>11, <1>12, <1>13, <1>14, <1>15 DEF Shape
<1> QED
  BY <1>16, <1>17 DEF q2, o2, e, n

(* The next entry of the queue continues what the client got. *)
LEMMA ShapeNext ==
  ASSUME NEW n \in Nat, NEW o, NEW j \in Nat,
         NEW g \in Seq(1..n), NEW q \in Seq(Entries(n)), q # <<>>,
         Shape(o, g, q, j)
  PROVE  LET g2 == g \o Head(q).run
         IN  /\ Shape(o, g2, Tail(q), j)
             /\ Complete(o, g, q, j) => Complete(o, g2, Tail(q), j)
<1> DEFINE r == Head(q).run
           g2 == g \o r
           q2 == Tail(q)
<1>1. Len(q) \in Nat \ {0} /\ Head(q) = q[1]
  BY EmptySeq, LenProperties
<1>2. Len(q2) = Len(q) - 1 /\ \A i \in 1..Len(q2) : q2[i] = q[i+1]
  BY HeadTailProperties
<1>3. r \in Seq(1..n)
  <2>1. Head(q) \in Entries(n)
    BY HeadTailProperties
  <2> QED
    BY <2>1 DEF Entries
<1>4. PieceOf(g, q, 0) = g /\ PieceOf(g, q, 1) = r
  BY <1>1 DEF PieceOf
<1>5. Len(g2) = Len(g) + Len(r) /\ g2 \in Seq(1..n)
      /\ \A i \in 1..(Len(g) + Len(r)) :
           g2[i] = IF i <= Len(g) THEN g[i] ELSE r[i - Len(g)]
  BY <1>3, ConcatProperties
<1>6. Len(g) \in Nat /\ Len(r) \in Nat /\ DOMAIN g = 1..Len(g) /\ DOMAIN r = 1..Len(r)
      /\ DOMAIN g2 = 1..Len(g2)
  BY <1>3, <1>5, LenProperties
<1>first. \A i \in 1..Len(q) : q[i].run = <<>> => i = 1 /\ g = <<>>
  BY DEF Shape
<1>plain. \A i \in 1..Len(q) : q[i].run # <<>> => q[i].sets = NoPrelude
  BY DEF Shape
<1>runs. \A i \in 0..Len(q) : Consecutive(PieceOf(g, q, i))
  BY DEF Shape
<1>meet. \A i \in 0..(Len(q) - 1) :
           PieceOf(g, q, i) # <<>> =>
             PieceOf(g, q, i+1)[1] = End(PieceOf(g, q, i)) + 1
  BY DEF Shape
<1>start. \A i \in 0..Len(q) :
            PieceOf(g, q, i) # <<>> /\ (i = 0 \/ PieceOf(g, q, i-1) = <<>>)
              => StartOK(o, j, PieceOf(g, q, i))
  BY DEF Shape
<1>8. r = <<>> => g = <<>> /\ g2 = <<>>
  <2>1. r = <<>> => g = <<>>
    BY <1>1, <1>first
  <2> QED
    BY <2>1, ConcatEmptySeq
<1> HIDE DEF r, g2, q2
<1>9. 0 \in 0..Len(q) /\ 1 \in 0..Len(q) /\ 0 \in 0..(Len(q) - 1)
  BY <1>1
<1>10. ASSUME r # <<>>
       PROVE  g2 # <<>> /\ End(g2) = End(r) /\ Consecutive(g2) /\ StartOK(o, j, g2)
  <2>1. Len(r) \in Nat \ {0} /\ r[1] \in 1..n /\ End(r) \in 1..n
        /\ End(r) = r[1] + Len(r) - 1 /\ Consecutive(r)
    <3>1. Consecutive(r)
      BY <1>4, <1>runs, <1>9
    <3> QED
      BY <3>1, <1>3, <1>10, RunEnds
  <2>2. g2 # <<>>
    BY <2>1, <1>5, <1>6
  <2>3. End(g2) = End(r)
    <3>1. Len(g2) \in 1..(Len(g) + Len(r)) /\ ~(Len(g2) <= Len(g))
          /\ Len(g2) - Len(g) = Len(r)
      BY <2>1, <1>5, <1>6
    <3>2. g2[Len(g2)] = r[Len(r)]
      BY <3>1, <1>5
    <3> QED
      BY <3>2 DEF End
  <2>4. CASE g = <<>>
    <3>1. g2 = r
      BY <2>4, <1>3, ConcatEmptySeq DEF g2
    <3>2. StartOK(o, j, r)
      BY <2>4, <1>4, <1>start, <1>9, <1>10
    <3> QED
      BY <2>1, <2>2, <2>3, <3>1, <3>2
  <2>5. CASE g # <<>>
    <3>1. Consecutive(g) /\ StartOK(o, j, g) /\ r[1] = End(g) + 1
      BY <2>5, <1>4, <1>runs, <1>meet, <1>start, <1>9
    <3>2. Len(g) \in Nat \ {0} /\ g[1] \in 1..n /\ End(g) \in 1..n
          /\ End(g) = g[1] + Len(g) - 1
      BY <2>5, <3>1, RunEnds
    <3>3. g2[1] = g[1]
      BY <3>2, <2>1, <1>5
    <3>4. ASSUME NEW i \in 1..Len(g2) PROVE g2[i] = g2[1] + i - 1
      <4>1. CASE i <= Len(g)
        <5>1. i \in 1..Len(g)
          BY <4>1, <1>6
        <5>2. g[i] = g[1] + i - 1
          BY <5>1, <3>1, <1>6 DEF Consecutive
        <5> QED
          BY <4>1, <5>2, <3>3, <1>5
      <4>2. CASE ~(i <= Len(g))
        <5>1. i - Len(g) \in 1..Len(r)
          BY <4>2, <1>5, <1>6
        <5>2. r[i - Len(g)] = r[1] + (i - Len(g)) - 1
          BY <5>1, <2>1, <1>6 DEF Consecutive
        <5>3. g2[i] = r[i - Len(g)]
          BY <4>2, <1>5
        <5>4. r[1] = g[1] + Len(g) /\ g[1] \in Int /\ Len(g) \in Int /\ i \in Int
          BY <3>1, <3>2, <1>5, <1>6
        <5> HIDE <2>1
        <5>5. g2[i] = g[1] + Len(g) + (i - Len(g)) - 1
          BY <5>2, <5>3, <5>4
        <5> QED
          BY <5>4, <5>5, <3>3
      <4> QED
        BY <4>1, <4>2
    <3>5. Consecutive(g2)
      BY <3>4, <1>6 DEF Consecutive
    <3>6. StartOK(o, j, g2)
      <4>1. End(g2) >= End(g)
        BY <2>1, <2>3, <3>1, <3>2
      <4> QED
        BY <4>1, <2>1, <2>3, <3>1, <3>2, <3>3 DEF StartOK
    <3> QED
      BY <2>2, <2>3, <3>5, <3>6
  <2> QED
    BY <2>4, <2>5
<1>11. PieceOf(g2, q2, 0) = g2 /\ \A i \in 1..Len(q2) : PieceOf(g2, q2, i) = PieceOf(g, q, i+1)
  BY <1>1, <1>2 DEF PieceOf
<1>12. \A i \in 1..Len(q2) : i + 1 \in 1..Len(q) /\ i + 1 \in 0..Len(q) /\ i + 1 # 1
  BY <1>1, <1>2
<1>13. \A i \in 1..Len(q2) : q2[i].run = <<>> => i = 1 /\ g2 = <<>>
  BY <1>2, <1>first, <1>12
<1>14. \A i \in 1..Len(q2) : q2[i].run # <<>> => q2[i].sets = NoPrelude
  BY <1>2, <1>plain, <1>12
<1>15. g2 = <<>> => Consecutive(g2)
  BY <1>6 DEF Consecutive
<1>16. ASSUME NEW i \in 0..Len(q2) PROVE i = 0 \/ i \in 1..Len(q2)
  BY <1>1, <1>2
<1>17. \A i \in 0..Len(q2) : Consecutive(PieceOf(g2, q2, i))
  BY <1>runs, <1>8, <1>10, <1>11, <1>12, <1>15, <1>16
<1>18. ASSUME NEW i \in 0..(Len(q2) - 1), PieceOf(g2, q2, i) # <<>>
       PROVE  PieceOf(g2, q2, i+1)[1] = End(PieceOf(g2, q2, i)) + 1
  <2>1. i + 1 \in 1..Len(q2) /\ i + 1 \in 0..(Len(q) - 1) /\ (i = 0 \/ i \in 1..Len(q2))
    BY <1>1, <1>2
  <2>2. PieceOf(g2, q2, i+1) = PieceOf(g, q, i+1+1)
    BY <2>1, <1>11
  <2>3. CASE i = 0
    BY <2>3, <2>1, <2>2, <1>4, <1>meet, <1>8, <1>10, <1>11, <1>18
  <2>4. CASE i \in 1..Len(q2)
    BY <2>4, <2>1, <2>2, <1>meet, <1>11, <1>18
  <2> QED
    BY <2>1, <2>3, <2>4
<1>19. ASSUME NEW i \in 0..Len(q2), PieceOf(g2, q2, i) # <<>>,
              i = 0 \/ PieceOf(g2, q2, i-1) = <<>>
       PROVE  StartOK(o, j, PieceOf(g2, q2, i))
  <2>1. CASE i = 0
    BY <2>1, <1>8, <1>10, <1>11, <1>19
  <2>2. CASE i = 1
    <3>1. PieceOf(g, q, 1) = <<>>
      BY <2>2, <1>4, <1>10, <1>11, <1>19
    <3>2. i \in 1..Len(q2)
      BY <2>2, <1>16
    <3> QED
      BY <2>2, <3>1, <3>2, <1>start, <1>11, <1>12, <1>19
  <2>3. CASE i # 0 /\ i # 1
    <3>1. i \in 1..Len(q2) /\ i - 1 \in 1..Len(q2) /\ (i-1) + 1 = i /\ (i+1) - 1 = i
      BY <2>3, <1>1, <1>2
    <3>2. PieceOf(g, q, (i+1) - 1) = <<>> /\ PieceOf(g, q, i+1) # <<>>
      BY <2>3, <3>1, <1>11, <1>19
    <3> QED
      BY <3>1, <3>2, <1>start, <1>11, <1>12
  <2> QED
    BY <2>1, <2>2, <2>3
<1>20. Shape(o, g2, q2, j)
  BY <1>13, <1>14, <1>17, <1>18, <1>19 DEF Shape
<1>21. ASSUME Complete(o, g, q, j) PROVE Complete(o, g2, q2, j)
  <2>1. CASE Len(q) = 1
    BY <2>1, <1>2, <1>4, <1>8, <1>10, <1>11, <1>21 DEF Complete
  <2>2. CASE Len(q) # 1
    <3>1. Len(q2) \in 1..Len(q2) /\ Len(q2) + 1 = Len(q)
      BY <2>2, <1>1, <1>2
    <3> QED
      BY <3>1, <1>11, <1>21 DEF Complete
  <2> QED
    BY <2>1, <2>2
<1> QED
  BY <1>20, <1>21 DEF g2, q2, r

-----------------------------------------------------------------------------
(* Modes. *)

(* A mode has one last setting. *)
LEMMA LastSetUnique ==
  ASSUME NEW o, NEW m, NEW n \in Nat, NEW v, NEW w,
         LastSet(o, m, n, v), LastSet(o, m, n, w)
  PROVE  v = w
<1>1. ASSUME NEW i \in 1..n, NEW k \in 1..n, i < k, o[k].sets[m] # "same",
             \A x \in (i+1)..n : o[x].sets[m] = "same"
      PROVE  FALSE
  <2>1. k \in (i+1)..n
    BY <1>1
  <2> QED
    BY <2>1, <1>1
<1>2. CASE v = "unset" /\ \A i \in 1..n : o[i].sets[m] = "same"
  BY <1>2 DEF LastSet
<1>3. CASE w = "unset" /\ \A i \in 1..n : o[i].sets[m] = "same"
  BY <1>3 DEF LastSet
<1>4. ASSUME NEW i \in 1..n, NEW k \in 1..n, v # "same", w # "same",
             o[i].sets[m] = v, \A x \in (i+1)..n : o[x].sets[m] = "same",
             o[k].sets[m] = w, \A x \in (k+1)..n : o[x].sets[m] = "same"
      PROVE  v = w
  <2>1. i < k \/ k < i \/ i = k
    OBVIOUS
  <2>2. ~(i < k)
    BY <1>1, <1>4
  <2>3. ~(k < i)
    BY <1>1, <1>4
  <2> QED
    BY <2>1, <2>2, <2>3, <1>4
<1> QED
  BY <1>2, <1>3, <1>4 DEF LastSet

(* It is the same when more is written, *)
LEMMA LastSetGrows ==
  ASSUME NEW o \in Seq(ChunkRow), NEW k \in ChunkRow, NEW m, NEW v,
         NEW n \in 0..Len(o), LastSet(o, m, n, v)
  PROVE  LastSet(Append(o, k), m, n, v)
<1>1. Len(o) \in Nat
  BY LenProperties
<1>2. \A i \in 1..Len(o) : Append(o, k)[i] = o[i]
  BY AppendProperties
<1>3. \A i \in 1..n : i \in 1..Len(o)
  BY <1>1
<1>4. \A i \in 1..n : \A x \in (i+1)..n : x \in 1..n
  BY <1>1
<1> QED
  BY <1>2, <1>3, <1>4 DEF LastSet

(* further on as long as nothing sets it, *)
LEMMA LastSetStays ==
  ASSUME NEW o, NEW m, NEW v, NEW n \in Nat, NEW p \in Nat, NEW a \in Nat,
         a <= n + 1, n <= p, \A i \in a..p : o[i].sets[m] = "same",
         LastSet(o, m, n, v)
  PROVE  LastSet(o, m, p, v)
<1>1. \A i \in (n+1)..p : i \in a..p
  OBVIOUS
<1>2. CASE v = "unset" /\ \A i \in 1..n : o[i].sets[m] = "same"
  <2>1. \A i \in 1..p : i \in 1..n \/ i \in (n+1)..p
    OBVIOUS
  <2> QED
    BY <1>1, <1>2, <2>1 DEF LastSet
<1>3. ASSUME v # "same", NEW i \in 1..n, o[i].sets[m] = v,
             \A x \in (i+1)..n : o[x].sets[m] = "same"
      PROVE  LastSet(o, m, p, v)
  <2>1. i \in 1..p
    OBVIOUS
  <2>2. \A x \in (i+1)..p : x \in (i+1)..n \/ x \in (n+1)..p
    OBVIOUS
  <2> QED
    BY <1>1, <1>3, <2>1, <2>2 DEF LastSet
<1> QED
  BY <1>2, <1>3 DEF LastSet

(* and what a new chunk sets it to is its last setting. *)
LEMMA LastSetNew ==
  ASSUME NEW o \in Seq(ChunkRow), NEW k \in ChunkRow, NEW m, NEW v,
         LastSet(o, m, Len(o), v)
  PROVE  LastSet(Append(o, k), m, Len(o) + 1,
                 IF k.sets[m] = "same" THEN v ELSE k.sets[m])
<1> DEFINE n == Len(o)
           o2 == Append(o, k)
<1>1. n \in Nat
  BY LenProperties
<1>2. o2[n + 1] = k
  BY AppendProperties
<1>3. LastSet(o2, m, n, v)
  <2>1. n \in 0..Len(o)
    BY <1>1
  <2> QED
    BY <2>1, LastSetGrows
<1> HIDE DEF o2, n
<1>4. CASE k.sets[m] = "same"
  <2>1. \A i \in (n+1)..(n+1) : o2[i].sets[m] = "same"
    BY <1>1, <1>2, <1>4
  <2>2. n + 1 \in Nat /\ n + 1 <= n + 1 /\ n <= n + 1
    BY <1>1
  <2>3. LastSet(o2, m, n + 1, v)
    BY <2>1, <2>2, <1>1, <1>3, LastSetStays
  <2> QED
    BY <2>3, <1>4 DEF n, o2
<1>5. CASE k.sets[m] # "same"
  <2>1. n + 1 \in 1..(n+1) /\ \A x \in (n+1+1)..(n+1) : FALSE
    BY <1>1
  <2>2. LastSet(o2, m, n + 1, k.sets[m])
    BY <2>1, <1>2, <1>5 DEF LastSet
  <2> QED
    BY <2>2, <1>5 DEF n, o2
<1> QED
  BY <1>4, <1>5

(* Feed, over values. *)
KnownTo(o, g, r, p) == o[p].clean \/ \E i \in DOMAIN (g \o r) : (g \o r)[i] = p - 1
SettersOf(o, g, r, m) ==
  {i \in DOMAIN r : KnownTo(o, g, r, r[i]) /\ o[r[i]].sets[m] # "same"}
FeedOf(o, g, t, e) ==
  [m \in Modes |->
     LET setters == SettersOf(o, g, e.run, m)
     IN  IF setters = {} THEN Apply(t, e.sets)[m]
         ELSE o[e.run[CHOOSE i \in setters : \A j \in setters : j <= i]].sets[m]]

(* FeedOf is the model's Feed. *)
LEMMA FeedIsFeedOf ==
  ASSUME NEW c, NEW e PROVE Feed(c, e) = FeedOf(out, got[c], term[c], e)
BY DEF Feed, FeedOf, SettersOf, KnownTo

(* A terminal that saw the output's beginning knows every chunk of the next  *)
(* run: each mode is as the run last set it, or as it was.                   *)
LEMMA RunFed ==
  ASSUME NEW o \in Seq(ChunkRow), NEW g \in Seq(1..Len(o)), NEW t,
         NEW e \in Entries(Len(o)), e.run # <<>>, Consecutive(e.run),
         \/ g = <<>> /\ o[e.run[1]].clean
         \/ g # <<>> /\ e.run[1] = End(g) + 1,
         NEW m \in Modes
  PROVE  \/ /\ \A i \in e.run[1]..End(e.run) : o[i].sets[m] = "same"
            /\ FeedOf(o, g, t, e)[m] = Apply(t, e.sets)[m]
         \/ LastSet(o, m, End(e.run), FeedOf(o, g, t, e)[m])
<1> DEFINE n == Len(o)
           r == e.run
           S == SettersOf(o, g, r, m)
           last == CHOOSE i \in S : \A j \in S : j <= i
<1>1. n \in Nat /\ r \in Seq(1..n)
  BY LenProperties DEF Entries
<1>2. Len(r) \in Nat \ {0} /\ r[1] \in 1..n /\ End(r) \in 1..n
      /\ End(r) = r[1] + Len(r) - 1 /\ DOMAIN r = 1..Len(r)
  BY <1>1, RunEnds, LenProperties
<1>3. \A i \in 1..Len(r) : r[i] = r[1] + i - 1
  BY <1>2 DEF Consecutive
<1>4. FeedOf(o, g, t, e)[m] =
        IF S = {} THEN Apply(t, e.sets)[m] ELSE o[r[last]].sets[m]
  BY DEF FeedOf
<1> HIDE DEF n, r, last
<1>5. Len(g) \in Nat /\ DOMAIN (g \o r) = 1..(Len(g) + Len(r))
      /\ \A i \in 1..(Len(g) + Len(r)) :
           (g \o r)[i] = IF i <= Len(g) THEN g[i] ELSE r[i - Len(g)]
  <2>1. g \in Seq(1..n)
    BY DEF n
  <2>2. Len(g) \in Nat
    BY LenProperties
  <2>3. g \o r \in Seq(1..n) /\ Len(g \o r) = Len(g) + Len(r)
        /\ \A i \in 1..(Len(g) + Len(r)) :
             (g \o r)[i] = IF i <= Len(g) THEN g[i] ELSE r[i - Len(g)]
    BY <2>1, <1>1, ConcatProperties
  <2> QED
    BY <2>2, <2>3, LenProperties
<1>6. ASSUME NEW i \in 1..Len(r) PROVE KnownTo(o, g, r, r[i])
  <2>1. CASE i = 1 /\ g = <<>>
    BY <2>1 DEF KnownTo, r
  <2>2. CASE i = 1 /\ g # <<>>
    <3>1. r[1] = End(g) + 1 /\ End(g) \in Int /\ Len(g) \in Nat \ {0}
      BY <2>2, <1>1, <1>5, RunEnds DEF r, n
    <3>2. Len(g) \in 1..(Len(g) + Len(r)) /\ Len(g) <= Len(g)
      BY <3>1, <1>2
    <3>3. (g \o r)[Len(g)] = End(g)
      BY <3>2, <1>5 DEF End
    <3>4. r[i] - 1 = End(g)
      BY <2>2, <3>1
    <3> QED
      BY <3>2, <3>3, <3>4, <1>5 DEF KnownTo
  <2>3. CASE i # 1
    <3>1. /\ Len(g) + (i - 1) \in 1..(Len(g) + Len(r)) /\ ~(Len(g) + (i - 1) <= Len(g))
          /\ Len(g) + (i - 1) - Len(g) = i - 1 /\ i - 1 \in 1..Len(r)
      BY <2>3, <1>2, <1>5
    <3>2. (g \o r)[Len(g) + (i - 1)] = r[i - 1]
      BY <3>1, <1>5
    <3>3. r[i - 1] = r[i] - 1
      <4>1. r[i - 1] = r[1] + (i - 1) - 1 /\ r[i] = r[1] + i - 1
        BY <3>1, <1>3
      <4> QED
        BY <4>1, <1>2
    <3> QED
      BY <3>1, <3>2, <3>3, <1>5 DEF KnownTo
  <2> QED
    BY <2>1, <2>2, <2>3
<1>7. S = {i \in 1..Len(r) : o[r[i]].sets[m] # "same"}
  BY <1>2, <1>6 DEF SettersOf
<1> HIDE DEF S
<1>8. ASSUME NEW p \in r[1]..End(r)
      PROVE  p - r[1] + 1 \in 1..Len(r) /\ r[p - r[1] + 1] = p
  <2>1. p - r[1] + 1 \in 1..Len(r)
    BY <1>2
  <2>2. r[p - r[1] + 1] = r[1] + (p - r[1] + 1) - 1
    BY <2>1, <1>3
  <2> QED
    BY <2>1, <2>2, <1>2
<1>9. CASE S = {}
  BY <1>4, <1>7, <1>8, <1>9 DEF r
<1>10. CASE S # {}
  <2>1. S \in SUBSET (1..Len(r))
    BY <1>7
  <2>2. \E i \in S : \A j \in S : j <= i
    BY <2>1, <1>2, <1>10, GreatestExists
  <2>3. last \in S /\ \A j \in S : j <= last
    BY <2>2 DEF last
  <2>4. last \in 1..Len(r) /\ o[r[last]].sets[m] # "same"
    BY <2>3, <1>7
  <2>5. r[last] = r[1] + last - 1
    BY <2>4, <1>3
  <2>6. r[last] \in 1..End(r)
    BY <2>4, <2>5, <1>2
  <2>7. ASSUME NEW p \in (r[last] + 1)..End(r) PROVE o[p].sets[m] = "same"
    <3>1. p \in r[1]..End(r) /\ p - r[1] + 1 > last
      BY <2>4, <2>5, <2>6, <1>2
    <3>2. p - r[1] + 1 \in 1..Len(r) /\ r[p - r[1] + 1] = p
      BY <3>1, <1>8
    <3>3. p - r[1] + 1 \notin S
      BY <3>1, <3>2, <2>3, <2>4
    <3> QED
      BY <3>2, <3>3, <1>7
  <2>8. LastSet(o, m, End(r), o[r[last]].sets[m])
    BY <2>4, <2>6, <2>7 DEF LastSet
  <2> QED
    BY <2>8, <1>4, <1>10 DEF r
<1> QED
  BY <1>9, <1>10

(* The terminal is right still after the next entry. *)
LEMMA TermNext ==
  ASSUME NEW o \in Seq(ChunkRow), NEW j \in 0..Len(o), NEW g \in Seq(1..Len(o)),
         NEW q \in Seq(Entries(Len(o))), q # <<>>,
         NEW t \in [Modes -> Value \cup {"unset"}],
         Shape(o, g, q, j), TermOK(o, g, q, j, t)
  PROVE  TermOK(o, g \o Head(q).run, Tail(q), j, FeedOf(o, g, t, Head(q)))
<1> DEFINE n == Len(o)
           e == Head(q)
           r == e.run
           g2 == g \o r
           q2 == Tail(q)
           t2 == FeedOf(o, g, t, e)
<1>1. n \in Nat /\ Len(q) \in Nat \ {0} /\ e = q[1] /\ e \in Entries(n)
  BY EmptySeq, LenProperties, HeadTailProperties
<1>2. Len(q2) = Len(q) - 1 /\ (\A i \in 1..Len(q2) : q2[i] = q[i+1])
      /\ q2 \in Seq(Entries(n))
  BY HeadTailProperties
<1>3. r \in Seq(1..n) /\ e.sets \in [Modes -> Value \cup {"same"}]
  BY <1>1 DEF Entries
<1> HIDE DEF e
<1>4. 1 \in 1..Len(q) /\ 0 \in 0..Len(q) /\ 1 \in 0..Len(q) /\ 0 \in 0..(Len(q) - 1)
  BY <1>1
<1>5. PieceOf(g, q, 0) = g /\ PieceOf(g, q, 1) = r
  BY <1>1 DEF PieceOf
<1>6. /\ r = <<>> => g = <<>>
      /\ r # <<>> => e.sets = NoPrelude
      /\ Consecutive(r) /\ Consecutive(g)
      /\ g # <<>> => r[1] = End(g) + 1
      /\ r # <<>> /\ g = <<>> => StartOK(o, j, r)
  <2>1. (r = <<>> => g = <<>>) /\ (r # <<>> => e.sets = NoPrelude)
    BY <1>1, <1>4 DEF Shape
  <2>2. Consecutive(r) /\ Consecutive(g)
    BY <1>4, <1>5 DEF Shape
  <2>3. g # <<>> => r[1] = End(g) + 1
    BY <1>4, <1>5 DEF Shape
  <2>4. r # <<>> /\ g = <<>> => StartOK(o, j, r)
    BY <1>4, <1>5 DEF Shape
  <2> QED
    BY <2>1, <2>2, <2>3, <2>4
<1>7. Prepared(q2, t2) = t2
  <2>1. ASSUME q2 # <<>> PROVE q2[1].run # <<>>
    <3>1. 1 \in 1..Len(q2) /\ 2 \in 1..Len(q)
      BY <2>1, <1>1, <1>2, EmptySeq
    <3>2. q2[1] = q[2]
      BY <3>1, <1>2
    <3> QED
      BY <3>1, <3>2 DEF Shape
  <2> QED
    BY <2>1 DEF Prepared
<1>8. Prepared(q, t) = IF r = <<>> THEN Apply(t, e.sets) ELSE t
  BY <1>1 DEF Prepared
<1>9. CASE r = <<>>
  <2>1. g = <<>> /\ g2 = <<>>
    BY <1>6, <1>9, ConcatEmptySeq
  <2>2. t2 = Apply(t, e.sets)
    <3>1. \A m \in Modes : SettersOf(o, g, r, m) = {}
      BY <1>9 DEF SettersOf
    <3>2. \A m \in Modes : t2[m] = Apply(t, e.sets)[m]
      BY <3>1 DEF FeedOf
    <3> QED
      BY <3>2 DEF FeedOf, Apply
  <2>3. Prepared(q, t) = t2
    BY <1>8, <1>9, <2>2
  <2> HIDE DEF t2, g2, q2
  <2>4. \A m \in Modes : IF m \in Transient THEN t2[m] = "unset" ELSE LastSet(o, m, j, t2[m])
    BY <2>1, <2>3 DEF TermOK
  <2>5. TermOK(o, g2, q2, j, t2)
    BY <2>1, <2>4, <1>7 DEF TermOK
  <2> QED
    BY <2>5 DEF t2, g2, q2, r, e
<1>10. CASE r # <<>>
  <2>1. \A m \in Modes : Apply(t, e.sets)[m] = t[m]
    BY <1>6, <1>10 DEF Apply, NoPrelude
  <2>2. Len(r) \in Nat \ {0} /\ r[1] \in 1..n /\ End(r) \in 1..n
        /\ End(r) = r[1] + Len(r) - 1
    BY <1>1, <1>3, <1>6, <1>10, RunEnds
  <2>3. g2 # <<>> /\ End(g2) = End(r) /\ g2[1] = IF g = <<>> THEN r[1] ELSE g[1]
    <3>1. Len(g) \in Nat /\ Len(g2) = Len(g) + Len(r)
          /\ \A i \in 1..(Len(g) + Len(r)) :
               g2[i] = IF i <= Len(g) THEN g[i] ELSE r[i - Len(g)]
      BY <1>3, LenProperties, ConcatProperties
    <3>2. g2 # <<>>
      BY <3>1, <2>2
    <3>3. Len(g2) \in 1..(Len(g) + Len(r)) /\ ~(Len(g2) <= Len(g))
          /\ Len(g2) - Len(g) = Len(r) /\ 1 \in 1..(Len(g) + Len(r))
      BY <3>1, <2>2
    <3>4. g2[Len(g2)] = r[Len(r)]
      BY <3>1, <3>3
    <3>5. g = <<>> => Len(g) = 0
      OBVIOUS
    <3>6. g # <<>> => 1 <= Len(g)
      BY <3>1, EmptySeq
    <3>7. g2[1] = IF g = <<>> THEN r[1] ELSE g[1]
      BY <3>1, <3>3, <3>5, <3>6
    <3> QED
      BY <3>2, <3>4, <3>7 DEF End
  <2> HIDE DEF t2, g2, q2, r, n
  <2>4. ASSUME o[g2[1]].clean, NEW m \in Modes
        PROVE  LastSet(o, m, End(g2), t2[m]) \/ (m \in Transient /\ t2[m] = "unset")
    <3>1. \/ /\ \A i \in r[1]..End(r) : o[i].sets[m] = "same"
             /\ t2[m] = Apply(t, e.sets)[m]
          \/ LastSet(o, m, End(r), t2[m])
      <4>1. \/ g = <<>> /\ o[r[1]].clean
            \/ g # <<>> /\ r[1] = End(g) + 1
        BY <2>3, <2>4, <1>6
      <4> QED
        BY <4>1, <1>1, <1>6, <1>10, RunFed DEF r, t2, n
    <3>2. CASE LastSet(o, m, End(r), t2[m])
      BY <3>2, <2>3
    <3>3. CASE /\ \A i \in r[1]..End(r) : o[i].sets[m] = "same"
               /\ t2[m] = t[m]
      <4>1. CASE g = <<>>
        <5>1. IF m \in Transient THEN t[m] = "unset" ELSE LastSet(o, m, j, t[m])
          BY <4>1, <1>8, <1>10 DEF TermOK
        <5>2. j \in Nat /\ r[1] <= j + 1 /\ j <= End(r)
          <6>1. StartOK(o, j, r)
            BY <4>1, <1>6, <1>10
          <6>2. j \in Nat
            BY <1>1 DEF n
          <6> QED
            BY <6>1, <6>2, <2>2, <1>1 DEF StartOK
        <5>3. LastSet(o, m, j, t[m]) => LastSet(o, m, End(r), t[m])
          <6>1. r[1] \in Nat /\ End(r) \in Nat
            BY <2>2, <1>1
          <6> QED
            BY <6>1, <5>2, <3>3, LastSetStays
        <5> QED
          BY <5>1, <5>3, <3>3, <2>3
      <4>2. CASE g # <<>>
        <5>1. o[g[1]].clean
          BY <4>2, <2>3, <2>4
        <5>2. LastSet(o, m, End(g), t[m]) \/ (m \in Transient /\ t[m] = "unset")
          BY <4>2, <5>1 DEF TermOK
        <5>3. End(g) \in Nat /\ r[1] \in Nat /\ End(r) \in Nat
              /\ r[1] <= End(g) + 1 /\ End(g) <= End(r)
          <6>1. End(g) \in 1..n
            BY <4>2, <1>1, RunEnds DEF n
          <6> QED
            BY <6>1, <4>2, <2>2, <1>1, <1>6
        <5>4. LastSet(o, m, End(g), t[m]) => LastSet(o, m, End(r), t[m])
          BY <5>3, <3>3, LastSetStays
        <5> QED
          BY <5>2, <5>4, <3>3, <2>3
      <4> QED
        BY <4>1, <4>2
    <3> QED
      BY <3>1, <3>2, <3>3, <2>1
  <2>5. TermOK(o, g2, q2, j, t2)
    BY <2>3, <2>4 DEF TermOK
  <2> QED
    BY <2>5 DEF t2, g2, q2, r, e
<1> QED
  BY <1>9, <1>10

(* A chunk that is written and queued changes nothing for the terminal yet.  *)
LEMMA TermPush ==
  ASSUME NEW o \in Seq(ChunkRow), NEW k \in ChunkRow, NEW j \in 0..Len(o),
         NEW g \in Seq(1..Len(o)), NEW q \in Seq(Entries(Len(o))), NEW t, NEW e,
         e.run # <<>>, TermOK(o, g, q, j, t)
  PROVE  TermOK(Append(o, k), g, Append(q, e), j, t)
<1> DEFINE n == Len(o)
           q2 == Append(q, e)
           o2 == Append(o, k)
<1>1. n \in Nat /\ Len(q) \in Nat
  BY LenProperties
<1>2. Prepared(q2, t) = Prepared(q, t)
  <2>1. q2 # <<>> /\ (\A i \in 1..Len(q) : q2[i] = q[i]) /\ q2[Len(q) + 1] = e
    OBVIOUS
  <2>2. CASE q = <<>>
    BY <2>1, <2>2 DEF Prepared
  <2>3. CASE q # <<>>
    <3>1. 1 \in 1..Len(q)
      BY <2>3, <1>1, EmptySeq
    <3> QED
      BY <2>1, <2>3, <3>1 DEF Prepared
  <2> QED
    BY <2>2, <2>3
<1>3. ASSUME NEW m \in Modes, NEW v, NEW i \in 0..n, LastSet(o, m, i, v)
      PROVE  LastSet(o2, m, i, v)
  BY <1>3, LastSetGrows
<1>4. ASSUME g # <<>>
      PROVE  o2[g[1]] = o[g[1]] /\ End(g) \in 0..n
  <2>1. g[1] \in 1..n /\ End(g) \in 1..n
    BY <1>1, <1>4, RunEnds
  <2> QED
    BY <2>1, <1>1, AppendProperties
<1>5. j \in 0..n
  OBVIOUS
<1> HIDE DEF o2, q2, n
<1>6. TermOK(o2, g, q2, j, t)
  <2>1. ASSUME g = <<>>, NEW m \in Modes
        PROVE  IF m \in Transient THEN Prepared(q2, t)[m] = "unset"
               ELSE LastSet(o2, m, j, Prepared(q2, t)[m])
    <3>1. IF m \in Transient THEN Prepared(q, t)[m] = "unset"
          ELSE LastSet(o, m, j, Prepared(q, t)[m])
      BY <2>1 DEF TermOK
    <3> QED
      BY <3>1, <1>2, <1>3, <1>5
  <2>2. ASSUME g # <<>>, o2[g[1]].clean, NEW m \in Modes
        PROVE  LastSet(o2, m, End(g), t[m]) \/ (m \in Transient /\ t[m] = "unset")
    <3>1. LastSet(o, m, End(g), t[m]) \/ (m \in Transient /\ t[m] = "unset")
      BY <2>2, <1>4 DEF TermOK
    <3> QED
      BY <3>1, <2>2, <1>3, <1>4
  <2> QED
    BY <2>1, <2>2 DEF TermOK
<1> QED
  BY <1>6 DEF o2, q2

-----------------------------------------------------------------------------
(* The ring and the queue. *)

(* What is left of a run ends where the run ends. *)
LEMMA FromRun ==
  ASSUME NEW n \in Nat, NEW r \in Seq(1..n), Consecutive(r), NEW i \in 1..(Len(r) + 1)
  PROVE  /\ From(r, i) \in Seq(1..n) /\ Consecutive(From(r, i))
         /\ i = Len(r) + 1 => From(r, i) = <<>>
         /\ i # Len(r) + 1 => /\ From(r, i) # <<>> /\ From(r, i)[1] = r[i]
                              /\ End(From(r, i)) = End(r)
<1> DEFINE f == From(r, i)
<1>1. Len(r) \in Nat /\ DOMAIN r = 1..Len(r)
  BY LenProperties
<1>2. \A x \in i..Len(r) : r[x] \in 1..n
  <2>1. \A x \in i..Len(r) : x \in 1..Len(r)
    BY <1>1
  <2> QED
    BY <2>1, ElementOfSeq
<1>3. /\ f \in Seq(1..n)
      /\ Len(f) = IF i <= Len(r) THEN Len(r) - i + 1 ELSE 0
      /\ \A x \in 1..(Len(r) - i + 1) : f[x] = r[i + x - 1]
  <2>1. i \in Int /\ Len(r) \in Int
    BY <1>1
  <2> QED
    BY <1>2, <2>1, SubSeqProperties DEF From
<1> HIDE DEF f
<1>4. CASE i = Len(r) + 1
  <2>1. Len(f) = 0
    BY <1>1, <1>3, <1>4
  <2>2. f = <<>>
    BY <2>1, <1>3, EmptySeq
  <2>3. Consecutive(f)
    BY <2>2 DEF Consecutive
  <2> QED
    BY <1>3, <1>4, <2>2, <2>3 DEF f
<1>5. CASE i # Len(r) + 1
  <2>1. i \in 1..Len(r) /\ Len(f) = Len(r) - i + 1 /\ Len(f) \in Nat \ {0}
        /\ DOMAIN f = 1..Len(f)
    BY <1>1, <1>3, <1>5, LenProperties
  <2>2. f # <<>>
    BY <2>1
  <2>3. ASSUME NEW x \in 1..Len(f) PROVE f[x] = r[1] + (i + x - 1) - 1
    <3>1. x \in 1..(Len(r) - i + 1) /\ i + x - 1 \in 1..Len(r)
      BY <2>1, <1>1
    <3> QED
      BY <3>1, <1>1, <1>3 DEF Consecutive
  <2>4. r[1] \in Int
    <3>1. 1 \in 1..Len(r)
      BY <2>1, <1>1
    <3> QED
      BY <3>1, ElementOfSeq
  <2>5. 1 \in 1..Len(f) /\ i + 1 - 1 = i
    BY <2>1
  <2>6. f[1] = r[1] + i - 1
    BY <2>3, <2>4, <2>5
  <2>7. Consecutive(f)
    <3>1. ASSUME NEW x \in 1..Len(f) PROVE f[x] = f[1] + x - 1
      BY <2>1, <2>3, <2>4, <2>6
    <3> QED
      BY <3>1, <2>1 DEF Consecutive
  <2>8. f[1] = r[i]
    BY <2>1, <2>6, <1>1 DEF Consecutive
  <2>9. End(f) = End(r)
    <3>1. Len(f) \in 1..(Len(r) - i + 1) /\ i + Len(f) - 1 = Len(r)
      BY <2>1, <1>1
    <3>2. f[Len(f)] = r[Len(r)]
      BY <3>1, <1>3
    <3> QED
      BY <3>2 DEF End
  <2> QED
    BY <1>3, <1>5, <2>2, <2>7, <2>8, <2>9 DEF f
<1> QED
  BY <1>4, <1>5

(* Eviction cuts the front off. *)
LEMMA EvictCuts ==
  ASSUME NEW o, NEW n \in Nat, NEW r \in Seq(1..n)
  PROVE  \E i \in 1..(Len(r) + 1) : Evict(o, r) = From(r, i)
<1> DEFINE fits == {i \in 1..(Len(r) + 1) : Bytes(o, From(r, i)) <= RingLimit}
           first == CHOOSE i \in fits : \A j \in fits : i <= j
<1>1. Len(r) \in Nat
  BY LenProperties
<1>2. Len(r) + 1 \in fits
  <2>1. From(r, Len(r) + 1) = <<>>
    BY <1>1, SubSeqEmpty DEF From
  <2>2. 0 <= RingLimit
    BY PtyAssumption
  <2>3. Len(r) + 1 \in 1..(Len(r) + 1)
    BY <1>1
  <2> QED
    BY <2>1, <2>2, <2>3, NoBytes
<1>3. fits \in SUBSET Nat /\ fits # {}
  BY <1>1, <1>2
<1>4. \E i \in fits : \A j \in fits : i <= j
  <2> HIDE DEF fits
  <2> QED
    BY <1>3, LeastExists
<1>5. first \in fits
  <2> HIDE DEF fits
  <2> QED
    BY <1>4
<1>6. Evict(o, r) = From(r, first)
  BY DEF Evict
<1>7. first \in 1..(Len(r) + 1)
  <2> HIDE DEF first
  <2> QED
    BY <1>5
<1> HIDE DEF first
<1> QED
  BY <1>6, <1>7

(* A snapshot is nothing, or begins between sequences. *)
LEMMA SnapshotCuts ==
  ASSUME NEW o, NEW n \in Nat, NEW r \in Seq(1..n)
  PROVE  \/ Snapshot(o, r) = <<>>
         \/ \E i \in 1..Len(r) : Snapshot(o, r) = From(r, i) /\ o[r[i]].clean
<1> DEFINE clean == {i \in DOMAIN r : o[r[i]].clean}
           first == CHOOSE i \in clean : \A j \in clean : i <= j
<1>1. Len(r) \in Nat /\ DOMAIN r = 1..Len(r)
  BY LenProperties
<1>2. Snapshot(o, r) = IF clean = {} THEN <<>> ELSE From(r, first)
  BY DEF Snapshot
<1>3. clean \in SUBSET Nat
  BY <1>1
<1>4. ASSUME clean # {} PROVE first \in clean
  <2> HIDE DEF clean
  <2>1. \E i \in clean : \A j \in clean : i <= j
    BY <1>3, <1>4, LeastExists
  <2> QED
    BY <2>1
<1> HIDE DEF first
<1>5. ASSUME clean # {} PROVE first \in 1..Len(r) /\ o[r[first]].clean
  BY <1>1, <1>4, <1>5
<1> HIDE DEF clean
<1> QED
  BY <1>2, <1>5

(* push: the attachment a becomes b when e is offered: e is added, or        *)
(* dropped with the queue, unless it is empty or the attachment closed.      *)
Pushed(o, a, e, b) ==
  \/ b = a /\ (a.why # "open" \/ EntryBytes(o, e) = 0)
  \/ /\ a.why = "open" /\ EntryBytes(o, e) # 0
     /\ b.q = Append(a.q, e) /\ b.why = "open"
  \/ a.why = "open" /\ b.q = <<>> /\ b.why = "overflow"

(* Push does that. *)
LEMMA PushAdds ==
  ASSUME NEW o, NEW n, NEW a \in Attachment(n), NEW e \in Entries(n)
  PROVE  Push(o, a, e) \in Attachment(n) /\ Pushed(o, a, e, Push(o, a, e))
<1> DEFINE T == Entries(n)
<1>0. a \in [q : Seq(T), why : Reasons] /\ e \in T
  BY DEF Attachment
<1> HIDE DEF T
<1>1. Append(a.q, e) \in Seq(T) /\ <<>> \in Seq(T)
  BY <1>0, AppendProperties, EmptySeq
<1>2. CASE a.why # "open" \/ EntryBytes(o, e) = 0
  BY <1>0, <1>2 DEF Push, Pushed
<1>3. CASE a.why = "open" /\ EntryBytes(o, e) # 0 /\ Fits(o, a.q, e)
  <2> DEFINE b == [a EXCEPT !.q = Append(@, e)]
  <2>1. Push(o, a, e) = b
    BY <1>3 DEF Push
  <2>2. b.q = Append(a.q, e) /\ b.why = a.why
    BY <1>0
  <2>3. b \in [q : Seq(T), why : Reasons]
    BY <1>0, <1>1
  <2> HIDE DEF b
  <2> QED
    BY <1>3, <2>1, <2>2, <2>3 DEF Attachment, T, Pushed
<1>4. CASE a.why = "open" /\ EntryBytes(o, e) # 0 /\ ~Fits(o, a.q, e)
  <2>1. Push(o, a, e) = [q |-> <<>>, why |-> "overflow"]
    BY <1>4 DEF Push
  <2> QED
    BY <1>1, <1>4, <2>1 DEF Reasons, Attachment, T, Pushed
<1> QED
  BY <1>2, <1>3, <1>4

(* A chunk is never empty, no chunk and no mode is. *)
LEMMA ChunkNotEmpty ==
  ASSUME NEW o \in Seq(ChunkRow), NEW n \in 1..Len(o)
  PROVE  EntryBytes(o, Entry(NoPrelude, <<n>>)) # 0
<1>1. {m \in Modes : NoPrelude[m] # "same"} = {}
  BY DEF NoPrelude
<1>2. Cardinality({m \in Modes : NoPrelude[m] # "same"}) = 0
  BY <1>1, FS_EmptySet
<1>3. o[n] \in ChunkRow
  BY ElementOfSeq
<1>4. o[n].size \in Nat \ {0}
  BY <1>3 DEF ChunkRow
<1>5. Bytes(o, <<n>>) = o[n].size
  BY <1>4, BytesOfOne, LenProperties
<1>6. EntryBytes(o, Entry(NoPrelude, <<n>>)) =
        Bytes(o, <<n>>) + Cardinality({m \in Modes : NoPrelude[m] # "same"})
  BY DEF EntryBytes, Entry
<1> QED
  BY <1>2, <1>4, <1>5, <1>6

(* An entry without a run is empty when it sets nothing. *)
LEMMA PreludeBytes ==
  ASSUME NEW o, NEW s
  PROVE  EntryBytes(o, Entry(s, <<>>)) = 0 <=> \A m \in Modes : s[m] = "same"
<1> DEFINE M == {m \in Modes : s[m] # "same"}
<1>1. IsFiniteSet(M)
  BY PtyAssumption, FS_Subset
<1>2. Cardinality(M) \in Nat /\ (Cardinality(M) = 0 <=> M = {})
  <2> HIDE DEF M
  <2> QED
    BY <1>1, FS_CardinalityType, FS_EmptySet
<1>3. EntryBytes(o, Entry(s, <<>>)) = 0 + Cardinality(M)
  BY NoBytes DEF EntryBytes, Entry
<1>4. M = {} <=> \A m \in Modes : s[m] = "same"
  OBVIOUS
<1> HIDE DEF M
<1> QED
  BY <1>2, <1>3, <1>4

-----------------------------------------------------------------------------
(* What Attach seeds a queue with. *)

(* The replay is nothing, or a run from between two sequences to the last    *)
(* chunk.                                                                    *)
LEMMA ReplayRun ==
  ASSUME TypeOK, SessionRight
  PROVE  /\ Replay \in Seq(1..Len(out)) /\ Consecutive(Replay)
         /\ Replay # <<>> => /\ End(Replay) = Len(out) /\ out[Replay[1]].clean
                             /\ Replay[1] \in 1..Len(out)
<1>1. out \in Seq(ChunkRow)
  BY DEF TypeOK, ChunkRow
<1>2. Len(out) \in Nat /\ DOMAIN out = 1..Len(out)
  BY <1>1, LenProperties
<1>3. ring \in Seq(1..Len(out)) /\ Consecutive(ring)
      /\ (ring # <<>> => End(ring) = Len(out))
  BY <1>2 DEF TypeOK, SessionRight
<1>4. CASE Snapshot(out, ring) = <<>>
  BY <1>4, EmptySeq DEF Replay, Consecutive
<1>5. ASSUME NEW i \in 1..Len(ring), Snapshot(out, ring) = From(ring, i),
             out[ring[i]].clean
      PROVE  /\ Replay \in Seq(1..Len(out)) /\ Consecutive(Replay)
             /\ Replay # <<>> => /\ End(Replay) = Len(out) /\ out[Replay[1]].clean
                                 /\ Replay[1] \in 1..Len(out)
  <2>1. Len(ring) \in Nat
    BY <1>3, LenProperties
  <2>2. i \in 1..(Len(ring) + 1) /\ i # Len(ring) + 1 /\ ring # <<>>
    BY <2>1
  <2>3. /\ From(ring, i) \in Seq(1..Len(out)) /\ Consecutive(From(ring, i))
        /\ From(ring, i)[1] = ring[i] /\ End(From(ring, i)) = End(ring)
    BY <2>2, <1>2, <1>3, FromRun
  <2>4. ring[i] \in 1..Len(out)
    BY <1>3, ElementOfSeq
  <2> QED
    BY <2>2, <2>3, <2>4, <1>3, <1>5 DEF Replay
<1> QED
  BY <1>2, <1>3, <1>4, <1>5, SnapshotCuts

(* The terminal's modes once the prelude has come, or if there is none.      *)
LEMMA PreludeSets ==
  ASSUME TypeOK, SessionRight, NEW m \in Modes
  PROVE  /\ IF m \in Transient THEN Apply(Unset, Prelude)[m] = "unset"
            ELSE LastSet(out, m, Len(out), Apply(Unset, Prelude)[m])
         /\ Prelude[m] = "same" =>
              IF m \in Transient THEN Unset[m] = "unset"
              ELSE LastSet(out, m, Len(out), Unset[m])
<1>1. dec[m] \in Value \cup {"unset"} /\ LastSet(out, m, Len(out), dec[m])
  BY DEF TypeOK, SessionRight
<1>2. Prelude[m] = IF m \in Transient \/ dec[m] = "unset" THEN "same" ELSE dec[m]
  BY DEF Prelude
<1>3. Unset[m] = "unset"
  BY DEF Unset
<1>4. Apply(Unset, Prelude)[m] = IF Prelude[m] = "same" THEN Unset[m] ELSE Prelude[m]
  BY DEF Apply
<1>5. dec[m] # "same"
  BY <1>1 DEF Value
<1> HIDE DEF Prelude
<1> QED
  BY <1>1, <1>2, <1>3, <1>4, <1>5

(* A prelude sets modes. *)
LEMMA PreludeType ==
  ASSUME TypeOK PROVE Prelude \in [Modes -> Value \cup {"same"}]
BY DEF TypeOK, Prelude, Value

(* Both are entries. *)
LEMMA SeedEntries ==
  ASSUME TypeOK, SessionRight
  PROVE  /\ Entry(Prelude, <<>>) \in Entries(Len(out))
         /\ Entry(NoPrelude, Replay) \in Entries(Len(out))
<1>1. NoPrelude \in [Modes -> Value \cup {"same"}]
  BY DEF NoPrelude
<1>2. Replay \in Seq(1..Len(out))
  BY ReplayRun
<1> QED
  BY <1>1, <1>2, PreludeType, EmptySeq DEF Entry, Entries

(* The four queues an attachment may begin with. *)
LEMMA SeedShape ==
  ASSUME TypeOK, SessionRight, NEW q,
         \/ q = <<>>
         \/ q = <<Entry(Prelude, <<>>)>>
         \/ q = <<Entry(NoPrelude, Replay)>> /\ Replay # <<>>
         \/ q = <<Entry(Prelude, <<>>), Entry(NoPrelude, Replay)>> /\ Replay # <<>>
  PROVE  /\ q \in Seq(Entries(Len(out)))
         /\ Shape(out, <<>>, q, Len(out)) /\ Complete(out, <<>>, q, Len(out))
<1> DEFINE n == Len(out)
           p == Entry(Prelude, <<>>)
           s == Entry(NoPrelude, Replay)
<1>1. n \in Nat
  BY LenProperties DEF TypeOK
<1>2. /\ Replay \in Seq(1..n) /\ Consecutive(Replay)
      /\ Replay # <<>> => /\ End(Replay) = n /\ out[Replay[1]].clean
                          /\ Replay[1] \in 1..n
  BY ReplayRun
<1>3. p.run = <<>> /\ s.run = Replay /\ s.sets = NoPrelude
  BY DEF Entry
<1>4. p \in Entries(n) /\ s \in Entries(n)
  BY SeedEntries
<1>5. Replay # <<>> => StartOK(out, n, Replay)
  BY <1>1, <1>2 DEF StartOK
<1>6. Consecutive(<<>>)
  BY DEF Consecutive
<1> HIDE DEF n, p, s
<1>7. CASE q = <<>>
  <2>1. Len(q) = 0 /\ PieceOf(<<>>, q, 0) = <<>>
    BY <1>7 DEF PieceOf
  <2>2. Shape(out, <<>>, q, n)
    BY <2>1, <1>6 DEF Shape
  <2>3. Complete(out, <<>>, q, n)
    BY <2>1 DEF Complete, n
  <2> QED
    BY <1>7, <2>2, <2>3, EmptySeq DEF n
<1>8. CASE q = <<p>>
  <2>1. Len(q) = 1 /\ q[1] = p /\ 0..1 = {0, 1} /\ 1..1 = {1} /\ 0..(1-1) = {0}
    BY <1>8
  <2>2. PieceOf(<<>>, q, 0) = <<>> /\ PieceOf(<<>>, q, 1) = <<>>
    BY <2>1, <1>3 DEF PieceOf
  <2>3. Shape(out, <<>>, q, n)
    BY <2>1, <2>2, <1>3, <1>6 DEF Shape
  <2>4. Complete(out, <<>>, q, n)
    BY <2>1, <2>2 DEF Complete, n
  <2> QED
    BY <1>4, <1>8, <2>3, <2>4 DEF n
<1>9. CASE q = <<s>> /\ Replay # <<>>
  <2>1. Len(q) = 1 /\ q[1] = s /\ 0..1 = {0, 1} /\ 1..1 = {1} /\ 0..(1-1) = {0}
    BY <1>9
  <2>2. PieceOf(<<>>, q, 0) = <<>> /\ PieceOf(<<>>, q, 1) = Replay
    BY <2>1, <1>3 DEF PieceOf
  <2>3. Shape(out, <<>>, q, n)
    BY <2>1, <2>2, <1>2, <1>3, <1>5, <1>6, <1>9 DEF Shape
  <2>4. Complete(out, <<>>, q, n)
    BY <2>1, <2>2, <1>2, <1>9 DEF Complete, n
  <2> QED
    BY <1>4, <1>9, <2>3, <2>4 DEF n
<1>10. CASE q = <<p, s>> /\ Replay # <<>>
  <2>1. Len(q) = 2 /\ q[1] = p /\ q[2] = s /\ 0..2 = {0, 1, 2} /\ 1..2 = {1, 2}
        /\ 0..(2-1) = {0, 1}
    BY <1>10
  <2>2. PieceOf(<<>>, q, 0) = <<>> /\ PieceOf(<<>>, q, 1) = <<>>
        /\ PieceOf(<<>>, q, 2) = Replay
    BY <2>1, <1>3 DEF PieceOf
  <2>3. Shape(out, <<>>, q, n)
    BY <2>1, <2>2, <1>2, <1>3, <1>5, <1>6, <1>10 DEF Shape
  <2>4. Complete(out, <<>>, q, n)
    BY <2>1, <2>2, <1>2, <1>10 DEF Complete, n
  <2> QED
    BY <1>4, <1>10, <2>3, <2>4 DEF n
<1> QED
  BY <1>7, <1>8, <1>9, <1>10 DEF p, s, n

(* Attach: the queue is one of those, or has overflowed. *)
LEMMA AttachSeeds ==
  ASSUME TypeOK, SessionRight
  PROVE  LET fresh == [q |-> <<>>, why |-> "open"]
             a == Push(out, Push(out, fresh, Entry(Prelude, <<>>)),
                       Entry(NoPrelude, Replay))
         IN  /\ a.q \in Seq(Entries(Len(out))) /\ a.why \in {"open", "overflow"}
             /\ Shape(out, <<>>, a.q, Len(out))
             /\ a.why = "open" => /\ Complete(out, <<>>, a.q, Len(out))
                                  /\ TermOK(out, <<>>, a.q, Len(out), Unset)
<1> DEFINE p == Entry(Prelude, <<>>)
           s == Entry(NoPrelude, Replay)
           fresh == [q |-> <<>>, why |-> "open"]
           a1 == Push(out, fresh, p)
           a == Push(out, a1, s)
           bare == \A m \in Modes : Prelude[m] = "same"
           T == Entries(Len(out))
<1>1. EntryBytes(out, p) = 0 => bare
  BY PreludeBytes
<1>2. EntryBytes(out, s) # 0 => Replay # <<>>
  <2>1. \A m \in Modes : NoPrelude[m] = "same"
    BY DEF NoPrelude
  <2> QED
    BY <2>1, PreludeBytes
<1>3. p.run = <<>> /\ p.sets = Prelude /\ s.run = Replay
  BY DEF Entry
<1>4. p \in T /\ s \in T
  BY SeedEntries
<1> HIDE DEF p, s, T, bare
<1>5. fresh \in Attachment(Len(out)) /\ fresh.q = <<>> /\ fresh.why = "open"
  <2>1. <<>> \in Seq(T)
    BY EmptySeq
  <2> QED
    BY <2>1 DEF Reasons, Attachment, T
<1>6. Append(<<>>, p) = <<p>> /\ Append(<<>>, s) = <<s>> /\ Append(<<p>>, s) = <<p, s>>
  <2>1. ASSUME NEW x PROVE Append(<<>>, x) = <<x>>
    OBVIOUS
  <2>2. ASSUME NEW x, NEW y PROVE Append(<<x>>, y) = <<x, y>>
    <3>1. <<x>> \in Seq({x, y}) /\ <<x, y>> \in Seq({x, y}) /\ Len(<<x>>) = 1
          /\ Len(<<x, y>>) = 2
      OBVIOUS
    <3>2. Append(<<x>>, y) \in Seq({x, y}) /\ Len(Append(<<x>>, y)) = 1 + 1
          /\ Append(<<x>>, y)[1] = <<x>>[1] /\ Append(<<x>>, y)[1 + 1] = y
      BY <3>1, AppendProperties
    <3>3. \A i \in 1..2 : Append(<<x>>, y)[i] = <<x, y>>[i]
      BY <3>2
    <3> DEFINE u == Append(<<x>>, y)
               v == <<x, y>>
    <3>4. PICK S : S = {x, y}
      OBVIOUS
    <3>5. u \in Seq(S) /\ v \in Seq(S) /\ Len(u) = Len(v) /\ Len(u) = 2
      BY <3>1, <3>2, <3>4
    <3>6. \A i \in 1..2 : u[i] = v[i]
      BY <3>3
    <3> HIDE DEF u, v
    <3>7. u = v
      BY <3>5, <3>6, SeqEqual
    <3> QED
      BY <3>7 DEF u, v
  <2> QED
    BY <2>1, <2>2
<1> HIDE DEF fresh
<1>7. /\ a1 \in Attachment(Len(out))
      /\ \/ a1.q = <<>> /\ a1.why = "open" /\ bare
         \/ a1.q = <<p>> /\ a1.why = "open"
         \/ a1.q = <<>> /\ a1.why = "overflow"
  <2>1. a1 \in Attachment(Len(out)) /\ Pushed(out, fresh, p, a1)
    BY <1>4, <1>5, PushAdds DEF T
  <2> HIDE DEF a1
  <2> QED
    BY <2>1, <1>1, <1>5, <1>6 DEF Pushed
<1> HIDE DEF a1
<1>8. \/ a.why = "overflow" /\ a.q = <<>>
      \/ a.why = "open" /\ a.q = <<>> /\ bare
      \/ a.why = "open" /\ a.q = <<p>>
      \/ a.why = "open" /\ a.q = <<s>> /\ bare /\ Replay # <<>>
      \/ a.why = "open" /\ a.q = <<p, s>> /\ Replay # <<>>
  <2>1. Pushed(out, a1, s, a)
    BY <1>4, <1>7, PushAdds DEF T
  <2> HIDE DEF a
  <2> QED
    BY <2>1, <1>2, <1>6, <1>7 DEF Pushed
<1> HIDE DEF a
<1>9. /\ a.q \in Seq(Entries(Len(out)))
      /\ Shape(out, <<>>, a.q, Len(out)) /\ Complete(out, <<>>, a.q, Len(out))
  BY <1>8, SeedShape DEF p, s
<1>10. ASSUME a.why = "open" PROVE TermOK(out, <<>>, a.q, Len(out), Unset)
  <2>1. \/ Prepared(a.q, Unset) = Unset /\ bare
        \/ Prepared(a.q, Unset) = Apply(Unset, Prelude)
    <3>1. CASE a.q = <<>> /\ bare
      BY <3>1 DEF Prepared
    <3>2. CASE a.q = <<p>>
      BY <3>2, <1>3 DEF Prepared
    <3>3. CASE a.q = <<s>> /\ bare /\ Replay # <<>>
      BY <3>3, <1>3 DEF Prepared
    <3>4. CASE a.q = <<p, s>>
      BY <3>4, <1>3 DEF Prepared
    <3> QED
      BY <1>8, <1>10, <3>1, <3>2, <3>3, <3>4
  <2>2. ASSUME NEW m \in Modes
        PROVE  IF m \in Transient THEN Prepared(a.q, Unset)[m] = "unset"
               ELSE LastSet(out, m, Len(out), Prepared(a.q, Unset)[m])
    BY <2>1, PreludeSets DEF bare
  <2> QED
    BY <2>2 DEF TermOK
<1> QED
  BY <1>8, <1>9, <1>10 DEF a, a1, p, s, fresh

-----------------------------------------------------------------------------
(* The steps of one client. *)

(* What the types say of a client. *)
LEMMA ClientTypes ==
  ASSUME TypeOK, NEW c \in Clients
  PROVE  /\ out \in Seq(ChunkRow) /\ Len(out) \in Nat
         /\ queue[c] \in Seq(Entries(Len(out))) /\ got[c] \in Seq(1..Len(out))
         /\ joined[c] \in 0..Len(out) /\ term[c] \in [Modes -> Value \cup {"unset"}]
         /\ closed[c] \in Reasons /\ handler[c] \in {"none", "attached", "reading", "waiting"}
         /\ pump[c] \in {"none", "on", "done"} /\ told[c] \in BOOLEAN
<1>1. out \in Seq(ChunkRow)
  BY DEF TypeOK, ChunkRow
<1>2. Len(out) \in Nat
  BY <1>1, LenProperties
<1>3. queue[c] \in Seq(Entries(Len(out)))
  BY DEF TypeOK, Entries
<1> QED
  BY <1>1, <1>2, <1>3 DEF TypeOK, Reasons

(* A step leaves client d alone. *)
Alone(d) ==
  /\ (d \in attached') = (d \in attached)
  /\ queue'[d] = queue[d] /\ closed'[d] = closed[d] /\ handler'[d] = handler[d]
  /\ pump'[d] = pump[d] /\ joined'[d] = joined[d] /\ got'[d] = got[d]
  /\ term'[d] = term[d] /\ told'[d] = told[d]

(* A step of one client disturbs what is said of that client only. *)
LEMMA OneClient ==
  ASSUME PtyInv, TypeOK', NEW c \in Clients, UNCHANGED sessionVars,
         \A d \in Clients \ {c} : Alone(d),
         Matched(c)', Served(c)', ToldAll(c)'
  PROVE  PtyInv'
<1>1. /\ out' = out /\ ring' = ring /\ dec' = dec /\ phase' = phase
      /\ ground' = ground
  BY DEF sessionVars
<1>2. SessionRight'
  BY <1>1 DEF PtyInv, SessionRight
<1>3. ASSUME NEW d \in Clients, d # c
      PROVE  Matched(d)' /\ Served(d)' /\ ToldAll(d)'
  <2>1. Matched(d) /\ Served(d) /\ ToldAll(d)
    BY DEF PtyInv
  <2>2. Alone(d)
    BY <1>3
  <2>3. Matched(d)'
    BY <2>1, <2>2, <1>1 DEF Alone, Matched
  <2>4. Served(d)'
    BY <2>1, <2>2, <1>1 DEF Alone, Served, Feeding
  <2>5. ToldAll(d)'
    BY <2>1, <2>2, <1>1 DEF Alone, ToldAll
  <2> QED
    BY <2>3, <2>4, <2>5
<1> QED
  BY <1>2, <1>3 DEF PtyInv

(* The invariant holds at first. *)
LEMMA InitInv == Init => PtyInv
<1> SUFFICES ASSUME Init PROVE PtyInv
  OBVIOUS
<1>1. TypeOK
  <2>1. <<>> \in Seq([size : Nat \ {0}, clean : BOOLEAN,
                      sets : [Modes -> Value \cup {"same"}], ends : Places])
        /\ Len(<<>>) = 0 /\ <<>> \in Seq(1..0)
        /\ <<>> \in Seq([sets : [Modes -> Value \cup {"same"}], run : Seq(1..0)])
    BY EmptySeq
  <2>2. Unset \in [Modes -> Value \cup {"unset"}]
    BY DEF Unset
  <2> QED
    BY <2>1, <2>2 DEF Init, TypeOK
<1>2. SessionRight
  <2>1. Consecutive(<<>>)
    BY DEF Consecutive
  <2>2. ASSUME NEW m \in Modes PROVE LastSet(out, m, Len(out), dec[m])
    <3>1. dec[m] = "unset" /\ Len(out) = 0
      BY DEF Init, Unset
    <3> QED
      BY <3>1 DEF LastSet
  <2>3. FlagsRight(out, ground)
    BY DEF Init, FlagsRight
  <2> QED
    BY <2>1, <2>2, <2>3 DEF Init, SessionRight
<1>3. ASSUME NEW c \in Clients PROVE Matched(c) /\ Served(c) /\ ToldAll(c)
  BY DEF Init, Matched, Served, Feeding, ToldAll
<1> QED
  BY <1>1, <1>2, <1>3 DEF PtyInv

(* Attach: the new attachment has its replay and reaches the last chunk. *)
LEMMA AttachStep ==
  ASSUME PtyInv, NEW c \in Clients, Attach(c)
  PROVE  PtyInv'
<1> DEFINE fresh == [q |-> <<>>, why |-> "open"]
           a == Push(out, Push(out, fresh, Entry(Prelude, <<>>)),
                     Entry(NoPrelude, Replay))
<1>1. /\ a.q \in Seq(Entries(Len(out))) /\ a.why \in {"open", "overflow"}
      /\ Shape(out, <<>>, a.q, Len(out))
      /\ a.why = "open" => /\ Complete(out, <<>>, a.q, Len(out))
                           /\ TermOK(out, <<>>, a.q, Len(out), Unset)
  BY AttachSeeds DEF PtyInv
<1>2. /\ handler[c] = "none" /\ phase # "exited"
      /\ attached' = attached \cup {c}
      /\ queue' = [queue EXCEPT ![c] = a.q]
      /\ closed' = [closed EXCEPT ![c] = a.why]
      /\ handler' = [handler EXCEPT ![c] = "attached"]
      /\ stream' = [stream EXCEPT ![c] = "up"]
      /\ joined' = [joined EXCEPT ![c] = Len(out)]
      /\ UNCHANGED <<sessionVars, pump, got, term, told>>
  BY DEF Attach
<1> HIDE DEF a
<1>3. TypeOK
  BY DEF PtyInv
<1>4. Len(out) \in Nat
  BY <1>3, ClientTypes
<1>5. UNCHANGED sessionVars /\ out' = out /\ ring' = ring /\ phase' = phase
      /\ ground' = ground /\ dec' = dec /\ pump' = pump /\ got' = got /\ term' = term
      /\ told' = told
  BY <1>2 DEF sessionVars
<1>6. TypeOK'
  <2>1. queue' \in [Clients -> Seq([sets : [Modes -> Value \cup {"same"}],
                                    run : Seq(1..Len(out))])]
    BY <1>1, <1>2, <1>3 DEF TypeOK, Entries
  <2>2. closed' \in [Clients -> {"open", "ended", "detached", "overflow"}]
    BY <1>1, <1>2, <1>3 DEF TypeOK
  <2>3. joined' \in [Clients -> 0..Len(out)]
    BY <1>2, <1>3, <1>4 DEF TypeOK
  <2>4. attached' \subseteq Clients
        /\ handler' \in [Clients -> {"none", "attached", "reading", "waiting"}]
        /\ stream' \in [Clients -> {"up", "stuck", "down"}]
    BY <1>2, <1>3 DEF TypeOK
  <2> QED
    BY <2>1, <2>2, <2>3, <2>4, <1>3, <1>5 DEF TypeOK
<1>7. /\ c \in attached' /\ queue'[c] = a.q /\ closed'[c] = a.why
      /\ handler'[c] = "attached" /\ joined'[c] = Len(out)
  BY <1>2, <1>3 DEF TypeOK
<1>8. \A d \in Clients \ {c} : Alone(d)
  BY <1>2, <1>3, <1>5 DEF TypeOK, Alone
<1>9. pump[c] = "none" /\ got[c] = <<>> /\ term[c] = Unset /\ ~told[c]
  BY <1>2 DEF PtyInv, Matched
<1>10. Matched(c)' /\ ToldAll(c)'
  BY <1>1, <1>5, <1>7, <1>9 DEF Matched, ToldAll
<1>11. Served(c)'
  BY <1>1, <1>5, <1>7, <1>9 DEF Served
<1> QED
  BY <1>5, <1>6, <1>8, <1>10, <1>11, OneClient

(* A handler that returns leaves nothing behind. *)
LEMMA ForgetStep ==
  ASSUME PtyInv, NEW c \in Clients, Forget(c), attached' = attached \ {c},
         UNCHANGED <<sessionVars, stream>>
  PROVE  PtyInv'
<1>1. TypeOK
  BY DEF PtyInv
<1>2. UNCHANGED sessionVars /\ out' = out /\ ring' = ring /\ phase' = phase
      /\ ground' = ground /\ dec' = dec /\ stream' = stream
  BY DEF sessionVars
<1>3. /\ handler' = [handler EXCEPT ![c] = "none"]
      /\ pump' = [pump EXCEPT ![c] = "none"]
      /\ queue' = [queue EXCEPT ![c] = <<>>]
      /\ closed' = [closed EXCEPT ![c] = "open"]
      /\ joined' = [joined EXCEPT ![c] = 0]
      /\ got' = [got EXCEPT ![c] = <<>>]
      /\ term' = [term EXCEPT ![c] = Unset]
      /\ told' = [told EXCEPT ![c] = FALSE]
  BY DEF Forget
<1>4. Len(out) \in Nat
  BY <1>1, ClientTypes
<1>5. TypeOK'
  <2>1. queue' \in [Clients -> Seq([sets : [Modes -> Value \cup {"same"}],
                                    run : Seq(1..Len(out))])]
    BY <1>1, <1>3, EmptySeq DEF TypeOK
  <2>2. got' \in [Clients -> Seq(1..Len(out))]
    BY <1>1, <1>3, EmptySeq DEF TypeOK
  <2>3. joined' \in [Clients -> 0..Len(out)]
    BY <1>1, <1>3, <1>4 DEF TypeOK
  <2>4. term' \in [Clients -> [Modes -> Value \cup {"unset"}]]
    BY <1>1, <1>3 DEF TypeOK, Unset
  <2>5. attached' \subseteq Clients
        /\ handler' \in [Clients -> {"none", "attached", "reading", "waiting"}]
        /\ pump' \in [Clients -> {"none", "on", "done"}]
        /\ closed' \in [Clients -> {"open", "ended", "detached", "overflow"}]
        /\ told' \in [Clients -> BOOLEAN]
    BY <1>1, <1>3 DEF TypeOK
  <2> QED
    BY <2>1, <2>2, <2>3, <2>4, <2>5, <1>1, <1>2 DEF TypeOK
<1>6. /\ c \notin attached' /\ handler'[c] = "none" /\ pump'[c] = "none"
      /\ closed'[c] = "open" /\ got'[c] = <<>> /\ term'[c] = Unset /\ told'[c] = FALSE
  BY <1>1, <1>3 DEF TypeOK
<1>7. \A d \in Clients \ {c} : Alone(d)
  BY <1>1, <1>3 DEF TypeOK, Alone
<1>8. Matched(c)' /\ Served(c)' /\ ToldAll(c)'
  BY <1>6 DEF Matched, Served, Feeding, ToldAll
<1> QED
  BY <1>2, <1>5, <1>7, <1>8, OneClient

(* The answer: the pump starts, or the handler returns. *)
LEMMA AnswerStep ==
  ASSUME PtyInv, NEW c \in Clients, Answer(c)
  PROVE  PtyInv'
<1>1. CASE stream[c] = "up"
  <2>1. TypeOK /\ Matched(c) /\ Served(c) /\ ToldAll(c)
    BY DEF PtyInv
  <2>2. /\ handler[c] = "attached"
        /\ handler' = [handler EXCEPT ![c] = "reading"]
        /\ pump' = [pump EXCEPT ![c] = "on"]
        /\ UNCHANGED <<attached, closed, queue, joined, got, term, told, stream>>
        /\ UNCHANGED sessionVars
    BY <1>1 DEF Answer
  <2>3. out' = out /\ ring' = ring /\ phase' = phase /\ ground' = ground /\ dec' = dec
    BY <2>2 DEF sessionVars
  <2>4. TypeOK'
    BY <2>1, <2>2, <2>3 DEF TypeOK
  <2>5. handler'[c] = "reading" /\ pump'[c] = "on"
    BY <2>1, <2>2 DEF TypeOK
  <2>6. \A d \in Clients \ {c} : Alone(d)
    BY <2>1, <2>2 DEF TypeOK, Alone
  <2>7. Matched(c)' /\ ToldAll(c)'
    BY <2>1, <2>2, <2>3, <2>5 DEF Matched, ToldAll
  <2>8. Served(c)'
    BY <2>1, <2>2, <2>3, <2>5 DEF Served, Feeding
  <2> QED
    BY <2>2, <2>4, <2>6, <2>7, <2>8, OneClient
<1>2. CASE stream[c] # "up"
  BY <1>2, ForgetStep DEF Answer
<1> QED
  BY <1>1, <1>2

(* The handler ends once it is off the list. *)
LEMMA HandlerEndsStep ==
  ASSUME PtyInv, NEW c \in Clients, HandlerEnds(c)
  PROVE  PtyInv'
<1>1. c \notin attached
  BY DEF PtyInv, Matched, HandlerEnds
<1>2. attached' = attached \ {c}
  BY <1>1 DEF HandlerEnds
<1> QED
  BY <1>2, ForgetStep DEF HandlerEnds

(* A client that stops reading, reads again or goes away changes nothing but *)
(* the stream.                                                               *)
LEMMA StreamStep ==
  ASSUME PtyInv, NEW c \in Clients, Stall(c) \/ Resume(c) \/ ClientLeaves(c)
  PROVE  PtyInv'
<1>1. TypeOK
  BY DEF PtyInv
<1>2. /\ \E x \in {"up", "stuck", "down"} : stream' = [stream EXCEPT ![c] = x]
      /\ UNCHANGED <<sessionVars, attached, queue, closed, handler, pump, joined,
                     got, term, told>>
  BY DEF Stall, Resume, ClientLeaves
<1>3. UNCHANGED sessionVars /\ out' = out /\ ring' = ring /\ phase' = phase
      /\ ground' = ground /\ dec' = dec
  BY <1>2 DEF sessionVars
<1>4. TypeOK'
  BY <1>1, <1>2, <1>3 DEF TypeOK
<1>5. \A d \in Clients : Alone(d)
  BY <1>2 DEF Alone
<1>6. Matched(c)' /\ Served(c)' /\ ToldAll(c)'
  BY <1>2, <1>3 DEF PtyInv, Matched, Served, Feeding, ToldAll
<1> QED
  BY <1>3, <1>4, <1>5, <1>6, OneClient

(* A detached attachment keeps its queue. *)
LEMMA ReadFrameFailsStep ==
  ASSUME PtyInv, NEW c \in Clients, ReadFrameFails(c)
  PROVE  PtyInv'
<1>1. TypeOK /\ Matched(c) /\ Served(c) /\ ToldAll(c)
  BY DEF PtyInv
<1>2. /\ handler[c] = "reading"
      /\ handler' = [handler EXCEPT ![c] = "waiting"]
      /\ attached' = attached \ {c}
      /\ closed' = [closed EXCEPT ![c] = IF @ = "open" THEN "detached" ELSE @]
      /\ UNCHANGED <<sessionVars, queue, pump, stream, joined, got, term, told>>
  BY DEF ReadFrameFails, Detach, Detached
<1>3. UNCHANGED sessionVars /\ out' = out /\ ring' = ring /\ phase' = phase
      /\ ground' = ground /\ dec' = dec
  BY <1>2 DEF sessionVars
<1>4. TypeOK'
  <2>1. closed' \in [Clients -> {"open", "ended", "detached", "overflow"}]
    BY <1>1, <1>2 DEF TypeOK
  <2> QED
    BY <2>1, <1>1, <1>2, <1>3 DEF TypeOK
<1>5. /\ handler'[c] = "waiting" /\ c \notin attached'
      /\ closed'[c] = IF closed[c] = "open" THEN "detached" ELSE closed[c]
  BY <1>1, <1>2 DEF TypeOK
<1>6. \A d \in Clients \ {c} : Alone(d)
  BY <1>1, <1>2 DEF TypeOK, Alone
<1>7. Matched(c)' /\ ToldAll(c)'
  BY <1>1, <1>2, <1>3, <1>5 DEF Matched, ToldAll
<1>8. Served(c)'
  BY <1>1, <1>2, <1>3, <1>5 DEF Served, Feeding
<1> QED
  BY <1>3, <1>4, <1>6, <1>7, <1>8, OneClient

(* A terminal's modes after an entry. *)
LEMMA FeedType ==
  ASSUME NEW o \in Seq(ChunkRow), NEW g, NEW t \in [Modes -> Value \cup {"unset"}],
         NEW e \in Entries(Len(o))
  PROVE  FeedOf(o, g, t, e) \in [Modes -> Value \cup {"unset"}]
<1>1. e.sets \in [Modes -> Value \cup {"same"}] /\ e.run \in Seq(1..Len(o))
      /\ Len(o) \in Nat
  BY LenProperties DEF Entries
<1>2. \A i \in 1..Len(o) : o[i].sets \in [Modes -> Value \cup {"same"}]
  <2>1. ASSUME NEW i \in 1..Len(o) PROVE o[i] \in ChunkRow
    BY ElementOfSeq
  <2> QED
    BY <2>1 DEF ChunkRow
<1>3. ASSUME NEW m \in Modes PROVE FeedOf(o, g, t, e)[m] \in Value \cup {"unset"}
  <2> DEFINE S == SettersOf(o, g, e.run, m)
             i == CHOOSE x \in S : \A y \in S : y <= x
  <2>1. CASE S = {}
    <3>1. FeedOf(o, g, t, e)[m] = Apply(t, e.sets)[m]
      BY <2>1 DEF FeedOf
    <3> QED
      BY <3>1, <1>1 DEF Apply
  <2>2. CASE S # {}
    <3>1. FeedOf(o, g, t, e)[m] = o[e.run[i]].sets[m]
      BY <2>2 DEF FeedOf
    <3>2. Len(e.run) \in Nat /\ DOMAIN e.run = 1..Len(e.run)
      BY <1>1, LenProperties
    <3>3. S \in SUBSET (1..Len(e.run))
      BY <3>2 DEF SettersOf
    <3> HIDE DEF S
    <3>4. i \in S
      BY <2>2, <3>2, <3>3, GreatestExists
    <3>5. i \in 1..Len(e.run) /\ o[e.run[i]].sets[m] # "same"
      BY <3>3, <3>4 DEF S, SettersOf
    <3> HIDE DEF i
    <3>6. e.run[i] \in 1..Len(o)
      BY <3>5, <1>1, ElementOfSeq
    <3> QED
      BY <3>1, <3>5, <3>6, <1>2
  <2> QED
    BY <2>1, <2>2
<1>4. FeedOf(o, g, t, e) = [m \in Modes |-> FeedOf(o, g, t, e)[m]]
  BY DEF FeedOf
<1> QED
  BY <1>3, <1>4

(* The pump takes an entry. *)
LEMMA NextStep ==
  ASSUME PtyInv, NEW c \in Clients, Next_(c)
  PROVE  PtyInv'
<1> DEFINE h == Head(queue[c])
<1>1. TypeOK /\ Matched(c) /\ Served(c) /\ ToldAll(c)
  BY DEF PtyInv
<1>2. /\ pump[c] = "on" /\ queue[c] # <<>>
      /\ queue' = [queue EXCEPT ![c] = Tail(@)]
      /\ UNCHANGED <<sessionVars, attached, closed, handler, stream, joined, told>>
  BY DEF Next_
<1>3. UNCHANGED sessionVars /\ out' = out /\ ring' = ring /\ phase' = phase
      /\ ground' = ground /\ dec' = dec
  BY <1>2 DEF sessionVars
<1>4. /\ out \in Seq(ChunkRow) /\ Len(out) \in Nat
      /\ queue[c] \in Seq(Entries(Len(out))) /\ got[c] \in Seq(1..Len(out))
      /\ joined[c] \in 0..Len(out) /\ term[c] \in [Modes -> Value \cup {"unset"}]
  BY <1>1, ClientTypes
<1>5. h \in Entries(Len(out)) /\ Tail(queue[c]) \in Seq(Entries(Len(out)))
  BY <1>2, <1>4, HeadTailProperties
<1>6. queue' \in [Clients -> Seq([sets : [Modes -> Value \cup {"same"}],
                                  run : Seq(1..Len(out))])]
  BY <1>1, <1>2, <1>5 DEF TypeOK, Entries
<1>7. queue'[c] = Tail(queue[c]) /\ \A d \in Clients \ {c} : queue'[d] = queue[d]
  BY <1>1, <1>2 DEF TypeOK
<1>8. handler[c] \notin {"none", "attached"} /\ Feeding(c) /\ ~told[c]
  BY <1>1, <1>2, ClientTypes DEF Matched, Feeding, ToldAll
<1>9. CASE stream[c] = "up"
  <2>1. /\ got' = [got EXCEPT ![c] = @ \o h.run]
        /\ term' = [term EXCEPT ![c] = FeedOf(out, got[c], term[c], h)]
        /\ pump' = pump
    BY <1>9, FeedIsFeedOf DEF Next_
  <2>2. h.run \in Seq(1..Len(out))
    BY <1>5 DEF Entries
  <2>3. got[c] \o h.run \in Seq(1..Len(out))
    BY <2>2, <1>4, ConcatProperties
  <2>4. FeedOf(out, got[c], term[c], h) \in [Modes -> Value \cup {"unset"}]
    BY <1>4, <1>5, FeedType
  <2>5. got'[c] = got[c] \o h.run /\ term'[c] = FeedOf(out, got[c], term[c], h)
        /\ \A d \in Clients \ {c} : got'[d] = got[d] /\ term'[d] = term[d]
    BY <1>1, <2>1 DEF TypeOK
  <2>6. TypeOK'
    <3>1. got' \in [Clients -> Seq(1..Len(out))]
      BY <1>1, <2>1, <2>3 DEF TypeOK
    <3>2. term' \in [Clients -> [Modes -> Value \cup {"unset"}]]
      BY <1>1, <2>1, <2>4 DEF TypeOK
    <3> QED
      BY <3>1, <3>2, <2>1, <1>1, <1>2, <1>3, <1>6 DEF TypeOK
  <2>7. \A d \in Clients \ {c} : Alone(d)
    BY <1>2, <1>7, <2>1, <2>5 DEF Alone
  <2>8. Matched(c)' /\ ToldAll(c)'
    BY <1>1, <1>2, <1>3, <1>8, <2>1 DEF Matched, ToldAll
  <2>9. joined[c] \in Nat
    BY <1>4
  <2>10. Shape(out, got[c], queue[c], joined[c])
    BY <1>1, <1>8 DEF Served
  <2>11. /\ Shape(out, got[c] \o h.run, Tail(queue[c]), joined[c])
         /\ Complete(out, got[c], queue[c], joined[c])
              => Complete(out, got[c] \o h.run, Tail(queue[c]), joined[c])
    BY <1>2, <1>4, <2>9, <2>10, ShapeNext
  <2>12. TermOK(out, got[c], queue[c], joined[c], term[c]) =>
           TermOK(out, got[c] \o h.run, Tail(queue[c]), joined[c],
                  FeedOf(out, got[c], term[c], h))
    BY <1>2, <1>4, <2>10, TermNext
  <2>13. closed' = closed /\ joined' = joined
    BY <1>2
  <2>14. Served(c)'
    <3>1. Shape(out, got[c], queue[c], joined[c])'
      BY <1>3, <1>7, <2>5, <2>11, <2>13
    <3>2. closed'[c] \in {"open", "ended"} => Complete(out, got[c], queue[c], joined[c])'
      BY <1>1, <1>3, <1>7, <1>8, <2>5, <2>11, <2>13 DEF Served
    <3>3. closed'[c] = "open" => TermOK(out, got[c], queue[c], joined[c], term[c])'
      BY <1>1, <1>3, <1>7, <1>8, <2>5, <2>12, <2>13 DEF Served
    <3> QED
      BY <3>1, <3>2, <3>3 DEF Served
  <2> QED
    BY <1>3, <2>6, <2>7, <2>8, <2>14, OneClient
<1>10. CASE stream[c] # "up"
  <2>1. pump' = [pump EXCEPT ![c] = "done"] /\ got' = got /\ term' = term
    BY <1>10 DEF Next_
  <2>2. pump'[c] = "done" /\ \A d \in Clients \ {c} : pump'[d] = pump[d]
    BY <1>1, <2>1 DEF TypeOK
  <2>3. TypeOK'
    BY <1>1, <1>2, <1>3, <1>6, <2>1 DEF TypeOK
  <2>4. \A d \in Clients \ {c} : Alone(d)
    BY <1>2, <1>7, <2>1, <2>2 DEF Alone
  <2>5. Matched(c)' /\ ToldAll(c)'
    BY <1>1, <1>2, <1>3, <1>8, <2>1 DEF Matched, ToldAll
  <2>6. Served(c)'
    BY <1>2, <1>8, <2>2 DEF Served, Feeding
  <2> QED
    BY <1>3, <2>3, <2>4, <2>5, <2>6, OneClient
<1> QED
  BY <1>9, <1>10

(* The pump ends: who is told has everything. *)
LEMMA PumpEndsStep ==
  ASSUME PtyInv, NEW c \in Clients, PumpEnds(c)
  PROVE  PtyInv'
<1>1. TypeOK /\ Matched(c) /\ Served(c) /\ ToldAll(c)
  BY DEF PtyInv
<1>2. /\ pump[c] = "on" /\ queue[c] = <<>> /\ closed[c] # "open"
      /\ told' = [told EXCEPT ![c] = closed[c] = "ended" /\ stream[c] = "up"]
      /\ stream' = [stream EXCEPT ![c] = "down"]
      /\ pump' = [pump EXCEPT ![c] = "done"]
      /\ UNCHANGED <<sessionVars, attached, queue, closed, handler, joined, got, term>>
  BY DEF PumpEnds, Drained
<1>3. UNCHANGED sessionVars /\ out' = out /\ ring' = ring /\ phase' = phase
      /\ ground' = ground /\ dec' = dec
  BY <1>2 DEF sessionVars
<1>4. told' \in [Clients -> BOOLEAN] /\ told'[c] = (closed[c] = "ended" /\ stream[c] = "up")
      /\ \A d \in Clients \ {c} : told'[d] = told[d]
  BY <1>1, <1>2, Zenon DEF TypeOK
<1>5. pump'[c] = "done" /\ \A d \in Clients \ {c} : pump'[d] = pump[d]
  BY <1>1, <1>2 DEF TypeOK
<1>6. TypeOK'
  <2>1. /\ stream' \in [Clients -> {"up", "stuck", "down"}]
        /\ pump' \in [Clients -> {"none", "on", "done"}]
    BY <1>1, <1>2 DEF TypeOK
  <2> QED
    BY <2>1, <1>1, <1>2, <1>3, <1>4 DEF TypeOK
<1>7. \A d \in Clients \ {c} : Alone(d)
  BY <1>2, <1>4, <1>5 DEF Alone
<1>8. handler[c] \notin {"none", "attached"} /\ Feeding(c)
  BY <1>1, <1>2, ClientTypes DEF Matched, Feeding
<1>9. Matched(c)' /\ Served(c)'
  BY <1>1, <1>2, <1>3, <1>5, <1>8 DEF Matched, Served, Feeding
<1>10. closed[c] = "ended" =>
         phase = "exited" /\ Complete(out, got[c], <<>>, joined[c])
  BY <1>1, <1>2, <1>8 DEF Matched, Served
<1>11. ToldAll(c)'
  BY <1>2, <1>3, <1>4, <1>5, <1>10 DEF ToldAll
<1> QED
  BY <1>3, <1>6, <1>7, <1>9, <1>11, OneClient

-----------------------------------------------------------------------------
(* The steps of the session. *)

(* The read fails: nobody was told anything yet. *)
LEMMA ReadFailsStep ==
  ASSUME PtyInv, ReadFails
  PROVE  PtyInv'
<1>1. /\ phase = "running" /\ phase' = "gone"
      /\ UNCHANGED <<out, ground, dec, ring, clientVars>>
  BY DEF ReadFails
<1>2. /\ out' = out /\ ground' = ground /\ dec' = dec /\ ring' = ring
      /\ attached' = attached /\ queue' = queue /\ closed' = closed
      /\ handler' = handler /\ pump' = pump /\ stream' = stream
      /\ joined' = joined /\ got' = got /\ term' = term /\ told' = told
  BY <1>1 DEF clientVars
<1>3. TypeOK' /\ SessionRight'
  BY <1>1, <1>2 DEF PtyInv, TypeOK, SessionRight
<1>4. ASSUME NEW c \in Clients PROVE Matched(c)' /\ Served(c)' /\ ToldAll(c)'
  <2>1. Matched(c) /\ Served(c) /\ ToldAll(c)
    BY DEF PtyInv
  <2> QED
    BY <1>1, <1>2, <2>1 DEF Matched, Served, Feeding, ToldAll
<1> QED
  BY <1>3, <1>4 DEF PtyInv

(* finish: an attachment that it closes is complete, and stays so. *)
LEMMA FinishStep ==
  ASSUME PtyInv, Finish
  PROVE  PtyInv'
<1>1. /\ phase = "gone" /\ phase' = "exited" /\ closed' = CloseAll /\ attached' = {}
      /\ out' = out /\ ground' = ground /\ dec' = dec /\ ring' = ring
      /\ queue' = queue /\ handler' = handler /\ pump' = pump /\ stream' = stream
      /\ joined' = joined /\ got' = got /\ term' = term /\ told' = told
  BY DEF Finish
<1>2. TypeOK
  BY DEF PtyInv
<1>3. \A c \in Clients :
        closed'[c] = IF c \in attached /\ closed[c] = "open" THEN "ended" ELSE closed[c]
  BY <1>1 DEF CloseAll
<1>4. TypeOK'
  <2>1. closed' \in [Clients -> {"open", "ended", "detached", "overflow"}]
    BY <1>1, <1>2 DEF CloseAll, TypeOK
  <2> QED
    BY <2>1, <1>1, <1>2 DEF TypeOK
<1>5. SessionRight'
  BY <1>1 DEF PtyInv, SessionRight
<1>6. ASSUME NEW c \in Clients PROVE Matched(c)' /\ Served(c)' /\ ToldAll(c)'
  <2>1. Matched(c) /\ Served(c) /\ ToldAll(c)
    BY DEF PtyInv
  <2>2. closed'[c] = IF c \in attached /\ closed[c] = "open" THEN "ended" ELSE closed[c]
    BY <1>3
  <2>3. Matched(c)'
    BY <1>1, <2>1, <2>2 DEF Matched
  <2>4. Served(c)'
    BY <1>1, <2>1, <2>2 DEF Served, Feeding
  <2>5. ToldAll(c)'
    BY <1>1, <2>1 DEF ToldAll
  <2> QED
    BY <2>3, <2>4, <2>5
<1> QED
  BY <1>4, <1>5, <1>6 DEF PtyInv

(* Positions of the output are positions of a longer one. *)
LEMMA EntriesGrow ==
  ASSUME NEW n \in Nat
  PROVE  /\ Seq(1..n) \subseteq Seq(1..(n+1))
         /\ Seq(Entries(n)) \subseteq Seq(Entries(n+1))
<1>1. 1..n \subseteq 1..(n+1)
  OBVIOUS
<1>2. Seq(1..n) \subseteq Seq(1..(n+1))
  BY <1>1, SeqMonotonic
<1>3. Entries(n) \subseteq Entries(n+1)
  BY <1>2 DEF Entries
<1> QED
  BY <1>2, <1>3, SeqMonotonic

(* The row of a chunk, and the output with it. *)
LEMMA ReadRow ==
  ASSUME TypeOK, NEW k \in Chunks
  PROVE  LET x == [size |-> k.size, clean |-> ground, sets |-> k.sets,
                   ends |-> k.ends]
         IN  /\ x \in ChunkRow /\ x.sets = k.sets
             /\ x.clean = ground /\ x.ends = k.ends
             /\ Append(out, x) \in Seq(ChunkRow) /\ Len(Append(out, x)) = Len(out) + 1
<1> DEFINE x == [size |-> k.size, clean |-> ground, sets |-> k.sets,
                 ends |-> k.ends]
<1>1. k \in Chunk
  BY PtyAssumption
<1>2. x \in ChunkRow /\ x.sets = k.sets /\ x.clean = ground /\ x.ends = k.ends
  BY <1>1 DEF Chunk, ChunkRow, TypeOK
<1>3. out \in Seq(ChunkRow)
  BY DEF TypeOK, ChunkRow
<1> HIDE DEF x
<1>4. Append(out, x) \in Seq(ChunkRow) /\ Len(Append(out, x)) = Len(out) + 1
  BY <1>2, <1>3, AppendProperties
<1> QED
  BY <1>2, <1>4 DEF x

(* push into the ring: it ends with the new chunk still, or is empty. *)
LEMMA RingGrows ==
  ASSUME NEW o, NEW n \in Nat, NEW r \in Seq(1..n), Consecutive(r),
         r # <<>> => End(r) = n
  PROVE  LET s == Evict(o, Append(r, n+1))
         IN  s \in Seq(1..(n+1)) /\ Consecutive(s) /\ (s # <<>> => End(s) = n + 1)
<1> DEFINE a == Append(r, n+1)
<1>1. r \in Seq(1..(n+1)) /\ n+1 \in 1..(n+1)
  BY EntriesGrow
<1>2. /\ a \in Seq(1..(n+1)) /\ Len(a) = Len(r) + 1 /\ a[Len(r) + 1] = n + 1
      /\ \A i \in 1..Len(r) : a[i] = r[i]
  BY <1>1, AppendProperties
<1>3. Len(r) \in Nat /\ DOMAIN r = 1..Len(r) /\ DOMAIN a = 1..(Len(r) + 1)
  BY <1>2, LenProperties
<1> HIDE DEF a
<1>4. End(a) = n + 1
  BY <1>2 DEF End
<1>5. Consecutive(a)
  <2>1. CASE r = <<>>
    <3>1. DOMAIN a = {1}
      BY <2>1, <1>3
    <3> QED
      BY <3>1, <1>2, <1>3 DEF Consecutive
  <2>2. CASE r # <<>>
    <3>1. Len(r) \in Nat \ {0} /\ r[1] \in 1..n /\ n = r[1] + Len(r) - 1
      BY <2>2, RunEnds
    <3>2. a[1] = r[1]
      BY <3>1, <1>2
    <3>3. ASSUME NEW i \in 1..Len(r) PROVE a[i] = a[1] + i - 1
      BY <3>2, <1>2, <1>3 DEF Consecutive
    <3>4. a[Len(r) + 1] = a[1] + (Len(r) + 1) - 1
      <4>1. n + 1 = r[1] + (Len(r) + 1) - 1
        BY <3>1
      <4> QED
        BY <4>1, <3>2, <1>2
    <3>5. ASSUME NEW i \in DOMAIN a PROVE i \in 1..Len(r) \/ i = Len(r) + 1
      BY <1>3
    <3> QED
      BY <3>3, <3>4, <3>5 DEF Consecutive
  <2> QED
    BY <2>1, <2>2
<1>6. PICK i \in 1..(Len(a) + 1) : Evict(o, a) = From(a, i)
  BY <1>2, EvictCuts
<1>7. n + 1 \in Nat
  OBVIOUS
<1>8. /\ From(a, i) \in Seq(1..(n+1)) /\ Consecutive(From(a, i))
      /\ i = Len(a) + 1 => From(a, i) = <<>>
      /\ i # Len(a) + 1 => /\ From(a, i) # <<>> /\ From(a, i)[1] = a[i]
                           /\ End(From(a, i)) = End(a)
  BY <1>2, <1>5, <1>7, FromRun
<1> QED
  BY <1>4, <1>6, <1>8 DEF a

(* A chunk offered to a client that is on the session's list.  Fed: what     *)
(* Served says of an attachment a before the child exits.                    *)
Fed(o, g, a, j, t) ==
  /\ Shape(o, g, a.q, j) /\ a.why # "ended"
  /\ a.why = "open" => Complete(o, g, a.q, j) /\ TermOK(o, g, a.q, j, t)
StaysClosed(a, b) == a.why # "open" => b.why # "open"

(* A client that is fed stays so. *)
LEMMA ReadPush ==
  ASSUME NEW o \in Seq(ChunkRow), NEW x \in ChunkRow, NEW j \in 0..Len(o),
         NEW g \in Seq(1..Len(o)), NEW t,
         NEW a \in Attachment(Len(o)), NEW b,
         b = Push(Append(o, x), a, Entry(NoPrelude, <<Len(o) + 1>>)),
         Fed(o, g, a, j, t)
  PROVE  /\ b \in Attachment(Len(o) + 1) /\ Fed(Append(o, x), g, b, j, t)
         /\ StaysClosed(a, b)
<1> DEFINE e == Entry(NoPrelude, <<Len(o) + 1>>)
           o2 == Append(o, x)
<1>0. /\ Shape(o, g, a.q, j) /\ a.why # "ended"
      /\ a.why = "open" => Complete(o, g, a.q, j) /\ TermOK(o, g, a.q, j, t)
  BY DEF Fed
<1>1. Len(o) \in Nat /\ Len(o) + 1 \in Nat
  BY LenProperties
<1>2. o2 \in Seq(ChunkRow) /\ Len(o2) = Len(o) + 1
  BY AppendProperties
<1>3. a.q \in Seq(Entries(Len(o))) /\ a \in Attachment(Len(o) + 1)
  BY <1>1, EntriesGrow DEF Attachment
<1>4. e \in Entries(Len(o) + 1) /\ e.run # <<>>
  <2>1. Len(o) + 1 \in 1..(Len(o) + 1)
    BY <1>1
  <2>2. <<Len(o) + 1>> \in Seq(1..(Len(o) + 1))
    BY <2>1
  <2>3. NoPrelude \in [Modes -> Value \cup {"same"}]
    BY DEF NoPrelude
  <2> QED
    BY <2>2, <2>3 DEF Entry, Entries
<1>5. EntryBytes(o2, e) # 0
  <2>1. Len(o) + 1 \in 1..Len(o2)
    BY <1>1, <1>2
  <2> QED
    BY <2>1, <1>2, ChunkNotEmpty
<1>6. b \in Attachment(Len(o) + 1) /\ Pushed(o2, a, e, b)
  BY <1>3, <1>4, PushAdds
<1>7. Shape(o2, g, a.q, j)
  BY <1>0, <1>3, ShapeGrows
<1>8. Shape(o2, g, <<>>, j)
  <2>1. Shape(o, g, a.q, j) => Shape(o, g, <<>>, j)
    BY <1>1, <1>3, ShapeDropped
  <2>2. <<>> \in Seq(Entries(Len(o)))
    BY EmptySeq
  <2> QED
    BY <1>0, <2>1, <2>2, ShapeGrows
<1>9. a.why = "open" => /\ Shape(o2, g, Append(a.q, e), j)
                        /\ Complete(o2, g, Append(a.q, e), j)
  BY <1>0, <1>3, ShapePush
<1>10. a.why = "open" => TermOK(o2, g, Append(a.q, e), j, t)
  BY <1>0, <1>3, <1>4, TermPush
<1> HIDE DEF e, o2
<1>11. CASE b = a /\ a.why # "open"
  BY <1>0, <1>6, <1>7, <1>11 DEF o2, Fed, StaysClosed
<1>12. CASE a.why = "open" /\ b.q = Append(a.q, e) /\ b.why = "open"
  BY <1>6, <1>9, <1>10, <1>12 DEF o2, Fed, StaysClosed
<1>13. CASE a.why = "open" /\ b.q = <<>> /\ b.why = "overflow"
  BY <1>6, <1>8, <1>13 DEF o2, Fed, StaysClosed
<1> QED
  BY <1>5, <1>6, <1>11, <1>12, <1>13 DEF Pushed

(* What a Read makes of one client. *)
LEMMA ReadClient ==
  ASSUME PtyInv, NEW k \in Chunks, Read(k), NEW c \in Clients
  PROVE  /\ queue'[c] \in Seq(Entries(Len(out) + 1)) /\ closed'[c] \in Reasons
         /\ Matched(c)' /\ Served(c)' /\ ToldAll(c)'
<1> DEFINE x == [size |-> k.size, clean |-> ground, sets |-> k.sets,
                 ends |-> k.ends]
           new == Append(out, x)
           e == Entry(NoPrelude, <<Len(new)>>)
           a == [q |-> queue[c], why |-> closed[c]]
           b == IF c \in attached THEN Push(new, a, e) ELSE a
<1>1. /\ phase = "running" /\ out' = new
      /\ queue'[c] = b.q /\ closed'[c] = b.why
      /\ UNCHANGED <<phase, attached, handler, pump, stream, joined, got, term, told>>
  BY DEF Read, AtBoundary, FeedTracker
<1>2. TypeOK /\ Matched(c) /\ Served(c) /\ ToldAll(c)
  BY DEF PtyInv
<1>3. x \in ChunkRow /\ Len(new) = Len(out) + 1
  BY <1>2, ReadRow
<1>4. /\ out \in Seq(ChunkRow) /\ Len(out) \in Nat
      /\ queue[c] \in Seq(Entries(Len(out))) /\ got[c] \in Seq(1..Len(out))
      /\ joined[c] \in 0..Len(out) /\ closed[c] \in Reasons
  BY <1>2, ClientTypes
<1>5. a \in Attachment(Len(out)) /\ a.q = queue[c] /\ a.why = closed[c]
  BY <1>4 DEF Attachment
<1>6. e = Entry(NoPrelude, <<Len(out) + 1>>)
  BY <1>3
<1> HIDE DEF x, new, e, a, b
<1>7. closed[c] # "ended" /\ ~told[c]
  BY <1>1, <1>2 DEF Matched, ToldAll
<1>8. CASE c \in attached /\ Feeding(c)
  <2>1. b = Push(Append(out, x), a, Entry(NoPrelude, <<Len(out) + 1>>))
    BY <1>6, <1>8 DEF b, new
  <2>2. Fed(out, got[c], a, joined[c], term[c])
    BY <1>2, <1>5, <1>7, <1>8 DEF Served, Fed
  <2>3. /\ b \in Attachment(Len(out) + 1) /\ Fed(new, got[c], b, joined[c], term[c])
        /\ StaysClosed(a, b)
    BY <1>3, <1>4, <1>5, <2>1, <2>2, ReadPush DEF new
  <2>4. /\ b.why # "ended" /\ (a.why # "open" => b.why # "open")
        /\ Shape(new, got[c], b.q, joined[c])
        /\ b.why = "open" => /\ Complete(new, got[c], b.q, joined[c])
                             /\ TermOK(new, got[c], b.q, joined[c], term[c])
    BY <2>3 DEF Fed, StaysClosed
  <2>5. b.q \in Seq(Entries(Len(out) + 1)) /\ b.why \in Reasons
    BY <2>3 DEF Attachment
  <2>6. Matched(c)'
    BY <1>1, <1>2, <1>5, <1>7, <1>8, <2>4 DEF Matched
  <2>7. Served(c)'
    BY <1>1, <2>4 DEF Served
  <2>8. ToldAll(c)'
    BY <1>1, <1>7 DEF ToldAll
  <2> QED
    BY <1>1, <2>5, <2>6, <2>7, <2>8
<1>9. CASE c \in attached /\ ~Feeding(c)
  <2>1. e \in Entries(Len(out) + 1)
    <3>1. Len(out) + 1 \in 1..(Len(out) + 1)
      BY <1>4
    <3>2. <<Len(out) + 1>> \in Seq(1..(Len(out) + 1))
      BY <3>1
    <3>3. NoPrelude \in [Modes -> Value \cup {"same"}]
      BY DEF NoPrelude
    <3> QED
      BY <1>6, <3>2, <3>3 DEF Entry, Entries
  <2>2. a \in Attachment(Len(out) + 1)
    BY <1>4, <1>5, EntriesGrow DEF Attachment
  <2>3. b \in Attachment(Len(out) + 1) /\ Pushed(new, a, e, b)
    BY <1>9, <2>1, <2>2, PushAdds DEF b
  <2>4. b.q \in Seq(Entries(Len(out) + 1)) /\ b.why \in Reasons
    BY <2>3 DEF Attachment
  <2>5. b.why # "ended" /\ (a.why # "open" => b.why # "open")
    BY <1>5, <1>7, <2>3 DEF Pushed
  <2>6. Matched(c)'
    BY <1>1, <1>2, <1>5, <1>9, <2>5 DEF Matched
  <2>7. Served(c)' /\ ToldAll(c)'
    BY <1>1, <1>7, <1>9 DEF Served, Feeding, ToldAll
  <2> QED
    BY <1>1, <2>4, <2>6, <2>7
<1>10. CASE c \notin attached
  <2>1. queue'[c] = queue[c] /\ closed'[c] = closed[c]
    BY <1>1, <1>5, <1>10 DEF b
  <2>2. queue[c] \in Seq(Entries(Len(out) + 1))
    BY <1>4, EntriesGrow
  <2>3. Matched(c)'
    BY <1>1, <1>2, <2>1 DEF Matched
  <2>4. Feeding(c) => closed[c] # "open"
    BY <1>2, <1>10, ClientTypes DEF Matched, Feeding
  <2>5. Feeding(c) => Shape(new, got[c], queue[c], joined[c])
    BY <1>2, <1>3, <1>4, ShapeGrows DEF Served, new
  <2>6. Served(c)'
    BY <1>1, <1>7, <2>1, <2>4, <2>5 DEF Served, Feeding
  <2>7. ToldAll(c)'
    BY <1>1, <1>7 DEF ToldAll
  <2> QED
    BY <1>4, <2>1, <2>2, <2>3, <2>6, <2>7
<1> QED
  BY <1>8, <1>9, <1>10

(* Read: the ring and the tracker go on, and so does every client. *)
LEMMA ReadStep ==
  ASSUME PtyInv, NEW k \in Chunks, Read(k)
  PROVE  PtyInv'
<1> DEFINE x == [size |-> k.size, clean |-> ground, sets |-> k.sets,
                 ends |-> k.ends]
           new == Append(out, x)
<1>1. /\ phase = "running" /\ out' = new /\ ground' = (k.ends # "sequence")
      /\ dec' = Apply(dec, k.sets) /\ ring' = Evict(new, Append(ring, Len(new)))
      /\ UNCHANGED <<phase, attached, handler, pump, stream, joined, got, term, told>>
  BY DEF Read, AtBoundary, FeedTracker
<1>2. DOMAIN queue' = Clients /\ queue' = [c \in Clients |-> queue'[c]]
      /\ closed' = [c \in Clients |-> closed'[c]]
  BY DEF Read
<1>3. TypeOK /\ SessionRight
  BY DEF PtyInv
<1>4. /\ x \in ChunkRow /\ x.sets = k.sets
      /\ x.clean = ground /\ x.ends = k.ends
      /\ new \in Seq(ChunkRow) /\ Len(new) = Len(out) + 1
  BY <1>3, ReadRow
<1>5. out \in Seq(ChunkRow) /\ Len(out) \in Nat
  <2>1. out \in Seq(ChunkRow)
    BY <1>3 DEF TypeOK, ChunkRow
  <2> QED
    BY <2>1, LenProperties
<1>6. k.sets \in [Modes -> Value \cup {"same"}]
  BY PtyAssumption DEF Chunk
<1> HIDE DEF x, new
<1>7. /\ ring' \in Seq(1..(Len(out) + 1)) /\ Consecutive(ring')
      /\ ring' # <<>> => End(ring') = Len(out) + 1
  <2>1. ring \in Seq(1..Len(out)) /\ Consecutive(ring)
        /\ (ring # <<>> => End(ring) = Len(out))
    BY <1>3 DEF TypeOK, SessionRight
  <2> QED
    BY <2>1, <1>1, <1>4, <1>5, RingGrows
<1>8. ASSUME NEW m \in Modes PROVE LastSet(new, m, Len(out) + 1, dec'[m])
  <2>1. dec'[m] = IF x.sets[m] = "same" THEN dec[m] ELSE x.sets[m]
    BY <1>1, <1>4 DEF Apply
  <2>2. LastSet(out, m, Len(out), dec[m])
    BY <1>3 DEF SessionRight
  <2> QED
    BY <2>1, <2>2, <1>4, <1>5, LastSetNew DEF new
<1>9. SessionRight'
  <2>1. /\ \A i \in 1..Len(out) : new[i] = out[i]
        /\ new[Len(out) + 1] = x
    BY <1>4, <1>5, AppendProperties DEF new
  <2>2. ASSUME NEW i \in 1..(Len(out) + 1), new[i].clean
        PROVE  i = 1 \/ new[i - 1].ends # "sequence"
    <3>1. CASE i = Len(out) + 1
      <4>1. ground
        BY <1>4, <2>1, <2>2, <3>1
      <4>2. Len(out) = 0 \/ out[Len(out)].ends # "sequence"
        BY <1>3, <4>1 DEF SessionRight, FlagsRight
      <4>3. CASE Len(out) = 0
        BY <3>1, <4>3
      <4>4. CASE Len(out) # 0
        <5>1. i - 1 = Len(out) /\ Len(out) \in 1..Len(out)
          BY <1>5, <3>1, <4>4
        <5> QED
          BY <2>1, <4>2, <4>4, <5>1
      <4> QED
        BY <4>3, <4>4
    <3>2. CASE i # Len(out) + 1
      <4>1. i \in 1..Len(out) /\ (i # 1 => i - 1 \in 1..Len(out))
        BY <1>5, <3>2
      <4> QED
        BY <1>3, <2>1, <2>2, <4>1 DEF SessionRight, FlagsRight
    <3> QED
      BY <3>1, <3>2
  <2>3. FlagsRight(new, ground')
    BY <1>1, <1>4, <1>5, <2>1, <2>2 DEF FlagsRight
  <2> QED
    BY <1>1, <1>4, <1>7, <1>8, <2>3 DEF SessionRight
<1>10. \A c \in Clients : /\ queue'[c] \in Seq(Entries(Len(out) + 1))
                          /\ closed'[c] \in Reasons
                          /\ Matched(c)' /\ Served(c)' /\ ToldAll(c)'
  BY ReadClient
<1>11. TypeOK'
  <2>1. dec' \in [Modes -> Value \cup {"unset"}] /\ ground' \in BOOLEAN
    BY <1>1, <1>3, <1>6 DEF TypeOK, Apply
  <2>2. queue' \in [Clients -> Seq(Entries(Len(out) + 1))]
    BY <1>2, <1>10
  <2>3. closed' \in [Clients -> Reasons]
    BY <1>2, <1>10
  <2>4. joined' \in [Clients -> 0..(Len(out) + 1)]
    BY <1>1, <1>3, <1>5 DEF TypeOK
  <2>5. got' \in [Clients -> Seq(1..(Len(out) + 1))]
    BY <1>1, <1>3, <1>5, EntriesGrow DEF TypeOK
  <2>6. out' \in Seq([size : Nat \ {0}, clean : BOOLEAN,
                      sets : [Modes -> Value \cup {"same"}], ends : Places])
        /\ Len(out') = Len(out) + 1
    BY <1>1, <1>4 DEF ChunkRow
  <2>7. /\ phase' \in {"running", "gone", "exited"} /\ attached' \subseteq Clients
        /\ handler' \in [Clients -> {"none", "attached", "reading", "waiting"}]
        /\ pump' \in [Clients -> {"none", "on", "done"}]
        /\ stream' \in [Clients -> {"up", "stuck", "down"}]
        /\ term' \in [Clients -> [Modes -> Value \cup {"unset"}]]
        /\ told' \in [Clients -> BOOLEAN]
    BY <1>1, <1>3 DEF TypeOK
  <2> QED
    BY <1>7, <2>1, <2>2, <2>3, <2>4, <2>5, <2>6, <2>7 DEF TypeOK, Entries, Reasons
<1> QED
  BY <1>9, <1>10, <1>11 DEF PtyInv

-----------------------------------------------------------------------------
(* The theorems. *)

(* Every step preserves the invariant. *)
LEMMA NextInv == PtyInv /\ [Next]_vars => PtyInv'
<1> SUFFICES ASSUME PtyInv, [Next]_vars PROVE PtyInv'
  OBVIOUS
<1>1. CASE \E k \in Chunks : Read(k)
  BY <1>1, ReadStep
<1>2. CASE ReadFails \/ Finish
  BY <1>2, ReadFailsStep, FinishStep
<1>3. CASE \E c \in Clients : Client(c)
  BY <1>3, AttachStep, AnswerStep, NextStep, PumpEndsStep, StreamStep,
     ReadFrameFailsStep, HandlerEndsStep DEF Client
<1>4. CASE UNCHANGED vars
  BY <1>4 DEF vars, sessionVars, clientVars, PtyInv, TypeOK, SessionRight, Matched,
              Served, Feeding, ToldAll
<1> QED
  BY <1>1, <1>2, <1>3, <1>4 DEF Next

(* The invariant holds always. *)
THEOREM PtyInvariant == Spec => []PtyInv
BY InitInv, NextInv, PTL DEF Spec

(* Every variable of a session and its clients has its type always. *)
THEOREM PtyTypes == Spec => []TypeOK
<1>1. PtyInv => TypeOK
  BY DEF PtyInv
<1> QED
  BY <1>1, PtyInvariant, PTL

(* The invariant says so of replay and live output: they meet. *)
LEMMA InvNoGap == PtyInv => NoGapNoDuplicate
<1> SUFFICES ASSUME PtyInv, NEW c \in Clients, Feeding(c)
             PROVE  /\ \A i \in Pieces(c) :
                         /\ Consecutive(Piece(c, i))
                         /\ Piece(c, i) = <<>> => i = 0 \/ (i = 1 /\ got[c] = <<>>)
                         /\ Piece(c, i) # <<>> /\ i+1 \in Pieces(c) =>
                              Piece(c, i+1)[1] = End(Piece(c, i)) + 1
                         /\ Begins(c, i) => Piece(c, i)[1] <= joined[c] + 1
                    /\ closed[c] = "open" =>
                         LET last == Piece(c, Len(queue[c])) IN
                         IF last = <<>> THEN joined[c] = Len(out) ELSE End(last) = Len(out)
  BY DEF NoGapNoDuplicate
<1>1. TypeOK /\ Served(c)
  BY DEF PtyInv
<1>2. /\ Len(out) \in Nat /\ joined[c] \in 0..Len(out) /\ got[c] \in Seq(1..Len(out))
      /\ queue[c] \in Seq(Entries(Len(out)))
  BY <1>1, ClientTypes
<1>3. Len(queue[c]) \in Nat
  BY <1>2, LenProperties
<1>4. \A i : Piece(c, i) = PieceOf(got[c], queue[c], i)
  BY DEF Piece, PieceOf
<1>5. Shape(out, got[c], queue[c], joined[c])
  BY <1>1 DEF Served
<1>6. ASSUME NEW i \in 0..Len(queue[c])
      PROVE  /\ Consecutive(Piece(c, i))
             /\ Piece(c, i) = <<>> => i = 0 \/ (i = 1 /\ got[c] = <<>>)
             /\ Piece(c, i) # <<>> /\ i+1 \in 0..Len(queue[c]) =>
                  Piece(c, i+1)[1] = End(Piece(c, i)) + 1
             /\ Begins(c, i) => Piece(c, i)[1] <= joined[c] + 1
  <2>1. Consecutive(Piece(c, i))
    BY <1>4, <1>5 DEF Shape
  <2>2. Piece(c, i) = <<>> => i = 0 \/ (i = 1 /\ got[c] = <<>>)
    <3>1. ASSUME i # 0, Piece(c, i) = <<>> PROVE i = 1 /\ got[c] = <<>>
      <4>1. i \in 1..Len(queue[c]) /\ queue[c][i].run = <<>>
        BY <1>3, <3>1 DEF Piece
      <4> QED
        BY <4>1, <1>5 DEF Shape
    <3> QED
      BY <3>1
  <2>3. Piece(c, i) # <<>> /\ i+1 \in 0..Len(queue[c]) =>
          Piece(c, i+1)[1] = End(Piece(c, i)) + 1
    <3>1. i+1 \in 0..Len(queue[c]) => i \in 0..(Len(queue[c]) - 1)
      BY <1>3
    <3> QED
      BY <3>1, <1>4, <1>5 DEF Shape
  <2>4. Begins(c, i) => Piece(c, i)[1] <= joined[c] + 1
    <3>1. Begins(c, i) => StartOK(out, joined[c], Piece(c, i))
      BY <1>4, <1>5 DEF Begins, Shape
    <3>2. joined[c] \in Nat
      BY <1>2
    <3>3. Piece(c, i) \in Seq(1..Len(out))
      BY <1>2, <1>4, PieceType
    <3>4. Piece(c, i) # <<>> => Piece(c, i)[1] \in 1..Len(out)
      BY <1>2, <3>3, RunEnds
    <3> QED
      BY <1>2, <3>1, <3>2, <3>4 DEF StartOK, Begins
  <2> QED
    BY <2>1, <2>2, <2>3, <2>4
<1>7. closed[c] = "open" => Complete(out, got[c], queue[c], joined[c])
  BY <1>1 DEF Served
<1>8. closed[c] = "open" =>
        LET last == Piece(c, Len(queue[c])) IN
        IF last = <<>> THEN joined[c] = Len(out) ELSE End(last) = Len(out)
  BY <1>4, <1>7 DEF Complete
<1> QED
  BY <1>6, <1>8 DEF Pieces

(* For any number of clients, any chunks and any limits of ring and queue,   *)
(* what an attachment gets of readLoop and Attach is one run without a gap.  *)
THEOREM RunsMeet == Spec => []NoGapNoDuplicate
BY InvNoGap, PtyInvariant, PTL

(* A replay begins outside the sequences the tracker follows. *)
LEMMA InvStartsClean == PtyInv => ReplayStartsClean
<1> SUFFICES ASSUME PtyInv, NEW c \in Clients, Feeding(c), NEW i \in Pieces(c),
                    Begins(c, i), Piece(c, i)[1] <= joined[c]
             PROVE  \/ Piece(c, i)[1] = 1
                    \/ out[Piece(c, i)[1] - 1].ends # "sequence"
  BY DEF ReplayStartsClean
<1>1. TypeOK /\ Served(c)
  BY DEF PtyInv
<1>2. Len(out) \in Nat /\ joined[c] \in 0..Len(out)
  BY <1>1, ClientTypes
<1>3. Shape(out, got[c], queue[c], joined[c])
  BY <1>1 DEF Served
<1>4. \A n : Piece(c, n) = PieceOf(got[c], queue[c], n)
  BY DEF Piece, PieceOf
<1>5. StartOK(out, joined[c], Piece(c, i))
  BY <1>3, <1>4 DEF Begins, Pieces, Shape
<1>6. Piece(c, i)[1] \in 1..Len(out)
  <2>1. Piece(c, i) \in Seq(1..Len(out)) /\ Piece(c, i) # <<>>
    BY <1>1, <1>4, ClientTypes, PieceType DEF Begins, Pieces
  <2> QED
    BY <1>2, <2>1, RunEnds
<1>7. out[Piece(c, i)[1]].clean
  <2>1. Piece(c, i)[1] # joined[c] + 1
    BY <1>2, <1>6
  <2> QED
    BY <1>5, <2>1 DEF StartOK
<1> QED
  BY <1>6, <1>7 DEF PtyInv, SessionRight, FlagsRight

(* snapshot never hands Attach a replay that begins inside a sequence the    *)
(* tracker follows, whatever was evicted before it.                          *)
THEOREM ReplaysStartClean == Spec => []ReplayStartsClean
BY InvStartsClean, PtyInvariant, PTL

(* Who is told that the session ended has everything written since the       *)
(* attach.                                                                   *)
THEOREM ToldHaveAll == Spec => []EndedMeansComplete
<1>1. PtyInv => EndedMeansComplete
  <2> SUFFICES ASSUME PtyInv, NEW c \in Clients, told[c]
               PROVE  IF got[c] = <<>> THEN joined[c] = Len(out)
                      ELSE End(got[c]) = Len(out)
    BY DEF EndedMeansComplete
  <2>1. Complete(out, got[c], <<>>, joined[c])
    BY DEF PtyInv, ToldAll
  <2>2. PieceOf(got[c], <<>>, Len(<<>>)) = got[c]
    BY DEF PieceOf
  <2> QED
    BY <2>1, <2>2 DEF Complete
<1> QED
  BY <1>1, PtyInvariant, PTL

(* A terminal that has caught up is in the modes the child set. *)
LEMMA InvModes == PtyInv => ModesCurrent
<1> SUFFICES ASSUME PtyInv, NEW c \in Clients, pump[c] = "on", closed[c] = "open",
                    queue[c] = <<>>, got[c] # <<>> => out[got[c][1]].clean,
                    NEW m \in Modes
             PROVE  term[c][m] = dec[m] \/ (m \in Transient /\ term[c][m] = "unset")
  BY DEF ModesCurrent
<1>1. TypeOK /\ Served(c) /\ SessionRight /\ Feeding(c)
  BY DEF PtyInv, Feeding
<1>2. /\ Complete(out, got[c], <<>>, joined[c])
      /\ TermOK(out, got[c], <<>>, joined[c], term[c])
  BY <1>1 DEF Served
<1>3. PieceOf(got[c], <<>>, Len(<<>>)) = got[c] /\ Prepared(<<>>, term[c]) = term[c]
  BY DEF PieceOf, Prepared
<1>4. Len(out) \in Nat /\ LastSet(out, m, Len(out), dec[m])
  BY <1>1, ClientTypes DEF SessionRight
<1>5. \/ LastSet(out, m, Len(out), term[c][m])
      \/ m \in Transient /\ term[c][m] = "unset"
  <2>1. CASE got[c] = <<>>
    BY <2>1, <1>2, <1>3 DEF Complete, TermOK
  <2>2. CASE got[c] # <<>>
    BY <2>2, <1>2, <1>3 DEF Complete, TermOK
  <2> QED
    BY <2>1, <2>2
<1> QED
  BY <1>4, <1>5, LastSetUnique

(* For any modes and any chunks, what ModeTracker's prelude, the replay and  *)
(* live output make of a terminal that has caught up is the child's modes.   *)
THEOREM ModesAreCurrent == Spec => []ModesCurrent
BY InvModes, PtyInvariant, PTL

=============================================================================

--------------------------- MODULE Access_proofs ---------------------------
(***************************************************************************)
(* Proofs about Access, for any users, sessions and handlers running at a  *)
(* time: a uid is one person's for good, the workspace's owner can always  *)
(* reach it, and the listings agree with the access rule.                  *)
(***************************************************************************)
EXTENDS Access, TLAPS

-----------------------------------------------------------------------------
(* The inductive invariant. *)

(* A handler past its first read has a workspace; one that removes a member  *)
(* was let through for somebody other than its owner; and one that acts for  *)
(* a user has one.                                                           *)
HandlersGrounded ==
  \A r \in Requests : req[r].pc # "idle" =>
    /\ req[r].op # "create" => ws # None
    /\ req[r].op \in {"put", "del"} => req[r].tgt \in Users
    /\ req[r].op = "del" => req[r].tgt # ws.owner
    /\ req[r].op \in {"session", "prepare", "delsess"} => req[r].tgt \in Sessions
    /\ req[r].op \in {"create", "patch"} => req[r].arg \in Scopes
    /\ req[r].op = "put" => req[r].arg \in Role
    /\ req[r].op \in {"create", "session"} => req[r].user \in Users
    /\ req[r].pc = "member" => req[r].user \in Users /\ req[r].op # "create"
    /\ req[r].op = "prepare" => req[r].of \in Users
    /\ req[r].pc = "announce" => req[r].uid \in Uid

(* Only a transaction of prepareSession has read or written a uid's row, and *)
(* a row it inserted is nobody else's until it commits.                      *)
InsertsUnseen ==
  \A r \in Requests :
    /\ req[r].pc \in {"get", "alloc", "announce"} => req[r].op = "prepare"
    /\ req[r].ins =>
         /\ req[r].pc \in {"get", "alloc"}
         /\ member[req[r].of] = None
         /\ \A q \in Requests \ {r} : req[q].ins => req[q].of # req[r].of

(* A number that is u's: announced, about to be, or on record. *)
Given(u, n) ==
  \/ <<u, n>> \in held
  \/ \E r \in Requests :
       req[r].pc = "announce" /\ req[r].of = u /\ req[r].uid = n
  \/ member[u] # None /\ member[u].uid = n

(* Before the workspace there are no rows and no numbers. *)
NothingBefore ==
  ws = None => /\ held = {}
               /\ \A u \in Users : member[u] = None /\ resolved[u] = {}

(* The counter is above every number given, none is given to two.            *)
NumbersApart ==
  /\ \A u \in Users, n \in Uid : Given(u, n) => ws # None /\ n < ws.next_uid
  /\ \A u, v \in Users, n \in Uid : Given(u, n) /\ Given(v, n) => u = v

(* Nobody was resolved to two, nor to one that is not on record.             *)
ResolvedOnRecord ==
  \A u \in Users :
    resolved[u] # {} => member[u] # None /\ resolved[u] = {member[u].uid}

NumbersHeld == NumbersApart /\ ResolvedOnRecord

AccessInv ==
  /\ TypeOK /\ HandlersGrounded /\ InsertsUnseen
  /\ NothingBefore /\ NumbersHeld /\ OwnerReaches

-----------------------------------------------------------------------------
(* An idle handler is one, and promises nothing. *)
LEMMA IdleType ==
  /\ Idle \in Request /\ Idle.pc = "idle" /\ Idle.ins = FALSE
  /\ Idle.op = "create" /\ Idle.user = None /\ Idle.tgt = None
  /\ Idle.arg = None /\ Idle.snap = None /\ Idle.of = None /\ Idle.uid = None
  BY DEF Idle, Request, Ops

(* Init establishes it. *)
LEMMA InitInv == Init => AccessInv
<1> SUFFICES ASSUME Init PROVE AccessInv
  OBVIOUS
<1>1. TypeOK
  BY IdleType DEF Init, TypeOK, Setting
<1>2. HandlersGrounded /\ InsertsUnseen
  BY IdleType DEF Init, HandlersGrounded, InsertsUnseen
<1>3. NothingBefore /\ ResolvedOnRecord /\ OwnerReaches
  BY DEF Init, NothingBefore, ResolvedOnRecord, OwnerReaches
<1>4. NumbersApart
  BY IdleType DEF Init, NumbersApart, Given
<1> QED
  BY <1>1, <1>2, <1>3, <1>4 DEF AccessInv, NumbersHeld

(* A handler that ends leaves the rows to the others. *)
LEMMA EndsFields ==
  ASSUME TypeOK, NEW r \in Requests, Ends(r)
  PROVE  /\ req' \in [Requests -> Request]
         /\ req'[r].pc = "idle" /\ req'[r].ins = FALSE
         /\ \A q \in Requests \ {r} : req'[q] = req[q]
  BY IdleType DEF Ends, TypeOK

(* What holds of handlers alone stays when one ends and the rows they go by  *)
(* stay.                                                                     *)
LEMMA EndsKeeps ==
  ASSUME AccessInv, NEW r \in Requests, Ends(r),
         ws # None => ws' # None /\ ws'.owner = ws.owner
  PROVE  /\ HandlersGrounded'
         /\ member' = member => InsertsUnseen'
<1>1. /\ req'[r].pc = "idle" /\ req'[r].ins = FALSE
      /\ \A q \in Requests \ {r} : req'[q] = req[q]
  BY EndsFields DEF AccessInv
<1>2. HandlersGrounded'
  BY <1>1 DEF AccessInv, HandlersGrounded
<1>3. member' = member => InsertsUnseen'
  BY <1>1 DEF AccessInv, InsertsUnseen
<1> QED
  BY <1>2, <1>3

(* No handler comes to announce that did not. *)
NoNewAnnouncer ==
  \A q \in Requests : req'[q].pc = "announce" =>
    req[q].pc = "announce" /\ req'[q].of = req[q].of /\ req'[q].uid = req[q].uid

(* Numbers only cease to be given while the counter climbs. *)
LEMMA GivenShrinks ==
  ASSUME AccessInv,
         \A u \in Users, n \in Uid : Given(u, n)' => Given(u, n),
         ws # None => ws' # None /\ ws'.next_uid \in Nat
                                /\ ws.next_uid <= ws'.next_uid
  PROVE  NumbersApart'
<1>1. ASSUME NEW u \in Users, NEW n \in Uid, Given(u, n)'
      PROVE  ws' # None /\ n < ws'.next_uid
  <2>1. ws # None /\ n < ws.next_uid
    BY <1>1 DEF AccessInv, NumbersHeld, NumbersApart
  <2>2. n \in Nat /\ ws.next_uid \in Nat
    BY <2>1, AccessAssumption DEF Uid, AccessInv, TypeOK, WsRow
  <2> QED
    BY <2>1, <2>2
<1> QED
  BY <1>1 DEF AccessInv, NumbersHeld, NumbersApart

(* Rows and history that stay keep what holds of them. *)
LEMMA RowsKeep ==
  ASSUME AccessInv, UNCHANGED <<rows, resolved, held>>, NoNewAnnouncer
  PROVE  NothingBefore' /\ NumbersHeld' /\ OwnerReaches'
<1>1. NothingBefore' /\ ResolvedOnRecord' /\ OwnerReaches'
  BY DEF AccessInv, NothingBefore, NumbersHeld, ResolvedOnRecord, OwnerReaches, rows
<1>2. \A u \in Users, n \in Uid : Given(u, n)' => Given(u, n)
  BY DEF Given, rows, NoNewAnnouncer
<1>3. ws # None => ws' # None /\ ws'.next_uid \in Nat /\ ws.next_uid <= ws'.next_uid
  BY AccessAssumption DEF rows, AccessInv, TypeOK, WsRow, Uid
<1> QED
  BY <1>1, <1>2, <1>3, GivenShrinks DEF NumbersHeld

(* A handler that ends comes to announce nothing. *)
LEMMA EndsNoAnnouncer ==
  ASSUME AccessInv, NEW r \in Requests, Ends(r) PROVE NoNewAnnouncer
  BY EndsFields DEF AccessInv, NoNewAnnouncer

-----------------------------------------------------------------------------
(* A request that ends changes no row. *)
LEMMA FailsStep ==
  ASSUME AccessInv, NEW r \in Requests, Fails(r) PROVE AccessInv'
<1>1. Ends(r) /\ UNCHANGED <<rows, resolved, held>>
  BY DEF Fails
<1>2. TypeOK'
  BY <1>1, EndsFields DEF AccessInv, TypeOK, rows
<1> QED
  BY <1>1, <1>2, EndsKeeps, EndsNoAnnouncer, RowsKeep DEF AccessInv, rows

(* A request arrives. *)
LEMMA ArriveStep ==
  ASSUME AccessInv, NEW r \in Requests, NEW u \in Users, NEW c \in Calls,
         Arrive(r, u, c)
  PROVE  AccessInv'
<1> DEFINE new == [Idle EXCEPT !.op = c.op, !.user = u, !.tgt = c.tgt,
                               !.arg = c.arg,
                    !.pc = IF c.op = "create" THEN "act" ELSE "member",
                    !.of = IF c.op \in {"prepare", "delsess"}
                           THEN session[c.tgt] ELSE None,
                    !.snap = IF c.op = "create" THEN None ELSE ws.access_scope]
<1>1. /\ c.op \in Ops
      /\ c.op \in {"put", "del"} => c.tgt \in Users
      /\ c.op \in {"session", "prepare", "delsess"} => c.tgt \in Sessions
      /\ c.op \in {"create", "patch"} => c.arg \in Scopes
      /\ c.op = "put" => c.arg \in Role
      /\ c.tgt \in Users \cup Sessions \cup {None}
      /\ c.arg \in Role \cup Scopes \cup {None}
  BY DEF Calls, Call, Ops
<1>2. /\ c.op # "create" => ws # None
      /\ c.op = "del" => c.tgt # ws.owner
      /\ c.op \in {"prepare", "delsess"} => session[c.tgt] \in Users
  BY <1>1 DEF Arrive, MayRemove, Ops, AccessInv, TypeOK
<1>3. /\ new \in Request /\ new.op = c.op /\ new.user = u /\ new.tgt = c.tgt
      /\ new.arg = c.arg /\ new.ins = FALSE
      /\ new.pc = IF c.op = "create" THEN "act" ELSE "member"
      /\ c.op = "prepare" => new.of \in Users
  BY <1>1, <1>2 DEF Idle, Request, AccessInv, TypeOK, WsRow
<1>4. UNCHANGED <<rows, resolved, held>> /\ req' = [req EXCEPT ![r] = new]
  BY DEF Arrive
<1> HIDE DEF new
<1>5. TypeOK'
  BY <1>3, <1>4 DEF AccessInv, TypeOK, rows
<1>6. HandlersGrounded' /\ InsertsUnseen' /\ NoNewAnnouncer
  BY <1>1, <1>2, <1>3, <1>4 DEF AccessInv, TypeOK, HandlersGrounded,
     InsertsUnseen, rows, NoNewAnnouncer
<1> QED
  BY <1>4, <1>5, <1>6, RowsKeep DEF AccessInv

(* principal: the membership is read. *)
LEMMA ReadMembershipStep ==
  ASSUME AccessInv, NEW r \in Requests, ReadMembership(r) PROVE AccessInv'
<1>1. UNCHANGED <<rows, resolved, held>>
  BY DEF ReadMembership
<1>2. CASE Ends(r)
  <2>1. TypeOK'
    BY <1>1, <1>2, EndsFields DEF AccessInv, TypeOK, rows
  <2> QED
    BY <1>1, <1>2, <2>1, EndsKeeps, EndsNoAnnouncer, RowsKeep DEF AccessInv, rows
<1>3. CASE req' = [req EXCEPT ![r].pc = "act", ![r].snap = None,
                     ![r].user = IF req[r].op = "session" THEN @ ELSE None,
                     ![r].of = IF req[r].op = "prepare" THEN @ ELSE None]
  <2>1. /\ req'[r] \in Request /\ req'[r].pc = "act"
        /\ req'[r].op = req[r].op /\ req'[r].tgt = req[r].tgt
        /\ req'[r].arg = req[r].arg /\ req'[r].ins = req[r].ins
        /\ req[r].op = "session" => req'[r].user = req[r].user
        /\ req[r].op = "prepare" => req'[r].of = req[r].of
    <3> DEFINE a == [req[r] EXCEPT !.pc = "act", !.snap = None]
               b == [a EXCEPT !.user = IF req[r].op = "session" THEN @ ELSE None]
               d == [b EXCEPT !.of = IF req[r].op = "prepare" THEN @ ELSE None]
    <3>1. /\ a \in Request /\ a.pc = "act" /\ a.op = req[r].op
          /\ a.tgt = req[r].tgt /\ a.arg = req[r].arg /\ a.ins = req[r].ins
          /\ a.user = req[r].user /\ a.of = req[r].of
      BY DEF AccessInv, TypeOK, Request
    <3>2. req'[r] = d
      BY <1>3 DEF AccessInv, TypeOK
    <3> HIDE DEF a
    <3>3. /\ b \in Request /\ b.pc = a.pc /\ b.op = a.op
          /\ b.tgt = a.tgt /\ b.arg = a.arg /\ b.ins = a.ins /\ b.of = a.of
          /\ req[r].op = "session" => b.user = a.user
      BY <3>1 DEF Request
    <3> HIDE DEF b
    <3>4. /\ d \in Request /\ d.pc = b.pc /\ d.op = b.op
          /\ d.tgt = b.tgt /\ d.arg = b.arg /\ d.ins = b.ins
          /\ d.user = b.user
          /\ req[r].op = "prepare" => d.of = b.of
      BY <3>3 DEF Request
    <3> HIDE DEF d
    <3> QED
      BY <3>1, <3>2, <3>3, <3>4
  <2>2. \A q \in Requests \ {r} : req'[q] = req[q]
    BY <1>3 DEF AccessInv, TypeOK
  <2>3. TypeOK'
    BY <1>1, <1>3, <2>1, <2>2 DEF AccessInv, TypeOK, rows
  <2>4. req[r].pc = "member" /\ req[r].ins = FALSE
    BY DEF ReadMembership, At, AccessInv, InsertsUnseen, TypeOK, Request
  <2>5. HandlersGrounded'
    BY <1>1, <2>1, <2>2, <2>4 DEF AccessInv, HandlersGrounded, rows
  <2>6. NoNewAnnouncer
    BY <2>1, <2>2 DEF NoNewAnnouncer
  <2>7. InsertsUnseen'
    BY <1>1, <2>1, <2>2, <2>4 DEF AccessInv, InsertsUnseen, rows
  <2> QED
    BY <1>1, <2>3, <2>5, <2>6, <2>7, RowsKeep DEF AccessInv
<1> QED
  BY <1>2, <1>3 DEF ReadMembership

(* A row written for a user is a row, and keeps the uid. *)
LEMMA AddMemberFields ==
  ASSUME TypeOK, NEW u \in Users, NEW role \in Role
  PROVE  /\ AddMember(u, role) \in [Users -> MemberRow \cup {None}]
         /\ AddMember(u, role)[u] # None
         /\ AddMember(u, role)[u].uid =
              IF member[u] = None THEN None ELSE member[u].uid
         /\ \A v \in Users \ {u} : AddMember(u, role)[v] = member[v]
<1> DEFINE new == IF member[u] = None THEN [role |-> role, uid |-> None]
                  ELSE [member[u] EXCEPT !.role = role]
<1>1. /\ new \in MemberRow
      /\ new.uid = IF member[u] = None THEN None ELSE member[u].uid
  BY DEF TypeOK, MemberRow
<1>2. AddMember(u, role) = [member EXCEPT ![u] = new]
  BY DEF AddMember
<1> HIDE DEF new
<1> QED
  BY <1>1, <1>2, NoneIsNoRow DEF TypeOK

(* handleCreateWorkspace writes the row and its owner. *)
LEMMA CreateWorkspaceStep ==
  ASSUME AccessInv, NEW r \in Requests, HandleCreateWorkspace(r)
  PROVE  AccessInv'
<1>1. /\ Ends(r) /\ UNCHANGED <<settings, session, resolved, held>>
      /\ req[r].pc = "act" /\ req[r].op = "create"
      /\ req[r].user \in Users /\ req[r].arg \in Scopes
  BY DEF HandleCreateWorkspace, Doing, At, AccessInv, HandlersGrounded
<1>2. CASE ws # None
  <2>1. UNCHANGED <<rows, resolved, held>>
    BY <1>1, <1>2 DEF HandleCreateWorkspace, rows
  <2>2. TypeOK'
    BY <1>1, <2>1, EndsFields DEF AccessInv, TypeOK, rows
  <2> QED
    BY <1>1, <2>1, <2>2, EndsKeeps, EndsNoAnnouncer, RowsKeep DEF AccessInv, rows
<1>3. CASE ws = None
  <2> DEFINE u == req[r].user
  <2>1. /\ ws' \in WsRow /\ ws'.owner = u
        /\ member' = AddMember(u, "owner")
    BY <1>1, <1>3, AccessAssumption DEF HandleCreateWorkspace, createWorkspace,
       CreateWorkspace, WsRow, Uid
  <2>2. ws' # None
    BY <2>1, NoneIsNoRow
  <2>3. /\ member' \in [Users -> MemberRow \cup {None}]
        /\ member'[u] # None /\ member'[u].uid = None
        /\ \A v \in Users \ {u} : member'[v] = member[v]
    BY <1>1, <1>3, <2>1, AddMemberFields DEF AccessInv, NothingBefore, Role
  <2>4. TypeOK'
    BY <1>1, <2>1, <2>3, EndsFields DEF AccessInv, TypeOK
  <2>5. HandlersGrounded'
    BY <1>1, <1>3, EndsKeeps
  <2>6. \A q \in Requests : req'[q].ins = FALSE
        /\ req'[q].pc \notin {"get", "alloc", "announce"}
    <3>1. \A q \in Requests : req[q].ins = FALSE
          /\ req[q].pc \notin {"get", "alloc", "announce"}
      BY <1>3 DEF AccessInv, HandlersGrounded, InsertsUnseen, TypeOK, Request
    <3> QED
      BY <1>1, <3>1, EndsFields DEF AccessInv
  <2>7. InsertsUnseen'
    BY <2>6 DEF InsertsUnseen
  <2>8. NothingBefore' /\ ResolvedOnRecord' /\ OwnerReaches'
    BY <1>1, <1>3, <2>1, <2>2, <2>3 DEF AccessInv, NothingBefore, NumbersHeld,
       ResolvedOnRecord, OwnerReaches
  <2>9. \A v \in Users, n \in Uid : ~Given(v, n)'
    <3>1. \A n \in Uid : n # None
      BY AccessAssumption DEF Uid
    <3> QED
      BY <1>1, <1>3, <2>3, <2>6, <3>1 DEF AccessInv, NothingBefore, Given
  <2> QED
    BY <2>4, <2>5, <2>7, <2>8, <2>9 DEF AccessInv, NumbersHeld, NumbersApart
<1> QED
  BY <1>2, <1>3

(* The organization setting moves no row. *)
LEMMA SettingsStep ==
  ASSUME AccessInv, NEW u \in Users, NEW arg \in Setting,
         HandleUpdateOrgSettings(u, arg)
  PROVE  AccessInv'
<1>1. UNCHANGED <<ws, member, session, req, resolved, held>> /\ settings' = arg
  BY DEF HandleUpdateOrgSettings
<1> QED
  BY <1>1 DEF AccessInv, TypeOK, HandlersGrounded, InsertsUnseen, NothingBefore,
     NumbersHeld, NumbersApart, Given, ResolvedOnRecord, OwnerReaches

(* The scope of a workspace is changed. *)
LEMMA SetAccessScopeStep ==
  ASSUME AccessInv, NEW r \in Requests, HandleSetAccessScope(r)
  PROVE  AccessInv'
<1>1. /\ Ends(r) /\ UNCHANGED <<member, settings, session, resolved, held>>
      /\ ws # None /\ req[r].arg \in Scopes
      /\ ws' = [ws EXCEPT !.access_scope = req[r].arg]
  BY DEF HandleSetAccessScope, SetWorkspaceAccessScope, Doing, At, AccessInv,
     HandlersGrounded
<1>2. /\ ws' \in WsRow /\ ws'.owner = ws.owner /\ ws'.next_uid = ws.next_uid
  BY <1>1 DEF AccessInv, TypeOK, WsRow
<1>3. ws' # None
  BY <1>2, NoneIsNoRow
<1>4. TypeOK'
  BY <1>1, <1>2, EndsFields DEF AccessInv, TypeOK
<1>5. HandlersGrounded' /\ InsertsUnseen'
  BY <1>1, <1>2, <1>3, EndsKeeps
<1>6. NothingBefore' /\ ResolvedOnRecord' /\ OwnerReaches'
  BY <1>1, <1>2, <1>3 DEF AccessInv, NothingBefore, NumbersHeld,
     ResolvedOnRecord, OwnerReaches
<1>7. \A u \in Users, n \in Uid : Given(u, n)' => Given(u, n)
  BY <1>1, EndsNoAnnouncer DEF Given, NoNewAnnouncer
<1>8. ws'.next_uid \in Nat /\ ws.next_uid <= ws'.next_uid
  BY <1>1, <1>2, AccessAssumption DEF AccessInv, TypeOK, WsRow, Uid
<1> QED
  BY <1>3, <1>4, <1>5, <1>6, <1>7, <1>8, GivenShrinks DEF AccessInv, NumbersHeld

(* A write to a row nobody has inserted uncommitted leaves the inserted ones *)
(* unseen.                                                                   *)
LEMMA UnlockedWrite ==
  ASSUME AccessInv, NEW r \in Requests, NEW u \in Users,
         req'[r].pc \in {"idle", "announce"}, req'[r].ins = FALSE,
         req'[r].pc = "announce" => req'[r].op = "prepare",
         \A q \in Requests \ {r} : req'[q] = req[q],
         ~RowLocked(u, r),
         \A v \in Users \ {u} : member'[v] = member[v]
  PROVE  InsertsUnseen'
<1>1. ASSUME NEW q \in Requests \ {r}, req[q].ins
      PROVE  req[q].of \in Users \ {u}
  BY <1>1 DEF RowLocked, AccessInv, TypeOK, InsertsUnseen, HandlersGrounded
<1> QED
  BY <1>1 DEF AccessInv, InsertsUnseen

(* A member is added or changed. *)
LEMMA PutMemberStep ==
  ASSUME AccessInv, NEW r \in Requests, HandlePutWorkspaceMember(r)
  PROVE  AccessInv'
<1> DEFINE u == req[r].tgt
<1>1. /\ Ends(r) /\ UNCHANGED <<ws, settings, session, resolved, held>>
      /\ ws # None /\ u \in Users /\ req[r].arg \in Role
      /\ ~RowLocked(u, r) /\ member' = AddMember(u, req[r].arg)
  BY DEF HandlePutWorkspaceMember, Doing, At, AccessInv, HandlersGrounded
<1>2. /\ member' \in [Users -> MemberRow \cup {None}] /\ member'[u] # None
      /\ member'[u].uid = IF member[u] = None THEN None ELSE member[u].uid
      /\ \A v \in Users \ {u} : member'[v] = member[v]
  BY <1>1, AddMemberFields DEF AccessInv
<1> HIDE DEF u
<1>3. TypeOK'
  BY <1>1, <1>2, EndsFields DEF AccessInv, TypeOK
<1>4. HandlersGrounded' /\ InsertsUnseen'
  BY <1>1, <1>2, EndsKeeps, EndsFields, UnlockedWrite DEF AccessInv
<1>5. \A v \in Users : /\ member[v] # None => member'[v].uid = member[v].uid
                       /\ member[v] # None => member'[v] # None
                       /\ member[v] = None /\ member'[v] # None =>
                            member'[v].uid = None
  BY <1>1, <1>2
<1>6. NothingBefore' /\ OwnerReaches'
  BY <1>1, <1>5 DEF AccessInv, NothingBefore, OwnerReaches, TypeOK, WsRow
<1>7. ResolvedOnRecord'
  BY <1>1, <1>5 DEF AccessInv, NumbersHeld, ResolvedOnRecord
<1>8. \A v \in Users, n \in Uid : Given(v, n)' => Given(v, n)
  <2>1. \A n \in Uid : n # None
    BY AccessAssumption DEF Uid
  <2> QED
    BY <1>1, <1>5, <2>1, EndsNoAnnouncer DEF Given, NoNewAnnouncer
<1>9. ws'.next_uid \in Nat /\ ws.next_uid <= ws'.next_uid
  BY <1>1, AccessAssumption DEF AccessInv, TypeOK, WsRow, Uid
<1> QED
  BY <1>1, <1>3, <1>4, <1>6, <1>7, <1>8, <1>9, GivenShrinks
     DEF AccessInv, NumbersHeld

(* A member is removed. *)
LEMMA DeleteMemberStep ==
  ASSUME AccessInv, NEW r \in Requests, HandleDeleteWorkspaceMember(r)
  PROVE  AccessInv'
<1> DEFINE u == req[r].tgt
<1>1. /\ Ends(r) /\ UNCHANGED <<ws, settings, session, held>>
      /\ ws # None /\ u \in Users /\ u # ws.owner
      /\ member' = [member EXCEPT ![u] = None]
      /\ resolved' = [resolved EXCEPT ![u] = {}]
  BY DEF HandleDeleteWorkspaceMember, RemoveMember, Doing, At, AccessInv,
     HandlersGrounded
<1> HIDE DEF u
<1>2. TypeOK'
  BY <1>1, EndsFields DEF AccessInv, TypeOK
<1>3. /\ member'[u] = None /\ resolved'[u] = {}
      /\ \A v \in Users \ {u} : member'[v] = member[v] /\ resolved'[v] = resolved[v]
  BY <1>1 DEF AccessInv, TypeOK
<1>4. HandlersGrounded'
  BY <1>1, EndsKeeps
<1>5. InsertsUnseen'
  <2>1. ASSUME NEW q \in Requests, req'[q].ins
        PROVE  /\ q # r /\ req'[q] = req[q] /\ req[q].ins /\ req[q].of \in Users
               /\ member'[req[q].of] = None
    <3>1. q # r /\ req'[q] = req[q]
      BY <1>1, <2>1, EndsFields DEF AccessInv
    <3>2. req[q].of \in Users /\ member[req[q].of] = None
      BY <2>1, <3>1 DEF AccessInv, InsertsUnseen, HandlersGrounded
    <3> QED
      BY <1>3, <2>1, <3>1, <3>2
  <2>2. /\ req'[r].pc = "idle"
        /\ \A q \in Requests \ {r} : req'[q] = req[q]
    BY <1>1, EndsFields DEF AccessInv
  <2>3. \A q \in Requests :
          req'[q].pc \in {"get", "alloc", "announce"} => req'[q].op = "prepare"
    BY <2>2 DEF AccessInv, InsertsUnseen
  <2>4. ASSUME NEW q \in Requests, req'[q].ins
        PROVE  /\ req'[q].pc \in {"get", "alloc"} /\ member'[req'[q].of] = None
               /\ \A p \in Requests \ {q} : req'[p].ins => req'[p].of # req'[q].of
    BY <2>1, <2>4 DEF AccessInv, InsertsUnseen
  <2> QED
    BY <2>3, <2>4 DEF InsertsUnseen
<1>6. NothingBefore' /\ ResolvedOnRecord'
  BY <1>1, <1>3 DEF AccessInv, NothingBefore, NumbersHeld, ResolvedOnRecord
<1>7. OwnerReaches'
  BY <1>1, <1>3 DEF AccessInv, OwnerReaches, TypeOK, WsRow
<1>8. \A v \in Users, n \in Uid : Given(v, n)' => Given(v, n)
  BY <1>1, <1>3, EndsNoAnnouncer DEF Given, NoNewAnnouncer
<1>9. ws'.next_uid \in Nat /\ ws.next_uid <= ws'.next_uid
  BY <1>1, AccessAssumption DEF AccessInv, TypeOK, WsRow, Uid
<1> QED
  BY <1>1, <1>2, <1>4, <1>5, <1>6, <1>7, <1>8, <1>9, GivenShrinks
     DEF AccessInv, NumbersHeld

(* The row of a session is nothing a handler goes by. *)
LEMMA SessionRowKeeps ==
  ASSUME AccessInv, NEW r \in Requests, Ends(r),
         UNCHANGED <<ws, member, settings, resolved, held>>,
         session' \in [Sessions -> Users \cup {None}]
  PROVE  AccessInv'
<1>1. TypeOK'
  BY EndsFields DEF AccessInv, TypeOK
<1>2. HandlersGrounded' /\ InsertsUnseen'
  BY EndsKeeps
<1>3. NothingBefore' /\ ResolvedOnRecord' /\ OwnerReaches'
  BY DEF AccessInv, NothingBefore, NumbersHeld, ResolvedOnRecord, OwnerReaches
<1>4. \A v \in Users, n \in Uid : Given(v, n)' => Given(v, n)
  BY EndsNoAnnouncer DEF Given, NoNewAnnouncer
<1>5. ws # None => ws' # None /\ ws'.next_uid \in Nat /\ ws.next_uid <= ws'.next_uid
  BY AccessAssumption DEF AccessInv, TypeOK, WsRow, Uid
<1> QED
  BY <1>1, <1>2, <1>3, <1>4, <1>5, GivenShrinks DEF AccessInv, NumbersHeld

(* A session row is written. *)
LEMMA CreateSessionStep ==
  ASSUME AccessInv, NEW r \in Requests, CreateSessionRecord(r)
  PROVE  AccessInv'
<1>1. req[r].tgt \in Sessions /\ req[r].user \in Users
  BY DEF CreateSessionRecord, Doing, At, AccessInv, HandlersGrounded
<1>2. session' \in [Sessions -> Users \cup {None}]
  BY <1>1 DEF CreateSessionRecord, CreateSession, AccessInv, TypeOK
<1> QED
  BY <1>2, SessionRowKeeps DEF CreateSessionRecord

(* A session row goes. *)
LEMMA DeleteSessionStep ==
  ASSUME AccessInv, NEW r \in Requests, DeleteSession(r)
  PROVE  AccessInv'
<1>1. session' \in [Sessions -> Users \cup {None}]
  BY DEF DeleteSession, DeleteSessionRow, AccessInv, TypeOK
<1> QED
  BY <1>1, SessionRowKeeps DEF DeleteSession

(* resolveIdentity makes sure of a member row. *)
LEMMA EnsureMemberStep ==
  ASSUME AccessInv, NEW r \in Requests, EnsureMember(r)
  PROVE  AccessInv'
<1> DEFINE fresh == member[req[r].of] = None
<1>1. /\ req[r].pc = "act" /\ req[r].op = "prepare"
      /\ ~RowLocked(req[r].of, r)
      /\ req' = [req EXCEPT ![r].pc = "get", ![r].ins = fresh]
      /\ UNCHANGED <<rows, resolved, held>>
  BY DEF EnsureMember, Doing, At
<1>2. /\ req'[r] \in Request /\ req'[r].pc = "get"
      /\ req'[r].ins = fresh /\ req'[r].op = req[r].op
      /\ req'[r].tgt = req[r].tgt /\ req'[r].of = req[r].of
  <2> DEFINE a == [req[r] EXCEPT !.pc = "get"]
             b == [a EXCEPT !.ins = fresh]
  <2>1. /\ a \in Request /\ a.pc = "get" /\ a.op = req[r].op
        /\ a.tgt = req[r].tgt /\ a.of = req[r].of
    BY DEF AccessInv, TypeOK, Request
  <2>2. req'[r] = b
    BY <1>1 DEF AccessInv, TypeOK
  <2>3. fresh \in BOOLEAN
    OBVIOUS
  <2> HIDE DEF a, fresh
  <2>4. /\ b \in Request /\ b.pc = a.pc /\ b.op = a.op /\ b.tgt = a.tgt
        /\ b.ins = fresh /\ b.of = a.of
    BY <2>1, <2>3 DEF Request
  <2> HIDE DEF b
  <2> QED
    BY <2>1, <2>2, <2>4
<1>3. \A q \in Requests \ {r} : req'[q] = req[q]
  BY <1>1 DEF AccessInv, TypeOK
<1>4. TypeOK'
  BY <1>1, <1>2, <1>3 DEF AccessInv, TypeOK, rows
<1>5. /\ req[r].pc = "act" /\ req[r].op = "prepare"
      /\ session' = session /\ member' = member /\ ws' = ws
  BY <1>1 DEF rows
<1>6. HandlersGrounded' /\ NoNewAnnouncer
  BY <1>2, <1>3, <1>5 DEF AccessInv, HandlersGrounded, NoNewAnnouncer
<1>7. ASSUME NEW q \in Requests \ {r}, req[q].ins
      PROVE  req[q].of # req[r].of
  BY <1>1, <1>7 DEF RowLocked
<1>8. req'[r].ins => member[req[r].of] = None
  BY <1>2
<1>9. InsertsUnseen'
  BY <1>2, <1>3, <1>5, <1>7, <1>8 DEF AccessInv, InsertsUnseen
<1> QED
  BY <1>1, <1>4, <1>6, <1>9, RowsKeep DEF AccessInv

(* A handler that has resolved a number is about to announce it. *)
LEMMA ResolvesFields ==
  ASSUME AccessInv, NEW r \in Requests, NEW n \in Uid, Resolves(r, n),
         req[r].pc # "idle", req[r].op = "prepare"
  PROVE  /\ req' \in [Requests -> Request]
         /\ req'[r].pc = "announce" /\ req'[r].ins = FALSE
         /\ req'[r].op = "prepare" /\ req'[r].of = req[r].of
         /\ req'[r].uid = n
         /\ \A q \in Requests \ {r} : req'[q] = req[q]
         /\ (ws # None /\ ws' # None /\ ws'.owner = ws.owner) => HandlersGrounded'
<1> DEFINE a == [req[r] EXCEPT !.pc = "announce", !.ins = FALSE, !.uid = n]
<1>1. /\ a \in Request /\ a.pc = "announce" /\ a.ins = FALSE /\ a.uid = n
      /\ a.op = req[r].op /\ a.of = req[r].of /\ a.tgt = req[r].tgt
  BY DEF AccessInv, TypeOK, Request
<1>2. req' = [req EXCEPT ![r] = a]
  BY DEF Resolves
<1> HIDE DEF a
<1>3. /\ req' \in [Requests -> Request] /\ req'[r] = a
      /\ \A q \in Requests \ {r} : req'[q] = req[q]
  BY <1>1, <1>2 DEF AccessInv, TypeOK
<1>4. (ws # None /\ ws' # None /\ ws'.owner = ws.owner) => HandlersGrounded'
  BY <1>1, <1>3 DEF AccessInv, HandlersGrounded
<1> QED
  BY <1>1, <1>3, <1>4

(* A number on record is resolved again for its own user. *)
LEMMA ResolvesAgain ==
  ASSUME AccessInv, NEW r \in Requests, req[r].of \in Users,
         req[r].pc # "idle", req[r].op = "prepare",
         member[req[r].of] # None, member[req[r].of].uid # None,
         Resolves(r, member[req[r].of].uid), member' = member,
         ws # None, ws' # None, ws'.owner = ws.owner,
         ws'.next_uid >= ws.next_uid, ws'.next_uid \in Nat
  PROVE  /\ req' \in [Requests -> Request] /\ HandlersGrounded' /\ InsertsUnseen'
         /\ resolved' \in [Users -> SUBSET Uid] /\ held' = held
         /\ NumbersHeld' /\ NothingBefore' /\ OwnerReaches'
<1> DEFINE u == req[r].of
           n == member[u].uid
<1>1. n \in Uid
  BY DEF AccessInv, TypeOK, MemberRow
<1>2. /\ held' = held
      /\ resolved' = [resolved EXCEPT ![u] = @ \cup {n}]
  BY DEF Resolves
<1>3. /\ req' \in [Requests -> Request] /\ HandlersGrounded'
      /\ req'[r].pc = "announce" /\ req'[r].ins = FALSE
      /\ req'[r].op = "prepare" /\ req'[r].of = u /\ req'[r].uid = n
      /\ \A q \in Requests \ {r} : req'[q] = req[q]
  BY <1>1, ResolvesFields
<1>4. InsertsUnseen'
  BY <1>3 DEF AccessInv, InsertsUnseen
<1>5. u \in Users /\ member[u] # None /\ member[u].uid = n
  OBVIOUS
<1> HIDE DEF u, n
<1>6. /\ resolved' \in [Users -> SUBSET Uid]
      /\ \A v \in Users \ {u} : resolved'[v] = resolved[v]
      /\ resolved'[u] = resolved[u] \cup {n}
  BY <1>1, <1>2, <1>5 DEF AccessInv, TypeOK
<1>7. resolved'[u] = {n}
  BY <1>5, <1>6 DEF AccessInv, NumbersHeld, ResolvedOnRecord
<1>8. ResolvedOnRecord'
  BY <1>5, <1>6, <1>7 DEF AccessInv, NumbersHeld, ResolvedOnRecord
<1>9. \A v \in Users, k \in Uid : Given(v, k)' => Given(v, k)
  BY <1>2, <1>3, <1>5 DEF Given
<1>10. ws.next_uid \in Nat
  BY AccessAssumption DEF AccessInv, TypeOK, WsRow, Uid
<1>11. NumbersApart'
  BY <1>9, <1>10, GivenShrinks
<1>12. NothingBefore' /\ OwnerReaches'
  BY DEF AccessInv, NothingBefore, OwnerReaches
<1> QED
  BY <1>2, <1>3, <1>4, <1>6, <1>8, <1>11, <1>12 DEF NumbersHeld

(* resolveIdentity reads the number. *)
LEMMA ReadUidStep ==
  ASSUME AccessInv, NEW r \in Requests, ReadUid(r)
  PROVE  AccessInv'
<1>1. /\ req[r].pc = "get" /\ req[r].op = "prepare" /\ UNCHANGED rows
      /\ req[r].of \in Users /\ ws # None
  BY DEF ReadUid, At, AccessInv, TypeOK, InsertsUnseen, HandlersGrounded
<1>2. CASE req' = [req EXCEPT ![r].pc = "alloc"] /\ UNCHANGED <<resolved, held>>
  <2>1. /\ req'[r] \in Request /\ req'[r].pc = "alloc"
        /\ req'[r].op = req[r].op /\ req'[r].tgt = req[r].tgt
        /\ req'[r].ins = req[r].ins /\ req'[r].of = req[r].of
    BY <1>2 DEF AccessInv, TypeOK, Request
  <2>2. \A q \in Requests \ {r} : req'[q] = req[q]
    BY <1>2 DEF AccessInv, TypeOK
  <2>3. TypeOK'
    BY <1>1, <1>2, <2>1, <2>2 DEF AccessInv, TypeOK, rows
  <2>4. HandlersGrounded' /\ NoNewAnnouncer
    BY <1>1, <2>1, <2>2 DEF AccessInv, HandlersGrounded, NoNewAnnouncer, rows
  <2>5. InsertsUnseen'
    BY <1>1, <2>1, <2>2 DEF AccessInv, InsertsUnseen, rows
  <2> QED
    BY <1>1, <1>2, <2>3, <2>4, <2>5, RowsKeep DEF AccessInv
<1>3. CASE Ends(r) /\ UNCHANGED <<resolved, held>>
  <2>1. TypeOK'
    BY <1>1, <1>3, EndsFields DEF AccessInv, TypeOK, rows
  <2> QED
    BY <1>1, <1>3, <2>1, EndsKeeps, EndsNoAnnouncer, RowsKeep DEF AccessInv, rows
<1>4. CASE ~Unnumbered(Seen(r)) /\ Seen(r) # None /\ Resolves(r, Seen(r).uid)
  <2>1. ~req[r].ins
    BY <1>4, NoneIsNoRow DEF Unnumbered, Seen, MemberRow, Role
  <2>2. Seen(r) = member[req[r].of]
    BY <2>1 DEF Seen, GetMembership
  <2>3. /\ member[req[r].of] # None /\ member[req[r].of].uid # None
        /\ Resolves(r, member[req[r].of].uid)
    BY <1>4, <2>2 DEF Unnumbered
  <2>4. ws.next_uid \in Nat /\ ws' = ws /\ member' = member
    BY <1>1, AccessAssumption DEF AccessInv, TypeOK, WsRow, Uid, rows
  <2>5. /\ req' \in [Requests -> Request] /\ HandlersGrounded' /\ InsertsUnseen'
        /\ resolved' \in [Users -> SUBSET Uid] /\ held' = held
        /\ NumbersHeld' /\ NothingBefore' /\ OwnerReaches'
    BY <1>1, <2>3, <2>4, ResolvesAgain
  <2>6. TypeOK'
    BY <1>1, <2>5 DEF AccessInv, TypeOK, rows
  <2> QED
    BY <2>5, <2>6 DEF AccessInv
<1>5. \/ req' = [req EXCEPT ![r].pc = "alloc"] /\ UNCHANGED <<resolved, held>>
      \/ Ends(r) /\ UNCHANGED <<resolved, held>>
      \/ ~Unnumbered(Seen(r)) /\ Seen(r) # None /\ Resolves(r, Seen(r).uid)
  BY DEF ReadUid
<1> QED
  BY <1>2, <1>3, <1>4, <1>5

(* The row a transaction sees is its own insert, or the one on record. *)
LEMMA SeenFields ==
  ASSUME AccessInv, NEW r \in Requests, req[r].of \in Users, Seen(r) # None
  PROVE  /\ Seen(r) \in MemberRow
         /\ req[r].ins => Seen(r).uid = None /\ member[req[r].of] = None
         /\ ~req[r].ins => Seen(r) = member[req[r].of]
  BY DEF Seen, GetMembership, MemberRow, Role, AccessInv, TypeOK, InsertsUnseen

(* resolveIdentity claims the next number. *)
LEMMA ClaimUidStep ==
  ASSUME AccessInv, NEW r \in Requests, ClaimUid(r)
  PROVE  AccessInv'
<1> DEFINE u == req[r].of
<1>1. /\ req[r].pc = "alloc" /\ req[r].op = "prepare"
      /\ u \in Users /\ ws # None /\ ~RowLocked(u, r)
      /\ UNCHANGED <<settings, session>>
      /\ ws \in WsRow /\ ws.next_uid \in Uid /\ ws.next_uid < MaxUid
  BY DEF ClaimUid, At, AccessInv, TypeOK, InsertsUnseen, HandlersGrounded, WsRow
<1>2. CASE Seen(r) = None
  <2>1. Ends(r) /\ UNCHANGED <<rows, resolved, held>>
    BY <1>1, <1>2 DEF ClaimUid, rows
  <2>2. TypeOK'
    BY <2>1, EndsFields DEF AccessInv, TypeOK, rows
  <2> QED
    BY <2>1, <2>2, EndsKeeps, EndsNoAnnouncer, RowsKeep DEF AccessInv, rows
<1>3. CASE Seen(r) # None
  <2>1. ws' = [ws EXCEPT !.next_uid = @ + 1]
    BY <1>1, <1>3 DEF ClaimUid
  <2>2. /\ ws' \in WsRow /\ ws'.owner = ws.owner
        /\ ws'.next_uid = ws.next_uid + 1 /\ ws'.next_uid \in Nat
    BY <1>1, <2>1, AccessAssumption DEF WsRow, Uid
  <2>3. ws' # None
    BY <2>2, NoneIsNoRow
  <2>4. ws.next_uid \in Nat
    BY <1>1, AccessAssumption DEF Uid
  <2>5. CASE ~Unnumbered(Seen(r))
    <3>1. member' = member /\ Resolves(r, Seen(r).uid)
      BY <1>3, <2>5 DEF ClaimUid
    <3>2. Seen(r) = member[u] /\ member[u] # None /\ member[u].uid # None
      BY <1>1, <1>3, <2>5, SeenFields DEF Unnumbered
    <3>3. ws'.next_uid >= ws.next_uid
      BY <2>2, <2>4
    <3>4. /\ req' \in [Requests -> Request] /\ HandlersGrounded' /\ InsertsUnseen'
          /\ resolved' \in [Users -> SUBSET Uid] /\ held' = held
          /\ NumbersHeld' /\ NothingBefore' /\ OwnerReaches'
      BY <1>1, <2>2, <2>3, <3>1, <3>2, <3>3, ResolvesAgain
    <3>5. TypeOK'
      BY <1>1, <2>2, <3>1, <3>4 DEF AccessInv, TypeOK
    <3> QED
      BY <3>4, <3>5 DEF AccessInv
  <2>6. CASE Unnumbered(Seen(r))
    <3> DEFINE n == ws.next_uid
               new == [Seen(r) EXCEPT !.uid = n]
    <3>1. /\ member' = [member EXCEPT ![u] = new]
          /\ Resolves(r, n)
      BY <1>3, <2>6 DEF ClaimUid, NextWorkspaceUID
    <3>2. Seen(r) \in MemberRow
      BY <1>1, <1>3, SeenFields
    <3>3. new \in MemberRow /\ new.uid = n
      BY <1>1, <3>2 DEF MemberRow
    <3>4. new # None
      BY <3>3, NoneIsNoRow
    <3>5. resolved[u] = {}
      <4>1. member[u] # None => member[u].uid = None
        BY <1>1, <1>3, <2>6, SeenFields DEF Unnumbered
      <4>2. None \notin resolved[u]
        BY <1>1, AccessAssumption DEF AccessInv, TypeOK, Uid
      <4> QED
        BY <1>1, <4>1, <4>2 DEF AccessInv, NumbersHeld, ResolvedOnRecord
    <3>6. /\ req' \in [Requests -> Request] /\ HandlersGrounded'
          /\ req'[r].pc = "announce" /\ req'[r].ins = FALSE
          /\ req'[r].op = "prepare" /\ req'[r].of = u /\ req'[r].uid = n
          /\ \A q \in Requests \ {r} : req'[q] = req[q]
      BY <1>1, <2>2, <2>3, <3>1, ResolvesFields
    <3>7. held' = held /\ resolved' = [resolved EXCEPT ![u] = @ \cup {n}]
      BY <3>1 DEF Resolves
    <3> HIDE DEF new, u
    <3>8. /\ member' \in [Users -> MemberRow \cup {None}]
          /\ member'[u] = new /\ \A v \in Users \ {u} : member'[v] = member[v]
      BY <1>1, <3>1, <3>3 DEF AccessInv, TypeOK
    <3>9. /\ resolved' \in [Users -> SUBSET Uid] /\ resolved'[u] = {n}
          /\ \A v \in Users \ {u} : resolved'[v] = resolved[v]
      BY <1>1, <3>5, <3>7 DEF AccessInv, TypeOK
    <3>10. TypeOK'
      BY <1>1, <2>2, <3>6, <3>7, <3>8, <3>9 DEF AccessInv, TypeOK
    <3>11. InsertsUnseen'
      BY <1>1, <3>6, <3>8, UnlockedWrite
    <3>12. OwnerReaches' /\ NothingBefore'
      BY <1>1, <2>2, <2>3, <3>4, <3>8 DEF AccessInv, OwnerReaches, WsRow,
         NothingBefore
    <3>13. ResolvedOnRecord'
      BY <3>3, <3>4, <3>8, <3>9 DEF AccessInv, NumbersHeld, ResolvedOnRecord
    <3>14. ASSUME NEW v \in Users, NEW k \in Uid, Given(v, k)'
           PROVE  Given(v, k) \/ (v = u /\ k = n)
      BY <3>3, <3>6, <3>7, <3>8, <3>14 DEF Given
    <3>15. ASSUME NEW v \in Users, NEW k \in Uid, Given(v, k)
           PROVE  k \in Nat /\ k < n
      BY <3>15, AccessAssumption DEF AccessInv, NumbersHeld, NumbersApart, Uid
    <3>16. \A v \in Users, k \in Uid : Given(v, k)' => k < ws'.next_uid
      BY <2>2, <2>4, <3>14, <3>15
    <3>17. ASSUME NEW v \in Users, NEW w \in Users, NEW k \in Uid,
                  Given(v, k)', Given(w, k)'
           PROVE  v = w
      <4>1. CASE k = n
        BY <2>4, <3>14, <3>15, <3>17, <4>1
      <4>2. CASE k # n
        BY <3>14, <3>17, <4>2 DEF AccessInv, NumbersHeld, NumbersApart
      <4> QED
        BY <4>1, <4>2
    <3> QED
      BY <2>3, <3>6, <3>10, <3>11, <3>12, <3>13, <3>16, <3>17
         DEF AccessInv, NumbersHeld, NumbersApart
  <2> QED
    BY <2>5, <2>6
<1> QED
  BY <1>2, <1>3

(* prepareSession announces what was resolved. *)
LEMMA AnnounceStep ==
  ASSUME AccessInv, NEW r \in Requests, Announce(r)
  PROVE  AccessInv'
<1>1. /\ req[r].pc = "announce" /\ req[r].of \in Users /\ req[r].uid \in Uid
      /\ Ends(r) /\ UNCHANGED <<ws, member, settings, session, resolved>>
      /\ held' = held \cup {<<req[r].of, req[r].uid>>} /\ ws # None
  BY DEF Announce, At, rows, AccessInv, InsertsUnseen, HandlersGrounded
<1>2. TypeOK'
  <2>1. held' \subseteq Users \X Uid
    BY <1>1 DEF AccessInv, TypeOK
  <2> QED
    BY <1>1, <2>1, EndsFields DEF AccessInv, TypeOK
<1>3. HandlersGrounded' /\ InsertsUnseen'
  BY <1>1, EndsKeeps
<1>4. NothingBefore' /\ ResolvedOnRecord' /\ OwnerReaches'
  BY <1>1 DEF AccessInv, NothingBefore, NumbersHeld, ResolvedOnRecord, OwnerReaches
<1>5. \A v \in Users, n \in Uid : Given(v, n)' => Given(v, n)
  BY <1>1, EndsNoAnnouncer DEF Given, NoNewAnnouncer
<1>6. ws'.next_uid \in Nat /\ ws.next_uid <= ws'.next_uid
  BY <1>1, AccessAssumption DEF AccessInv, TypeOK, WsRow, Uid
<1> QED
  BY <1>1, <1>2, <1>3, <1>4, <1>5, <1>6, GivenShrinks DEF AccessInv, NumbersHeld

-----------------------------------------------------------------------------
(* Every step keeps the invariant. *)
LEMMA NextInv == AccessInv /\ [Next]_vars => AccessInv'
<1> SUFFICES ASSUME AccessInv, [Next]_vars PROVE AccessInv'
  OBVIOUS
<1>1. CASE UNCHANGED vars
  BY <1>1 DEF vars, AccessInv, TypeOK, HandlersGrounded, InsertsUnseen,
     NothingBefore, NumbersHeld, NumbersApart, Given, ResolvedOnRecord, OwnerReaches
<1>2. CASE \E u \in Users, arg \in Setting : HandleUpdateOrgSettings(u, arg)
  BY <1>2, SettingsStep
<1>3. ASSUME NEW r \in Requests,
             \/ At(r, "idle") /\ \E u \in Users, c \in Calls : Arrive(r, u, c)
             \/ ReadMembership(r)
             \/ HandleCreateWorkspace(r) \/ HandleSetAccessScope(r)
             \/ HandlePutWorkspaceMember(r) \/ HandleDeleteWorkspaceMember(r)
             \/ CreateSessionRecord(r) \/ DeleteSession(r)
             \/ EnsureMember(r) \/ ReadUid(r) \/ ClaimUid(r) \/ Announce(r)
             \/ Fails(r)
      PROVE  AccessInv'
  BY <1>3, ArriveStep, ReadMembershipStep, CreateWorkspaceStep,
     SetAccessScopeStep, PutMemberStep, DeleteMemberStep, CreateSessionStep,
     DeleteSessionStep, EnsureMemberStep, ReadUidStep, ClaimUidStep,
     AnnounceStep, FailsStep
<1> QED
  BY <1>1, <1>2, <1>3 DEF Next

(* The inductive invariant: a handler past its checks is still entitled to   *)
(* what it acts on, an uncommitted row is nobody else's, and the counter is  *)
(* above every uid announced, on record or about to be announced             *)
(* (resolveIdentity, prepareSession, handleDeleteWorkspaceMember).           *)
THEOREM AccessInvariant == Spec => []AccessInv
BY InitInv, NextInv, PTL DEF Spec

(* Every variable keeps its type. *)
THEOREM AccessTypes == Spec => []TypeOK
<1>1. AccessInv => TypeOK
  BY DEF AccessInv
<1> QED
  BY <1>1, AccessInvariant, PTL

(* No two users are ever announced one uid, and one user's racing first      *)
(* sessions are resolved to the one uid on record (NextWorkspaceUID,         *)
(* SetMemberUID).                                                            *)
THEOREM UidsAreOwn == Spec => []UidIsOwn
<1>1. AccessInv => UidIsOwn
  <2> SUFFICES ASSUME AccessInv PROVE UidIsOwn
    OBVIOUS
  <2>1. ASSUME NEW x \in held, NEW y \in held, x[2] = y[2]
        PROVE  x[1] = y[1]
    <3>1. x[1] \in Users /\ y[1] \in Users /\ x[2] \in Uid
      BY DEF AccessInv, TypeOK
    <3>2. x = <<x[1], x[2]>> /\ y = <<y[1], y[2]>>
      BY DEF AccessInv, TypeOK
    <3>3. Given(x[1], x[2]) /\ Given(y[1], x[2])
      BY <2>1, <3>2 DEF Given
    <3> QED
      BY <3>1, <3>3 DEF AccessInv, NumbersHeld, NumbersApart
  <2> QED
    BY <2>1 DEF UidIsOwn, AccessInv, NumbersHeld, ResolvedOnRecord
<1> QED
  BY <1>1, AccessInvariant, PTL

(* The owner of the record is never removed from it, however a removal's     *)
(* check and its act interleave with others (handleDeleteWorkspaceMember).   *)
THEOREM OwnerAlwaysReaches == Spec => []OwnerReaches
<1>1. AccessInv => OwnerReaches
  BY DEF AccessInv
<1> QED
  BY <1>1, AccessInvariant, PTL

(* The rule in Go and the rules in the listings' SQL agree about every       *)
(* caller, whatever rows there are (accessTo, ListWorkspacesForUser,         *)
(* ListOrgSessionsVisible).                                                  *)
THEOREM RulesAlwaysAgree == Spec => []RulesAgree
<1>1. AccessInv => RulesAgree
  <2> SUFFICES ASSUME AccessInv PROVE RulesAgree
    OBVIOUS
  <2>1. ASSUME NEW u \in Users, member[u] # None
        PROVE  member[u].role \in Role /\ member[u].role # None
    BY <2>1, AccessAssumption DEF AccessInv, TypeOK, MemberRow, Role
  <2>2. "owner" # None /\ "user" # None
    BY AccessAssumption
  <2>3. ASSUME NEW u \in Users, OrgRole[u] # None
        PROVE  listWorkspaces(u) <=> CanUse(u)
    BY <2>1, <2>2, <2>3 DEF listWorkspaces, CanUse, ListWorkspacesForUser,
       accessTo, isOrgOwner
  <2>4. ASSUME NEW u \in Users, NEW s \in Sessions, MaySee(u, s)
        PROVE  s \in listSessions(u) \cap listOrgSessions(u)
    BY <2>1, <2>2, <2>4 DEF MaySee, CanUse, isVisible, accessTo, isOrgOwner,
       listSessions, listOrgSessions, ownsWorkspace, GetMembership,
       ListSessions, ListSessionsForUser, ListOrgSessionsVisible
  <2> QED
    BY <2>3, <2>4 DEF RulesAgree
<1> QED
  BY <1>1, AccessInvariant, PTL
=============================================================================

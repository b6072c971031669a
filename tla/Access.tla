------------------------------ MODULE Access ------------------------------
(***************************************************************************)
(* Who may use a workspace, who may see its sessions, and which uid a      *)
(* member's sessions run as.  A handler resolves the caller's standing in  *)
(* several transactions (the organization, the workspace, the membership), *)
(* and acts in one more: what it acts on may have changed since.           *)
(* prepareSession, on the way to every fork, allocates a uid by writing to *)
(* the same membership rows the access rule reads, and announces it to the *)
(* workspace's task once that transaction is over.                         *)
(*                                                                         *)
(* One workspace of one organization; members of the organization do not   *)
(* change (Directory).  PostgreSQL runs these transactions READ COMMITTED: *)
(* a statement sees what is committed and what its own transaction wrote,  *)
(* and waits for the row another one has written.                          *)
(***************************************************************************)
EXTENDS Naturals, FiniteSets

CONSTANTS
  Users,
  OrgRole,      \* user -> their role in the organization, None for a stranger
  Requests,     \* handlers running at a time
  Sessions,     \* ids of sessions
  Scopes,       \* access scopes clients ask for: no statement and no check
                \* tells "owner" from "members", so one of the two is enough
  uidBase,      \* the first uid handed out
  MaxUid,       \* bound: uids handed out stay below it
  None

ASSUME AccessAssumption ==
  /\ Scopes \subseteq {"owner", "members", "org"}
  /\ OrgRole \in [Users -> {"owner", "user", None}]
  /\ uidBase \in Nat /\ MaxUid \in Nat /\ uidBase <= MaxUid
  /\ None \notin Nat \cup Users \cup {"owner", "user"}

Role   == {"owner", "user"}
Setting == {"allowed", "refused"}
Uid    == uidBase..MaxUid
Ops    == {"create", "patch", "put", "del", "session", "prepare", "delsess"}

VARIABLES
  ws,        \* the workspace's row
  member,    \* workspace_member: user -> row
  settings,  \* org_settings: members_can_create_workspaces
  session,   \* session id -> its user
  req,       \* the handlers
  resolved,  \* history: uids a user's sessions were resolved to, since they
             \* last became a member
  held       \* history: every (user, uid) announced, heard or not

vars == <<ws, member, settings, session, req, resolved, held>>
rows == <<ws, member, settings, session>>

WsRow     == [owner : Users, access_scope : Scopes, next_uid : Uid]
MemberRow == [role : Role, uid : Uid \cup {None}]

(* None stands for the absence of a row. *)
ASSUME NoneIsNoRow == None \notin WsRow \cup MemberRow

Idle == [pc |-> "idle", op |-> "create", user |-> None, tgt |-> None,
         of |-> None, arg |-> None, snap |-> None, ins |-> FALSE, uid |-> None]
Request == [pc : {"idle", "member", "act", "get", "alloc", "announce"}, op : Ops,
            user : Users \cup {None}, tgt : Users \cup Sessions \cup {None},
            of : Users \cup {None}, arg : Role \cup Scopes \cup {None},
            snap : Scopes \cup {None}, ins : BOOLEAN, uid : Uid \cup {None}]

Call(op, tgts, args) == [op : {op}, tgt : tgts, arg : args]
Calls == Call("create", {None}, Scopes) \cup Call("patch", {None}, Scopes)
           \cup Call("put", Users, Role) \cup Call("del", Users, {None})
           \cup UNION {Call(op, Sessions, {None}) :
                         op \in {"session", "prepare", "delsess"}}

(* Every variable has its type. *)
TypeOK ==
  /\ ws \in WsRow \cup {None}
  /\ member \in [Users -> MemberRow \cup {None}]
  /\ settings \in Setting
  /\ session \in [Sessions -> Users \cup {None}]
  /\ req \in [Requests -> Request]
  /\ resolved \in [Users -> SUBSET Uid]
  /\ held \subseteq Users \X Uid

-----------------------------------------------------------------------------
(* Statements (celldb) *)

CreateWorkspace(u, scope) ==
  [owner |-> u, access_scope |-> scope, next_uid |-> uidBase]
SetWorkspaceAccessScope(scope) == [ws EXCEPT !.access_scope = scope]

GetMembership(u) == member[u]

(* DO UPDATE SET role: the uid stays. *)
AddMember(u, role) ==
  [member EXCEPT ![u] = IF @ = None THEN [role |-> role, uid |-> None]
                        ELSE [@ EXCEPT !.role = role]]
RemoveMember(u) == [member EXCEPT ![u] = None]

(* NextWorkspaceUID: the counter only climbs. *)
NextWorkspaceUID == ws.next_uid

(* Slip: whoever comes last sets the number. *)
AnyRow(row) == row # None

(* The WHERE of SetMemberUID. *)
Unnumbered(row) == row # None /\ row.uid = None

(* Slip: the scope is left to whoever has no row. *)
ListedByRow(u) == ws # None /\ member[u] # None

ListWorkspacesForUser(u) ==
  ws # None /\ (ws.access_scope = "org" \/ member[u] # None)

CreateSession(s, u) == [session EXCEPT ![s] = u]
DeleteSessionRow(s) == [session EXCEPT ![s] = None]
ListSessions           == {s \in Sessions : session[s] # None}
ListSessionsForUser(u) == {s \in ListSessions : session[s] = u}
ListOrgSessionsVisible(u) ==
  {s \in ListSessions :
     session[s] = u \/ (member[u] # None /\ member[u].role = "owner")}

-----------------------------------------------------------------------------
(* The access rule *)

isOrgOwner(u) == OrgRole[u] = "owner"

(* accessTo, with what it read of the workspace's row and of the caller's    *)
(* membership: the role, or None for "no such workspace".                    *)
accessTo(u, scope, row) ==
  CASE isOrgOwner(u)  -> "owner"
    [] OTHER -> IF row # None THEN row.role
                ELSE IF scope = "org" THEN "user" ELSE None

CanUse(u) == /\ OrgRole[u] # None /\ ws # None
             /\ accessTo(u, ws.access_scope, member[u]) # None

(* isMine, isVisible, of a session of the user of. *)
isVisible(u, of, role) == of = u \/ role = "owner"

(* requireSession, of what is there now. *)
MaySee(u, s) ==
  /\ CanUse(u) /\ session[s] # None
  /\ isVisible(u, session[s], accessTo(u, ws.access_scope, member[u]))

listWorkspaces(u) == IF isOrgOwner(u) THEN ws # None ELSE ListWorkspacesForUser(u)
ownsWorkspace(u) ==
  isOrgOwner(u) \/ (GetMembership(u) # None /\ GetMembership(u).role = "owner")
listSessions(u) ==
  IF ownsWorkspace(u) THEN ListSessions ELSE ListSessionsForUser(u)
listOrgSessions(u) ==
  IF isOrgOwner(u) THEN ListSessions ELSE ListOrgSessionsVisible(u)

mayCreateWorkspace(u) == isOrgOwner(u) \/ settings = "allowed"

-----------------------------------------------------------------------------
Init ==
  /\ ws = None
  /\ member = [u \in Users |-> None]
  /\ settings = "refused"
  /\ session = [s \in Sessions |-> None]
  /\ req = [r \in Requests |-> Idle]
  /\ resolved = [u \in Users |-> {}]
  /\ held = {}

At(r, pc)   == req[r].pc = pc
Doing(r, op) == At(r, "act") /\ req[r].op = op
Ends(r)     == req' = [req EXCEPT ![r] = Idle]

(* A transaction that has inserted the row of u and not committed. *)
RowLocked(u, r) == \E q \in Requests \ {r} :
                     req[q].ins /\ req[q].of = u

(* Slip: anybody may be removed, the owner of the record included. *)
Removable(u) == TRUE

(* Not the workspace's own owner_user_id. *)
MayRemove(u) == u # ws.owner

(* A request starts with its first read, and one that ends there has no      *)
(* effect: requireOrg, then mayCreateWorkspace, getWorkspaceByName, or the   *)
(* session's row and its workspace's.  What cannot change (who is in the     *)
(* organization, the workspace's owner_user_id) is asked here too.  The      *)
(* handler keeps its own copy of the session's user.                         *)
Arrive(r, u, c) ==
  /\ At(r, "idle") /\ OrgRole[u] # None
  /\ CASE c.op = "create"  -> mayCreateWorkspace(u)
       [] c.op = "patch"   -> ws # None
       [] c.op = "put"     -> ws # None /\ OrgRole[c.tgt] # None
       [] c.op = "del"     -> ws # None /\ MayRemove(c.tgt)
       [] c.op = "session" -> ws # None /\ session[c.tgt] = None
       [] OTHER            -> ws # None /\ session[c.tgt] # None
  /\ req' = [req EXCEPT ![r] =
       [Idle EXCEPT !.op = c.op, !.user = u, !.tgt = c.tgt, !.arg = c.arg,
                    !.pc = IF c.op = "create" THEN "act" ELSE "member",
                    !.of = IF c.op \in {"prepare", "delsess"}
                           THEN session[c.tgt] ELSE None,
                    !.snap = IF c.op = "create" THEN None ELSE ws.access_scope]]
  /\ UNCHANGED <<rows, resolved, held>>

(* What each handler asks of the role: requireWorkspaceOwner, requireSession *)
(* or requireWorkspace.                                                      *)
Allowed(r, role) ==
  LET q == req[r]
  IN  CASE q.op \in {"patch", "put", "del"} -> role = "owner"
        [] q.op \in {"prepare", "delsess"} ->
             role # None /\ isVisible(q.user, q.of, role)
        [] OTHER -> role # None

ReadMembership(r) ==
  /\ At(r, "member")
  /\ LET role == accessTo(req[r].user, req[r].snap, GetMembership(req[r].user))
     IN  IF Allowed(r, role)
         THEN req' = [req EXCEPT ![r].pc = "act", ![r].snap = None,
                   ![r].user = IF req[r].op = "session" THEN @ ELSE None,
                   ![r].of = IF req[r].op = "prepare" THEN @ ELSE None]
         ELSE Ends(r)
  /\ UNCHANGED <<rows, resolved, held>>

(* createWorkspace: the row and its owner's membership, in one transaction. *)
createWorkspace(u, scope) ==
  /\ ws' = CreateWorkspace(u, scope)
  /\ member' = AddMember(u, "owner")

(* handleCreateWorkspace; UNIQUE (tenant_id, name). *)
HandleCreateWorkspace(r) ==
  /\ Doing(r, "create")
  /\ IF ws = None
     THEN createWorkspace(req[r].user, req[r].arg)
     ELSE UNCHANGED <<ws, member>>
  /\ Ends(r)
  /\ UNCHANGED <<settings, session, resolved, held>>

(* handleUpdateOrgSettings.  Bound: only while there is no workspace, since   *)
(* nothing reads the settings after.                                         *)
HandleUpdateOrgSettings(u, arg) ==
  /\ isOrgOwner(u) /\ ws = None
  /\ settings' = arg
  /\ UNCHANGED <<ws, member, session, req, resolved, held>>

(* The access scope half of handleRenameWorkspace. *)
HandleSetAccessScope(r) ==
  /\ Doing(r, "patch")
  /\ ws' = SetWorkspaceAccessScope(req[r].arg)
  /\ Ends(r)
  /\ UNCHANGED <<member, settings, session, resolved, held>>

(* handlePutWorkspaceMember. *)
HandlePutWorkspaceMember(r) ==
  /\ Doing(r, "put") /\ ~RowLocked(req[r].tgt, r)
  /\ member' = AddMember(req[r].tgt, req[r].arg)
  /\ Ends(r)
  /\ UNCHANGED <<ws, settings, session, resolved, held>>

(* handleDeleteWorkspaceMember.  The statement neither sees nor waits for a   *)
(* row another transaction has inserted and not committed.                   *)
HandleDeleteWorkspaceMember(r) ==
  /\ Doing(r, "del")
  /\ member' = RemoveMember(req[r].tgt)
  /\ resolved' = [resolved EXCEPT ![req[r].tgt] = {}]
  /\ Ends(r)
  /\ UNCHANGED <<ws, settings, session, held>>

(* handleCreateSession, once the task is up: createSessionRecord. *)
CreateSessionRecord(r) ==
  /\ Doing(r, "session") /\ session[req[r].tgt] = None
  /\ session' = CreateSession(req[r].tgt, req[r].user)
  /\ Ends(r)
  /\ UNCHANGED <<ws, member, settings, resolved, held>>

(* deleteSession, idempotent, beside whatever else has the session. *)
DeleteSession(r) ==
  /\ Doing(r, "delsess")
  /\ session' = DeleteSessionRow(req[r].tgt)
  /\ Ends(r)
  /\ UNCHANGED <<ws, member, settings, resolved, held>>

-----------------------------------------------------------------------------
(* resolveIdentity, for the session's user *)

(* EnsureMember: ON CONFLICT DO NOTHING.  The inserted row is locked until   *)
(* the transaction ends.                                                     *)
EnsureMember(r) ==
  /\ Doing(r, "prepare") /\ ~RowLocked(req[r].of, r)
  /\ req' = [req EXCEPT ![r].pc = "get", ![r].ins = member[req[r].of] = None]
  /\ UNCHANGED <<rows, resolved, held>>

(* The row as this transaction sees it. *)
Seen(r) == IF req[r].ins THEN [role |-> "user", uid |-> None]
           ELSE GetMembership(req[r].of)

(* The transaction commits with a number, which is announced after. *)
Resolves(r, uid) ==
  /\ req' = [req EXCEPT ![r] = [@ EXCEPT !.pc = "announce", !.ins = FALSE,
                                         !.uid = uid]]
  /\ resolved' = [resolved EXCEPT ![req[r].of] = @ \cup {uid}]
  /\ UNCHANGED held

(* The uid is there; or a row removed since EnsureMember is an error. *)
ReadUid(r) ==
  /\ At(r, "get")
  /\ CASE Unnumbered(Seen(r)) -> /\ req' = [req EXCEPT ![r].pc = "alloc"]
                                 /\ UNCHANGED <<resolved, held>>
       [] Seen(r) = None      -> Ends(r) /\ UNCHANGED <<resolved, held>>
       [] OTHER               -> Resolves(r, Seen(r).uid)
  /\ UNCHANGED rows

(* NextWorkspaceUID, SetMemberUID and the commit: the counter's row lock     *)
(* keeps them together.  No row updated means that another transaction       *)
(* claimed a number since, which stands, or that the member was removed.     *)
ClaimUid(r) ==
  /\ At(r, "alloc") /\ ~RowLocked(req[r].of, r)
  /\ ws.next_uid < MaxUid
  /\ LET u == req[r].of
         row == Seen(r)
     IN  IF row = None
         THEN Ends(r) /\ UNCHANGED <<ws, member, resolved, held>>
         ELSE /\ ws' = [ws EXCEPT !.next_uid = @ + 1]
              /\ IF Unnumbered(row)
                 THEN /\ member' = [member EXCEPT
                           ![u] = [row EXCEPT !.uid = NextWorkspaceUID]]
                      /\ Resolves(r, NextWorkspaceUID)
                 ELSE UNCHANGED member /\ Resolves(r, row.uid)
  /\ UNCHANGED <<settings, session>>

(* announceIdentity, with what was resolved: the member may have left since.  *)
(* A task that does not answer is warned about, no more, and the client's    *)
(* leaving does not stop it.                                                 *)
Announce(r) ==
  /\ At(r, "announce")
  /\ held' = held \cup {<<req[r].of, req[r].uid>>}
  /\ Ends(r)
  /\ UNCHANGED <<rows, resolved>>

(* A statement fails and the transaction is rolled back, or the client left. *)
Fails(r) ==
  /\ ~At(r, "idle") /\ ~At(r, "announce")
  /\ Ends(r)
  /\ UNCHANGED <<rows, resolved, held>>

-----------------------------------------------------------------------------
Next ==
  \/ \E u \in Users, arg \in Setting : HandleUpdateOrgSettings(u, arg)
  \/ \E r \in Requests :
       \/ At(r, "idle") /\ \E u \in Users, c \in Calls : Arrive(r, u, c)
       \/ ReadMembership(r)
       \/ HandleCreateWorkspace(r) \/ HandleSetAccessScope(r)
       \/ HandlePutWorkspaceMember(r) \/ HandleDeleteWorkspaceMember(r)
       \/ CreateSessionRecord(r) \/ DeleteSession(r)
       \/ EnsureMember(r) \/ ReadUid(r) \/ ClaimUid(r) \/ Announce(r)
       \/ Fails(r)

Spec == Init /\ [][Next]_vars

-----------------------------------------------------------------------------
(* A uid is one person's for good: no two users were ever announced one uid  *)
(* in a workspace, not even one after the other, since the files of whoever  *)
(* left are still on the volume under it (NextWorkspaceUID), and even though *)
(* an announcement follows the commit and may be of a member removed since   *)
(* (prepareSession).  And two first sessions of one member that race are     *)
(* resolved to one uid, the one on record; only leaving and coming back      *)
(* changes it (resolveIdentity, SetMemberUID).                               *)
UidIsOwn ==
  /\ \A x, y \in held : x[2] = y[2] => x[1] = y[1]
  /\ \A u \in Users : resolved[u] # {} =>
       member[u] # None /\ resolved[u] = {member[u].uid}

(* The rule is written once in Go and once in each listing's SQL, and they   *)
(* agree, whatever rows prepareSession left behind: a workspace a caller may *)
(* use is in their listing, and the other way round (accessTo against        *)
(* ListWorkspacesForUser); a session they may see is in both listings of     *)
(* sessions, so that one missing there answers 404 everywhere else too       *)
(* (isVisible against listSessions and ListOrgSessionsVisible).              *)
RulesAgree ==
  /\ \A u \in Users : OrgRole[u] # None => (listWorkspaces(u) <=> CanUse(u))
  /\ \A u \in Users, s \in Sessions :
       MaySee(u, s) => s \in listSessions(u) \cap listOrgSessions(u)

(* The owner of the record can always reach it, whatever other owners do to  *)
(* its members between their check and their act                             *)
(* (handleDeleteWorkspaceMember).                                            *)
OwnerReaches == ws # None => member[ws.owner] # None
=============================================================================

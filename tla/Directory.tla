----------------------------- MODULE Directory -----------------------------
(***************************************************************************)
(* Who a caller is.  Every request starts with resolvePrincipal: the       *)
(* directory (the global tier) says which organization is the caller's own,*)
(* the cell which user row they have.  The first request signs them up;    *)
(* first requests run concurrently, the two tiers are two databases, and   *)
(* every statement may fail.  Behind it: naming the organization from an   *)
(* ID token, issuing an invite and redeeming one.                          *)
(*                                                                         *)
(* A request mints at most one organization, one user and one invite code, *)
(* so each is named by the request that minted it; Far is an organization  *)
(* of another cell, with the invite it issued, and the home of one of the  *)
(* callers or of none of them.  A transaction of one statement is one      *)
(* step.  A transaction that reads and then inserts is split there; the    *)
(* unique index makes the insert and its commit one step.  A failed        *)
(* statement that did commit is a success followed by a failure of the     *)
(* next one.                                                               *)
(***************************************************************************)
EXTENDS Naturals, Sequences, FiniteSets

CONSTANTS
  Requests,
  Principals,     \* (issuer, subject) of the access tokens
  Far,            \* an organization of another cell, and its invite
  Slugs,          \* what orgslug.Generate may return
  Tokens,         \* ID tokens: [subject, parts], the parts of the local part
                  \* of the email they carry
  Uses,           \* the max_uses an invite may be created with, None for no
                  \* limit
  SlugAttempts,   \* slugAttempts
  None

ASSUME DirectoryAssumption ==
  /\ Far \notin Requests /\ None \notin Requests \cup Principals \cup {Far}
  /\ \A t \in Tokens : t.subject \in Principals /\ t.parts \in Seq(STRING)
  /\ Uses \subseteq Nat \cup {None}
  /\ SlugAttempts \in Nat \ {0}
  /\ IsFiniteSet(Requests)

Role  == {"owner", "user"}
OrgId == Requests \cup {Far}
Code  == Requests \cup {Far}
Ops   == {"orgs", "identity", "invite", "redeem"}

(* The statements a request runs, in the order of the code. *)
Steps == {"lookup", "create", "bind", "drop", "relook", "getuser", "putuser",
          "email", "name", "scope", "mint", "redeem", "org", "join"}
PC == {"idle", "done", "refused", "failed"} \cup Steps
Signing  == {"lookup", "create", "bind", "drop", "relook", "getuser", "putuser"}

VARIABLES
  tenant,      \* directory: organization -> row
  directory,   \* directory: principal -> home organization
  invite,      \* directory: code -> row
  app_user,    \* cell: user -> row
  org_member,  \* cell: organization -> user -> role
  req          \* the requests

vars == <<tenant, directory, invite, app_user, org_member, req>>
dirVars  == <<tenant, directory, invite>>
cellVars == <<app_user, org_member>>

-----------------------------------------------------------------------------
(* Names *)

(* The display name of a personal organization: the first component of the  *)
(* local part.                                                               *)
orgNameFor(email) == IF email.parts = <<>> THEN "My Org" ELSE Head(email.parts)

Names == {orgNameFor(t) : t \in Tokens} \cup Slugs

TenantRow == [slug : Slugs \cup {Far}, name : Names \cup {Far},
              name_generated : BOOLEAN, cell : {"here", "far"}]
UserRow   == [subject : Principals, home : OrgId,
              email : {None, "recorded"}]
InviteRow == [org : OrgId, role : Role, max : Uses \cup {None}, uses : Nat,
              expired : BOOLEAN]

(* Why a request failed: a statement did, the slugs ran out, or it lost a   *)
(* race for its home or for its user's row.                                  *)
Failure == {"db", "slugs", "vanished", "user"}

ASSUME NoneIsNoValue ==
  None \notin Role \cup Failure \cup TenantRow \cup UserRow \cup InviteRow

Request == [pc : PC, op : Ops, p : Principals, org : OrgId \cup {None},
            tgt : OrgId \cup {None}, user : Requests \cup {None}, tries : 0..(SlugAttempts + 1),
            arg : Tokens \cup Code \cup Slugs \cup {None},
            why : Failure \cup {None}]

(* Every variable has its type. *)
TypeOK ==
  /\ tenant \in [OrgId -> TenantRow \cup {None}]
  /\ directory \in [Principals -> OrgId \cup {None}]
  /\ invite \in [Code -> InviteRow \cup {None}]
  /\ app_user \in [Requests -> UserRow \cup {None}]
  /\ org_member \in [OrgId -> [Requests -> Role \cup {None}]]
  /\ req \in [Requests -> Request]

-----------------------------------------------------------------------------
(* Statements of the directory (directorydb) *)

LookupPrincipal(p) == directory[p]
GetTenant(o)       == tenant[o]
GetTenantBySlug(s) == {o \in OrgId : tenant[o] # None /\ tenant[o].slug = s}
GetTenantsByIDs(ids) == {o \in ids : tenant[o] # None}

CreateTenant(o, s) ==
  [tenant EXCEPT ![o] = [slug |-> s, name |-> s, name_generated |-> TRUE,
                         cell |-> "here"]]

(* ON CONFLICT DO NOTHING. *)
BindPrincipal(p, o) ==
  IF directory[p] = None THEN [directory EXCEPT ![p] = o] ELSE directory

(* Cascades to the bindings and the invites. *)
DeleteTenant(o) ==
  /\ tenant' = [tenant EXCEPT ![o] = None]
  /\ directory' = [p \in Principals |->
                     IF directory[p] = o THEN None ELSE directory[p]]
  /\ invite' = [c \in Code |->
                  IF invite[c] # None /\ invite[c].org = o
                  THEN None ELSE invite[c]]

(* Slip: a sign-in renames whatever is there. *)
RenameTenant(o, name) ==
  IF tenant[o] # None
  THEN [tenant EXCEPT ![o].name = name, ![o].name_generated = FALSE]
  ELSE tenant

(* WHERE name_generated. *)
NameTenant(o, name) ==
  IF tenant[o] # None /\ tenant[o].name_generated
  THEN [tenant EXCEPT ![o].name = name, ![o].name_generated = FALSE]
  ELSE tenant

(* Slip: the count is compared after the increment it should prevent. *)
RedeemableLate(c) ==
  /\ invite[c] # None /\ ~invite[c].expired
  /\ invite[c].max = None \/ invite[c].uses <= invite[c].max

(* The WHERE of RedeemInviteCode. *)
Redeemable(c) ==
  /\ invite[c] # None /\ ~invite[c].expired
  /\ invite[c].max = None \/ invite[c].uses < invite[c].max

RedeemInviteCode(c) == [invite EXCEPT ![c].uses = @ + 1]

CreateInviteCode(c, o, role, max) ==
  [invite EXCEPT ![c] = [org |-> o, role |-> role, max |-> max, uses |-> 0,
                         expired |-> FALSE]]

-----------------------------------------------------------------------------
(* Statements of the cell (celldb), under the policies of its schema *)

(* app_user's policy: the row is visible from its home and from every       *)
(* organization its user is a member of.                                     *)
GetUserBySubject(p, o) ==
  {u \in Requests : /\ app_user[u] # None /\ app_user[u].subject = p
                    /\ app_user[u].home = o \/ org_member[o][u] # None}

(* Slip: nothing keeps a subject to one row. *)
NeverTaken(p) == FALSE

(* UNIQUE (idp_issuer, idp_subject) knows no policy. *)
SubjectTaken(p) ==
  \E u \in Requests : app_user[u] # None /\ app_user[u].subject = p

CreateUser(u, p, o) ==
  [app_user EXCEPT ![u] = [subject |-> p, home |-> o, email |-> None]]

GetOrgMembership(o, u) == org_member[o][u]
ListOrgsForUser(u) == {o \in OrgId : org_member[o][u] # None}

(* Which address it is only listings show. *)
SetUserEmail(u) == [app_user EXCEPT ![u].email = "recorded"]

(* DO UPDATE SET role. *)
AddOrgMember(o, u, role) == [org_member EXCEPT ![o][u] = role]

(* DO NOTHING: redemption demotes nobody. *)
JoinOrg(o, u, role) ==
  IF org_member[o][u] = None THEN [org_member EXCEPT ![o][u] = role]
  ELSE org_member

-----------------------------------------------------------------------------
Init ==
  /\ tenant = [o \in OrgId |->
                 IF o = Far
                 THEN [slug |-> Far, name |-> Far, name_generated |-> FALSE,
                       cell |-> "far"]
                 ELSE None]
  /\ directory \in {f \in [Principals -> {Far, None}] :
                      \A p, q \in Principals : f[p] = Far /\ f[q] = Far => p = q}
  /\ invite = [c \in Code |->
                 IF c = Far
                 THEN [org |-> Far, role |-> "owner", max |-> None,
                       uses |-> 0, expired |-> FALSE]
                 ELSE None]
  /\ app_user = [u \in Requests |-> None]
  /\ org_member = [o \in OrgId |-> [u \in Requests |-> None]]
  /\ req \in [Requests -> {[pc |-> "idle", op |-> "orgs", p |-> p,
                            org |-> None, tgt |-> None, user |-> None, tries |-> 0,
                            arg |-> None, why |-> None] : p \in Principals}]

At(r, pc)    == req[r].pc = pc
Goes(r, pc)  == req' = [req EXCEPT ![r].pc = pc]

(* The answer; what the request was about is forgotten with it. *)
Ends(r, pc, why) ==
  req' = [req EXCEPT ![r].pc = pc, ![r].why = why, ![r].op = "orgs",
                     ![r].arg = None, ![r].tgt = None, ![r].tries = 0]
Fails(r, why) == Ends(r, "failed", why)

(* A request arrives, with a token that auth.Wrap let through. *)
Arrive(r, op, arg) ==
  /\ At(r, "idle")
  /\ \/ op = "orgs" /\ arg = None
     \/ op = "identity" /\ arg \in Tokens
     \/ op = "invite" /\ arg \in Slugs \cup {Far}
     \/ op = "redeem" /\ arg \in {c \in Code : invite[c] # None}
  /\ req' = [req EXCEPT ![r].pc = "lookup", ![r].op = op, ![r].arg = arg]
  /\ UNCHANGED <<dirVars, cellVars>>

(* LookupHome: the home organization, or the sign-up path. *)
LookupHome(r) ==
  /\ At(r, "lookup")
  /\ LET home == LookupPrincipal(req[r].p)
     IN  req' = IF home = None
                THEN [req EXCEPT ![r].pc = "create"]
                ELSE [req EXCEPT ![r].pc = "getuser", ![r].org = home]
  /\ UNCHANGED <<dirVars, cellVars>>

(* CreateOrg: a generated slug is tried until one is free. *)
CreateOrg(r, s) ==
  /\ At(r, "create")
  /\ IF GetTenantBySlug(s) # {}
     THEN /\ UNCHANGED tenant
          /\ IF req[r].tries + 1 < SlugAttempts
             THEN req' = [req EXCEPT ![r].tries = @ + 1]
             ELSE Fails(r, "slugs")
     ELSE /\ tenant' = CreateTenant(r, s)
          /\ req' = [req EXCEPT ![r].pc = "bind", ![r].tries = 0]
  /\ UNCHANGED <<directory, invite, cellVars>>

(* Slip: sign-up does not look who won. *)
AlwaysWon(r) ==
  /\ At(r, "bind")
  /\ directory' = BindPrincipal(req[r].p, r)
  /\ req' = [req EXCEPT ![r].pc = "getuser", ![r].org = r]
  /\ UNCHANGED <<tenant, invite, cellVars>>

(* signUp claims the binding after the organization exists. *)
Bind(r) ==
  /\ At(r, "bind")
  /\ directory' = BindPrincipal(req[r].p, r)
  /\ req' = IF directory' # directory
            THEN [req EXCEPT ![r].pc = "getuser", ![r].org = r]
            ELSE [req EXCEPT ![r].pc = "drop"]
  /\ UNCHANGED <<tenant, invite, cellVars>>

(* The loser of the race drops its organization; a failure is only logged. *)
DropOrg(r) ==
  /\ At(r, "drop")
  /\ DeleteTenant(r) \/ UNCHANGED dirVars
  /\ Goes(r, "relook")
  /\ UNCHANGED cellVars

(* ... and adopts the winner's. *)
AdoptHome(r) ==
  /\ At(r, "relook")
  /\ LET home == LookupPrincipal(req[r].p)
     IN  IF home = None
         THEN Fails(r, "vanished")
         ELSE req' = [req EXCEPT ![r].pc = "getuser", ![r].org = home]
  /\ UNCHANGED <<dirVars, cellVars>>

(* Where a resolved request goes. *)
Handler(op) == CASE op = "orgs"     -> "done"
                 [] op = "identity" -> "email"
                 [] op = "invite"   -> "scope"
                 [] op = "redeem"   -> "redeem"

Resolved(r, u) ==
  req' = [req EXCEPT ![r].pc = Handler(req[r].op), ![r].user = u]

(* ensureUser: the row is there, and their ownership of their home is        *)
(* written again ...                                                         *)
GetUser(r) ==
  /\ At(r, "getuser")
  /\ LET found == GetUserBySubject(req[r].p, req[r].org)
     IN  IF found = {}
         THEN Goes(r, "putuser") /\ UNCHANGED org_member
         ELSE \E u \in found :
                /\ org_member' = AddOrgMember(req[r].org, u, "owner")
                /\ Resolved(r, u)
  /\ UNCHANGED <<dirVars, app_user>>

(* Slip: a unique violation is an error like any other. *)
PutUserOnce(r) ==
  /\ At(r, "putuser")
  /\ IF SubjectTaken(req[r].p)
     THEN Fails(r, "user") /\ UNCHANGED cellVars
     ELSE /\ app_user' = CreateUser(r, req[r].p, req[r].org)
          /\ org_member' = AddOrgMember(req[r].org, r, "owner")
          /\ Resolved(r, r)
  /\ UNCHANGED dirVars

(* ... or it is inserted; a unique violation aborts the transaction, and the *)
(* first one is retried in a fresh one.                                      *)
PutUser(r) ==
  /\ At(r, "putuser")
  /\ IF SubjectTaken(req[r].p)
     THEN /\ UNCHANGED cellVars
          /\ IF req[r].tries = 0
             THEN req' = [req EXCEPT ![r].pc = "getuser", ![r].tries = 1]
             ELSE Fails(r, "user")
     ELSE /\ app_user' = CreateUser(r, req[r].p, req[r].org)
          /\ org_member' = AddOrgMember(req[r].org, r, "owner")
          /\ Resolved(r, r)
  /\ UNCHANGED dirVars

-----------------------------------------------------------------------------
(* handleListOrgs: the roles are the cell's, the names the directory's. *)
rolesByOrg(u) == ListOrgsForUser(u)
ListOrgs(u)   == GetTenantsByIDs(rolesByOrg(u))

(* handleIdentity: an ID token of the caller's own gives the email, and then *)
(* the name of their organization.                                           *)
RecordEmail(r) ==
  /\ At(r, "email")
  /\ IF req[r].arg.subject # req[r].p
     THEN Ends(r, "refused", None) /\ UNCHANGED app_user
     ELSE /\ app_user' = SetUserEmail(req[r].user)
          /\ Goes(r, "name")
  /\ UNCHANGED <<dirVars, org_member>>

(* A token with no email, answered as it is, or with one over 320 octets.    *)
NoEmail(r) ==
  /\ At(r, "email") /\ req[r].arg.subject = req[r].p
  /\ Ends(r, "done", None) \/ Ends(r, "refused", None)
  /\ UNCHANGED <<dirVars, cellVars>>

NameOrg(r) ==
  /\ At(r, "name")
  /\ GetTenant(req[r].org) # None
  /\ tenant' = NameTenant(req[r].org, orgNameFor(req[r].arg))
  /\ Ends(r, "done", None)
  /\ UNCHANGED <<directory, invite, cellVars>>

(* orgScope, requireOwner: the membership is read on every request.  A       *)
(* stranger and an organization that is not there get one answer.            *)
RequireOwner(r) ==
  /\ At(r, "scope")
  /\ LET may == {o \in GetTenantBySlug(req[r].arg) :
                   GetOrgMembership(o, req[r].user) = "owner"}
     IN  IF may = {}
         THEN Ends(r, "refused", None)
         ELSE \E o \in may : req' = [req EXCEPT ![r].pc = "mint", ![r].tgt = o]
  /\ UNCHANGED <<dirVars, cellVars>>

(* handleCreateInvite; the foreign key refuses an organization that is gone. *)
CreateInvite(r, role, max) ==
  /\ At(r, "mint")
  /\ IF GetTenant(req[r].tgt) = None
     THEN Fails(r, "db") /\ UNCHANGED invite
     ELSE /\ invite' = CreateInviteCode(r, req[r].tgt, role, max)
          /\ Ends(r, "done", None)
  /\ UNCHANGED <<tenant, directory, cellVars>>

(* handleRedeemInvite: one statement checks the code and consumes a use ...  *)
RedeemInvite(r) ==
  /\ At(r, "redeem")
  /\ IF Redeemable(req[r].arg)
     THEN invite' = RedeemInviteCode(req[r].arg) /\ Goes(r, "org")
     ELSE UNCHANGED invite /\ Ends(r, "refused", None)
  /\ UNCHANGED <<tenant, directory, cellVars>>

SameCell(o) == GetTenant(o) # None /\ GetTenant(o).cell = "here"

(* ... the organization must be in this cell, and the use stays consumed if  *)
(* it is not.  An organization deleted since is an error.                    *)
ResolveOrg(r) ==
  /\ At(r, "org")
  /\ invite[req[r].arg] # None
  /\ IF SameCell(invite[req[r].arg].org) THEN Goes(r, "join")
                                         ELSE Ends(r, "refused", None)
  /\ UNCHANGED <<dirVars, cellVars>>

JoinTheOrg(r) ==
  /\ At(r, "join")
  /\ LET iv == invite[req[r].arg]
     IN  org_member' = JoinOrg(iv.org, req[r].user, iv.role)
  /\ Goes(r, "done")
  /\ UNCHANGED <<dirVars, app_user>>

(* now() passes expires_at. *)
Expire(c) ==
  /\ invite[c] # None /\ ~invite[c].expired
  /\ invite' = [invite EXCEPT ![c].expired = TRUE]
  /\ UNCHANGED <<tenant, directory, cellVars, req>>

(* A statement fails: the request is answered 500.  DropOrg only logs it.    *)
DatabaseFails(r) ==
  /\ req[r].pc \in Steps \ {"drop"}
  /\ Fails(r, "db")
  /\ UNCHANGED <<dirVars, cellVars>>

(* The naming itself only logs it too; the read before it does not.          *)
NamingFails(r) ==
  /\ At(r, "name")
  /\ Ends(r, "done", None)
  /\ UNCHANGED <<dirVars, cellVars>>

-----------------------------------------------------------------------------
Serve(r) ==
  \/ LookupHome(r) \/ (\E s \in Slugs : CreateOrg(r, s)) \/ Bind(r)
  \/ DropOrg(r) \/ AdoptHome(r) \/ GetUser(r) \/ PutUser(r)
  \/ RecordEmail(r) \/ NoEmail(r) \/ NameOrg(r)
  \/ RequireOwner(r)
  \/ \E role \in Role, max \in Uses : CreateInvite(r, role, max)
  \/ RedeemInvite(r) \/ ResolveOrg(r) \/ JoinTheOrg(r)

Next ==
  \/ \E r \in Requests :
       \/ \E op \in Ops, arg \in Tokens \cup Code \cup Slugs \cup {None} :
            Arrive(r, op, arg)
       \/ Serve(r) \/ DatabaseFails(r) \/ NamingFails(r)
  \/ \E c \in Requests : Expire(c)

Spec == Init /\ [][Next]_vars

-----------------------------------------------------------------------------
(* Two sign-ups of one person converge: whatever requests of one principal   *)
(* were resolved, they were resolved to one organization and one user, whose *)
(* row says the same, and the binding still names it (signUp, ensureUser).   *)
OneHome ==
  \A r, q \in Requests :
    req[r].p = req[q].p /\ req[r].user # None /\ req[q].user # None =>
      /\ req[r].org = req[q].org /\ req[r].user = req[q].user
      /\ directory[req[r].p] = req[r].org
      /\ app_user[req[r].user].subject = req[r].p
      /\ app_user[req[r].user].home = req[r].org

(* Redemptions of a code, counted by the requests that passed it.  A use may *)
(* be consumed without a membership, never the other way round, and a code   *)
(* of n uses lets n requests past (RedeemInvite).                            *)
Redeemers(c) ==
  {r \in Requests : /\ req[r].op = "redeem" /\ req[r].arg = c
                    /\ req[r].pc \in {"org", "join", "done"}}
InviteNotOverspent ==
  \A c \in Code : invite[c] # None =>
    /\ Cardinality(Redeemers(c)) <= invite[c].uses
    /\ invite[c].max # None => invite[c].uses <= invite[c].max

(* Every membership can be traced: it is ownership of one's own home, or an  *)
(* invite of that organization, redeemed by that user, granted that role;    *)
(* no foreign key ties a membership to the directory's row                   *)
(* (handleRedeemInvite, handleListOrgs).  An invite never leads out of this  *)
(* cell: the one organization of another cell that somebody can be in here   *)
(* is their own home, which resolvePrincipal serves wherever it is.          *)
(* An organization that lost a sign-up race and could not be removed is      *)
(* invisible: neither a membership nor a code leads to it (the warning in    *)
(* signUp that a failed clean-up is not fatal).                              *)
Bound(o) == o = Far \/ \E p \in Principals : directory[p] = o
MembershipTraced ==
  /\ \A o \in OrgId, u \in Requests :
       org_member[o][u] # None =>
         /\ o \in ListOrgs(u) /\ Bound(o)
         /\ tenant[o].cell = "here" \/ app_user[u].home = o
         /\ \/ app_user[u].home = o /\ org_member[o][u] = "owner"
            \/ \E c \in Code : /\ invite[c] # None /\ invite[c].org = o
                               /\ invite[c].role = org_member[o][u]
                               /\ \E r \in Redeemers(c) : req[r].user = u
  /\ \A c \in Code : invite[c] # None => Bound(invite[c].org)

(* No request fails for having lost a race: what fails is a statement, or    *)
(* the slugs ran out (signUp does not recurse, ensureUser retries once).     *)
NoRaceFails ==
  \A r \in Requests : req[r].why \notin {"vanished", "user"}

(* A name given from an email stays, whatever the next ID token says: the    *)
(* permission to replace the placeholder is spent once (NameOrg, for a       *)
(* re-login racing the first).                                               *)
NamedOnce ==
  [][\A o \in Requests :
       tenant[o] # None /\ ~tenant[o].name_generated
         => tenant'[o] # None /\ tenant'[o].name = tenant[o].name]_vars
=============================================================================

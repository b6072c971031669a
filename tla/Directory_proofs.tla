-------------------------- MODULE Directory_proofs --------------------------
(***************************************************************************)
(* Proofs about Directory, for any number of concurrent requests, people,  *)
(* slugs, ID tokens and invites: concurrent sign-ups converge, no          *)
(* membership is unaccounted for, an invite is not overspent, and no       *)
(* request fails for having lost a race.                                   *)
(***************************************************************************)
EXTENDS Directory, FiniteSetTheorems, TLAPS

-----------------------------------------------------------------------------
(* The inductive invariant. *)

(* Where a request is that has not claimed a home with its organization, or  *)
(* has lost the race for it.                                                 *)
Unbound == {"idle", "lookup", "create", "bind", "drop", "relook"}
Over    == {"done", "refused", "failed"}

(* A home is Far, or the organization of a request of that person which won, *)
(* and which exists, in this cell; Far is in another.                        *)
HomesStand ==
  /\ tenant[Far] # None /\ tenant[Far].cell = "far"
  /\ \A p \in Principals :
       directory[p] \notin {None, Far} =>
         /\ directory[p] \in Requests /\ req[directory[p]].p = p
         /\ req[directory[p]].pc \notin Unbound
         /\ tenant[directory[p]] # None /\ tenant[directory[p]].cell = "here"

(* A name that was given belongs to somebody's home. *)
NamesBound ==
  \A o \in Requests :
    tenant[o] # None /\ ~tenant[o].name_generated => Bound(o)

(* A user's row is of the request that inserted it, names the home their     *)
(* binding names, and is the only one of its subject.                        *)
UsersHome ==
  /\ \A u \in Requests :
       app_user[u] # None =>
         /\ app_user[u].subject = req[u].p
         /\ directory[req[u].p] # None /\ app_user[u].home = directory[req[u].p]
  /\ \A u, v \in Requests :
       app_user[u] # None /\ app_user[v] # None
         /\ app_user[u].subject = app_user[v].subject => u = v

(* What a request knows is still so. *)
KnowsHome(r) ==
  /\ req[r].org # None => directory[req[r].p] = req[r].org
  /\ req[r].pc \in {"drop", "relook"} => directory[req[r].p] # None
  /\ req[r].pc \in {"getuser", "putuser"} => req[r].org # None

(* The organization a request is about to claim exists. *)
Claims(r) == req[r].pc = "bind" => SameCell(r)

KnowsUser(r) ==
  /\ req[r].user # None =>
       /\ req[r].org # None /\ app_user[req[r].user] # None
       /\ app_user[req[r].user].subject = req[r].p
  /\ req[r].pc \in {"email", "name", "scope", "mint", "redeem", "org", "join"} =>
       req[r].user # None

(* The retry of ensureUser comes after somebody else's insert. *)
RetryFinds(r) ==
  /\ req[r].pc \in (Unbound \ {"create"}) \cup {"putuser"} =>
       req[r].tries = 0
  /\ req[r].pc = "getuser" /\ req[r].tries # 0 => SubjectTaken(req[r].p)

KnowsArg(r) ==
  /\ req[r].op = "identity" => req[r].arg \in Tokens
  /\ req[r].op = "redeem" => req[r].arg \in Code /\ invite[req[r].arg] # None
  /\ req[r].pc \in {"email", "name"} => req[r].op = "identity"
  /\ req[r].pc \in {"redeem", "org", "join"} => req[r].op = "redeem"
  /\ req[r].pc = "mint" => req[r].tgt # None /\ Bound(req[r].tgt)
  /\ req[r].pc = "join" => invite[req[r].arg].org # Far

Fits(r) ==
  /\ KnowsHome(r) /\ Claims(r) /\ KnowsUser(r) /\ RetryFinds(r) /\ KnowsArg(r)
  /\ req[r].why \notin {"vanished", "user"}

(* An invite leads to somebody's home, and its request is over. *)
InvitesStand ==
  \A c \in Code : invite[c] # None =>
    Bound(invite[c].org) /\ (c \in Requests => req[c].pc = "done")

(* MembershipTraced, with a witness that takes no further step. *)
Traced(o, u) ==
  org_member[o][u] # None =>
    /\ Bound(o) /\ app_user[u] # None
    /\ o = Far => app_user[u].home = o
    /\ \/ app_user[u].home = o /\ org_member[o][u] = "owner"
       \/ \E c \in Code, r \in Requests :
            /\ invite[c] # None /\ invite[c].org = o
            /\ invite[c].role = org_member[o][u]
            /\ req[r].op = "redeem" /\ req[r].arg = c
            /\ req[r].pc = "done" /\ req[r].user = u
MembersTraced == \A o \in OrgId, u \in Requests : Traced(o, u)

DirectoryInv ==
  /\ TypeOK /\ HomesStand /\ NamesBound /\ UsersHome
  /\ \A r \in Requests : Fits(r)
  /\ InvitesStand /\ MembersTraced /\ InviteNotOverspent

-----------------------------------------------------------------------------
(* Facts about types. *)

(* None is no member of the other sets. *)
LEMMA NoneOutside ==
  /\ None \notin Requests /\ None \notin Principals /\ None # Far
  /\ Far \notin Requests /\ None \notin Role /\ None \notin Failure
  /\ None \notin TenantRow /\ None \notin UserRow /\ None \notin InviteRow
  /\ Requests \subseteq OrgId /\ Requests \subseteq Code
  /\ Far \in OrgId /\ Far \in Code
  BY DirectoryAssumption, NoneIsNoValue DEF OrgId, Code

(* The rows and the requests have the types their tables give them. *)
LEMMA RowTypes ==
  ASSUME TypeOK
  PROVE  /\ \A o \in OrgId : tenant[o] # None => tenant[o] \in TenantRow
         /\ \A p \in Principals : directory[p] \in OrgId \cup {None}
         /\ \A c \in Code : invite[c] # None => invite[c] \in InviteRow
         /\ \A u \in Requests : app_user[u] # None => app_user[u] \in UserRow
         /\ \A r \in Requests : req[r] \in Request /\ req[r].p \in Principals
<1>1. \A r \in Requests : req[r] \in Request
  BY DEF TypeOK
<1>2. \A r \in Requests : req[r].p \in Principals
  BY <1>1 DEF Request
<1> QED
  BY <1>1, <1>2 DEF TypeOK

(* A home is bound, exists in this cell, and is not Far. *)
LEMMA BoundStands ==
  ASSUME DirectoryInv, NEW o \in OrgId, Bound(o), o # Far
  PROVE  /\ o \in Requests /\ tenant[o] # None /\ tenant[o].cell = "here"
         /\ req[o].pc \notin Unbound
  BY NoneOutside DEF DirectoryInv, Bound, HomesStand, OrgId

-----------------------------------------------------------------------------
(* Init establishes it. *)
LEMMA InitInv == Init => DirectoryInv
<1> SUFFICES ASSUME Init PROVE DirectoryInv
  OBVIOUS
<1> DEFINE far == [slug |-> Far, name |-> Far, name_generated |-> FALSE,
                   cell |-> "far"]
           iv == [org |-> Far, role |-> "owner", max |-> None, uses |-> 0,
                  expired |-> FALSE]
           new(p) == [pc |-> "idle", op |-> "orgs", p |-> p, org |-> None,
                      tgt |-> None, user |-> None, tries |-> 0, arg |-> None,
                      why |-> None]
<1>1. far \in TenantRow /\ far.cell = "far" /\ far.name_generated = FALSE
  BY DEF TenantRow
<1>2. iv \in InviteRow /\ iv.org = Far /\ iv.uses = 0 /\ iv.max = None
  BY DEF InviteRow, OrgId, Role
<1>3. \A p \in Principals :
        /\ new(p) \in Request /\ new(p).pc = "idle" /\ new(p).op = "orgs"
        /\ new(p).org = None /\ new(p).user = None /\ new(p).tries = 0
        /\ new(p).why = None
  <2>1. 0 \in 0..(SlugAttempts + 1)
    BY DirectoryAssumption
  <2> QED
    BY <2>1 DEF Request, PC, Ops
<1>4. /\ tenant = [o \in OrgId |-> IF o = Far THEN far ELSE None]
      /\ invite = [c \in Code |-> IF c = Far THEN iv ELSE None]
      /\ req \in [Requests -> {new(p) : p \in Principals}]
      /\ directory \in [Principals -> {Far, None}]
      /\ app_user = [u \in Requests |-> None]
      /\ org_member = [o \in OrgId |-> [u \in Requests |-> None]]
  BY DEF Init
<1> HIDE DEF far, iv, new
<1>5. \A r \in Requests :
        /\ req[r] \in Request /\ req[r].pc = "idle" /\ req[r].op = "orgs"
        /\ req[r].org = None /\ req[r].user = None /\ req[r].tries = 0
        /\ req[r].why = None
  BY <1>3, <1>4
<1>6. TypeOK
  <2>1. directory \in [Principals -> OrgId \cup {None}]
    BY <1>4 DEF OrgId
  <2> QED
    BY <1>1, <1>2, <1>4, <1>5, <2>1 DEF TypeOK
<1>7. HomesStand /\ NamesBound /\ UsersHome /\ MembersTraced
  BY <1>1, <1>4, NoneOutside DEF HomesStand, NamesBound, UsersHome,
     MembersTraced, Traced
<1>8. \A r \in Requests : Fits(r)
  BY <1>5, NoneOutside DEF Fits, KnowsHome, Claims, KnowsUser, RetryFinds,
     KnowsArg, Failure
<1>9. InvitesStand
  BY <1>2, <1>4, NoneOutside DEF InvitesStand, Bound
<1>10. InviteNotOverspent
  <2>1. \A c \in Code : Redeemers(c) = {}
    BY <1>5 DEF Redeemers
  <2>2. ASSUME NEW c \in Code, invite[c] # None
        PROVE  invite[c].uses = 0 /\ invite[c].max = None
    BY <1>2, <1>4, <2>2
  <2>3. Cardinality({}) = 0
    BY FS_EmptySet
  <2> QED
    BY <2>1, <2>2, <2>3 DEF InviteNotOverspent
<1> QED
  BY <1>6, <1>7, <1>8, <1>9, <1>10 DEF DirectoryInv

-----------------------------------------------------------------------------
(* What a step of a request leaves alone. *)

(* Only r's record changes; it was not over, it stays the same person's, and *)
(* a home that was claimed stays claimed.                                    *)
Moves(r) ==
  /\ req' \in [Requests -> Request]
  /\ \A d \in Requests \ {r} : req'[d] = req[d]
  /\ req'[r].p = req[r].p
  /\ req[r].pc \notin Over
  /\ req'[r].pc \in Unbound => req[r].pc \in Unbound

(* No binding, user or invite goes away or changes hands, and no             *)
(* organization that is about to be claimed.                                 *)
RowsKept ==
  /\ \A d \in Requests : req[d].pc = "bind" /\ SameCell(d) => SameCell(d)'
  /\ \A p \in Principals : directory[p] # None => directory'[p] = directory[p]
  /\ \A u \in Requests :
       app_user[u] # None =>
         /\ app_user'[u] # None /\ app_user'[u].home = app_user[u].home
         /\ app_user'[u].subject = app_user[u].subject
  /\ \A c \in Code :
       invite[c] # None =>
         /\ invite'[c] # None /\ invite'[c].org = invite[c].org
         /\ invite'[c].role = invite[c].role

(* r did not just pass an invite. *)
PassesNone(r) ==
  req'[r].op = "redeem" /\ req'[r].pc \in {"org", "join", "done"} =>
    /\ req[r].op = "redeem" /\ req[r].arg = req'[r].arg
    /\ req[r].pc \in {"org", "join", "done"}

(* A request moves, and no other does. *)
LEMMA MovesFields ==
  ASSUME TypeOK, NEW r \in Requests, NEW new \in Request,
         req' = [req EXCEPT ![r] = new], new.p = req[r].p,
         req[r].pc \notin Over, new.pc \in Unbound => req[r].pc \in Unbound
  PROVE  Moves(r) /\ req'[r] = new
  BY DEF TypeOK, Moves

(* A request that did not move still fits the rows. *)
LEMMA FitsStays ==
  ASSUME DirectoryInv, RowsKept, NEW d \in Requests, req'[d] = req[d]
  PROVE  Fits(d)'
<1>1. req[d] \in Request /\ req[d].p \in Principals /\ Fits(d)
  BY RowTypes DEF DirectoryInv
<1>2. KnowsHome(d)' /\ Claims(d)'
  BY <1>1 DEF RowsKept, Fits, KnowsHome, Claims
<1>3. KnowsUser(d)'
  <2>1. req[d].user \in Requests \cup {None}
    BY <1>1 DEF Request
  <2> QED
    BY <1>1, <2>1 DEF RowsKept, Fits, KnowsUser
<1>4. RetryFinds(d)'
  BY <1>1 DEF RowsKept, Fits, RetryFinds, SubjectTaken
<1>5. KnowsArg(d)'
  BY <1>1 DEF RowsKept, Fits, KnowsArg, Bound
<1> QED
  BY <1>1, <1>2, <1>3, <1>4, <1>5 DEF Fits

(* No user appears: each still has its home. *)
LEMMA UsersStay ==
  ASSUME DirectoryInv, NEW r \in Requests, Moves(r), RowsKept,
         \A u \in Requests : app_user'[u] # None => app_user[u] # None
  PROVE  UsersHome'
<1>1. \A u \in Requests : req'[u].p = req[u].p /\ req[u].p \in Principals
  BY RowTypes DEF Moves, DirectoryInv
<1> QED
  BY <1>1 DEF DirectoryInv, UsersHome, RowsKept

(* No home moves, and no tenant that is one goes. *)
LEMMA HomesStay ==
  ASSUME DirectoryInv, NEW r \in Requests, Moves(r), UNCHANGED directory,
         \A o \in OrgId : Bound(o) => /\ tenant'[o] # None
                                      /\ tenant'[o].cell = tenant[o].cell
  PROVE  HomesStand'
<1>1. tenant'[Far] # None /\ tenant'[Far].cell = "far"
  BY NoneOutside DEF Bound, DirectoryInv, HomesStand
<1>2. ASSUME NEW p \in Principals, directory[p] \notin {None, Far}
      PROVE  /\ directory[p] \in Requests /\ req'[directory[p]].p = p
             /\ req'[directory[p]].pc \notin Unbound
             /\ tenant'[directory[p]] # None
             /\ tenant'[directory[p]].cell = "here"
  <2>1. /\ directory[p] \in Requests /\ req[directory[p]].p = p
        /\ req[directory[p]].pc \notin Unbound
        /\ tenant[directory[p]].cell = "here"
    BY <1>2 DEF DirectoryInv, HomesStand
  <2>2. Bound(directory[p])
    BY DEF Bound
  <2>3. tenant'[directory[p]] # None /\ tenant'[directory[p]].cell = "here"
    BY <2>1, <2>2, NoneOutside
  <2>4. req'[directory[p]].p = p /\ req'[directory[p]].pc \notin Unbound
    BY <2>1 DEF Moves
  <2> QED
    BY <2>1, <2>3, <2>4
<1> QED
  BY <1>1, <1>2 DEF HomesStand

(* No invite appears: each is still of a bound organization. *)
LEMMA InvitesStay ==
  ASSUME DirectoryInv, NEW r \in Requests, Moves(r), RowsKept,
         \A c \in Code : invite'[c] # None => invite[c] # None
  PROVE  InvitesStand'
<1> SUFFICES ASSUME NEW c \in Code, invite'[c] # None
             PROVE  /\ \/ invite'[c].org = Far
                       \/ \E p \in Principals : directory'[p] = invite'[c].org
                    /\ c \in Requests => req'[c].pc = "done"
  BY DEF InvitesStand, Bound
<1>1. invite[c] # None /\ invite'[c].org = invite[c].org
  BY DEF RowsKept
<1>2. invite[c].org \in OrgId /\ Bound(invite[c].org)
  BY <1>1, RowTypes DEF DirectoryInv, InvitesStand, InviteRow
<1>3. c \in Requests => req[c].pc = "done" /\ req'[c] = req[c]
  BY <1>1 DEF DirectoryInv, InvitesStand, Moves, Over
<1>4. invite[c].org = Far \/ \E p \in Principals : directory'[p] = invite[c].org
  BY <1>2, NoneOutside DEF Bound, RowsKept, OrgId
<1> QED
  BY <1>1, <1>3, <1>4

(* A trace stays while the rows it leads to do. *)
LEMMA TracedStays ==
  ASSUME DirectoryInv, NEW r \in Requests, Moves(r), RowsKept,
         NEW o \in OrgId, NEW u \in Requests,
         org_member'[o][u] = org_member[o][u]
  PROVE  Traced(o, u)'
<1> SUFFICES ASSUME org_member[o][u] # None
             PROVE  /\ Bound(o)' /\ app_user'[u] # None
                    /\ o = Far => app_user'[u].home = o
                    /\ \/ app_user'[u].home = o /\ org_member[o][u] = "owner"
                       \/ \E c \in Code, d \in Requests :
                            /\ invite'[c] # None /\ invite'[c].org = o
                            /\ invite'[c].role = org_member[o][u]
                            /\ req'[d].op = "redeem" /\ req'[d].arg = c
                            /\ req'[d].pc = "done" /\ req'[d].user = u
  BY DEF Traced
<1>1. /\ Bound(o) /\ app_user[u] # None /\ (o = Far => app_user[u].home = o)
      /\ \/ app_user[u].home = o /\ org_member[o][u] = "owner"
         \/ \E c \in Code, d \in Requests :
              /\ invite[c] # None /\ invite[c].org = o
              /\ invite[c].role = org_member[o][u]
              /\ req[d].op = "redeem" /\ req[d].arg = c
              /\ req[d].pc = "done" /\ req[d].user = u
  BY DEF DirectoryInv, MembersTraced, Traced
<1>2. Bound(o)'
  BY <1>1, NoneOutside DEF Bound, RowsKept, OrgId
<1>3. \A d \in Requests : req[d].pc = "done" => req'[d] = req[d]
  BY DEF Moves, Over
<1> QED
  BY <1>1, <1>2, <1>3 DEF RowsKept

(* No membership changes. *)
LEMMA MembersStay ==
  ASSUME DirectoryInv, NEW r \in Requests, Moves(r), RowsKept,
         UNCHANGED org_member
  PROVE  MembersTraced'
  BY TracedStays DEF MembersTraced

(* A code nobody new passed. *)
Unspent(c) ==
  invite[c] # None =>
    /\ Cardinality(Redeemers(c)) <= invite[c].uses
    /\ invite[c].max # None => invite[c].uses <= invite[c].max

(* A code nobody new passed is still not overspent. *)
LEMMA UnspentStays ==
  ASSUME DirectoryInv, NEW c \in Code, Redeemers(c)' \subseteq Redeemers(c),
         invite'[c] # None =>
           /\ invite[c] # None /\ invite'[c].uses = invite[c].uses
           /\ invite'[c].max = invite[c].max
  PROVE  Unspent(c)'
<1> SUFFICES ASSUME invite'[c] # None
             PROVE  /\ Cardinality(Redeemers(c)') <= invite'[c].uses
                    /\ invite'[c].max # None => invite'[c].uses <= invite'[c].max
  BY DEF Unspent
<1>1. IsFiniteSet(Redeemers(c))
  BY FS_Subset, DirectoryAssumption DEF Redeemers
<1>2. /\ Cardinality(Redeemers(c)') \in Nat /\ Cardinality(Redeemers(c)) \in Nat
      /\ Cardinality(Redeemers(c)') <= Cardinality(Redeemers(c))
  BY <1>1, FS_Subset, FS_CardinalityType
<1>3. invite[c].uses \in Nat
  BY RowTypes DEF DirectoryInv, InviteRow
<1> QED
  BY <1>2, <1>3 DEF DirectoryInv, InviteNotOverspent

(* Nor is any by a step in which nobody passes one. *)
LEMMA SpentStays ==
  ASSUME DirectoryInv, NEW r \in Requests, Moves(r), PassesNone(r),
         \A c \in Code : invite'[c] # None =>
           /\ invite[c] # None /\ invite'[c].uses = invite[c].uses
           /\ invite'[c].max = invite[c].max
  PROVE  InviteNotOverspent'
<1>1. \A c \in Code : Redeemers(c)' \subseteq Redeemers(c)
  BY DEF Redeemers, Moves, PassesNone
<1>2. \A c \in Code : Unspent(c)'
  BY <1>1, UnspentStays
<1> QED
  BY <1>2 DEF Unspent, InviteNotOverspent

(* A step that changes nothing but the request. *)
LEMMA RequestOnly ==
  ASSUME DirectoryInv, NEW r \in Requests, Moves(r), Fits(r)', PassesNone(r),
         UNCHANGED <<dirVars, cellVars>>
  PROVE  DirectoryInv'
<1>1. UNCHANGED <<tenant, directory, invite, app_user, org_member>>
  BY DEF dirVars, cellVars
<1>2. RowsKept
  BY <1>1 DEF RowsKept, SameCell, GetTenant
<1>3. TypeOK'
  BY <1>1 DEF DirectoryInv, TypeOK, Moves
<1>4. \A d \in Requests : Fits(d)'
  BY <1>2, FitsStays DEF Moves
<1>5. HomesStand'
  <2>1. \A o \in OrgId : Bound(o) => tenant[o] # None
    BY BoundStands DEF DirectoryInv, HomesStand
  <2> QED
    BY <1>1, <2>1, HomesStay
<1>6. NamesBound'
  BY <1>1 DEF DirectoryInv, NamesBound, Bound
<1>7. UsersHome' /\ InvitesStand' /\ MembersTraced' /\ InviteNotOverspent'
  BY <1>1, <1>2, UsersStay, InvitesStay, MembersStay, SpentStays
<1> QED
  BY <1>3, <1>4, <1>5, <1>6, <1>7 DEF DirectoryInv

-----------------------------------------------------------------------------
(* The ways a request goes on. *)

(* What a request that keeps its organization and its user knows of them. *)
LEMMA KeepsHome ==
  ASSUME DirectoryInv, RowsKept, NEW r \in Requests, Moves(r),
         req'[r].org = req[r].org, req'[r].user = req[r].user
  PROVE  /\ req'[r].org # None => directory'[req'[r].p] = req'[r].org
         /\ req'[r].user # None =>
              /\ req'[r].org # None /\ app_user'[req'[r].user] # None
              /\ app_user'[req'[r].user].subject = req'[r].p
<1>1. /\ req[r] \in Request /\ req[r].p \in Principals /\ KnowsHome(r)
      /\ KnowsUser(r) /\ req'[r].p = req[r].p
  BY RowTypes DEF DirectoryInv, Fits, Moves
<1>2. req[r].user \in Requests \cup {None}
  BY <1>1 DEF Request
<1> QED
  BY <1>1, <1>2 DEF RowsKept, KnowsHome, KnowsUser

(* An answer. *)
LEMMA EndsFits ==
  ASSUME DirectoryInv, RowsKept, NEW r \in Requests, req[r].pc \notin Over,
         NEW pc \in Over, NEW why \in {"db", "slugs", None}, Ends(r, pc, why)
  PROVE  Moves(r) /\ Fits(r)' /\ PassesNone(r)
<1> DEFINE new == [req[r] EXCEPT !.pc = pc, !.why = why, !.op = "orgs",
                                 !.arg = None, !.tgt = None, !.tries = 0]
<1>1. req[r] \in Request
  BY RowTypes DEF DirectoryInv
<1>2. 0 \in 0..(SlugAttempts + 1) /\ pc \in PC /\ why \in Failure \cup {None}
  BY DirectoryAssumption DEF Over, PC, Failure
<1>3. /\ new \in Request /\ new.pc = pc /\ new.why = why /\ new.op = "orgs"
      /\ new.tries = 0 /\ new.p = req[r].p /\ new.org = req[r].org
      /\ new.user = req[r].user
  BY <1>1, <1>2 DEF Request, Ops
<1>4. req' = [req EXCEPT ![r] = new]
  BY DEF Ends
<1> HIDE DEF new
<1>5. Moves(r) /\ req'[r] = new
  BY <1>3, <1>4, MovesFields DEF DirectoryInv, Over, Unbound
<1>6. /\ new.org # None => directory'[new.p] = new.org
      /\ new.user # None =>
           /\ new.org # None /\ app_user'[new.user] # None
           /\ app_user'[new.user].subject = new.p
  BY <1>3, <1>5, KeepsHome
<1>7. new.why \notin {"vanished", "user"}
  BY <1>3, NoneOutside DEF Failure
<1>8. Fits(r)'
  BY <1>3, <1>5, <1>6, <1>7 DEF Fits, KnowsHome, Claims, KnowsUser, RetryFinds,
     KnowsArg, Over, Unbound
<1> QED
  BY <1>3, <1>5, <1>8 DEF PassesNone

(* On to the next statement, with what the request has. *)
LEMMA GoesFields ==
  ASSUME DirectoryInv, NEW r \in Requests, req[r].pc \notin Over, NEW pc \in PC,
         Goes(r, pc), pc \in Unbound => req[r].pc \in Unbound
  PROVE  /\ Moves(r) /\ req'[r].pc = pc /\ req'[r].why = req[r].why
         /\ req'[r].op = req[r].op /\ req'[r].arg = req[r].arg
         /\ req'[r].tgt = req[r].tgt /\ req'[r].tries = req[r].tries
         /\ req'[r].p = req[r].p /\ req'[r].org = req[r].org
         /\ req'[r].user = req[r].user
<1> DEFINE new == [req[r] EXCEPT !.pc = pc]
<1>1. req[r] \in Request
  BY RowTypes DEF DirectoryInv
<1>2. /\ new \in Request /\ new.pc = pc /\ new.why = req[r].why
      /\ new.op = req[r].op /\ new.arg = req[r].arg /\ new.tgt = req[r].tgt
      /\ new.tries = req[r].tries /\ new.p = req[r].p /\ new.org = req[r].org
      /\ new.user = req[r].user
  BY <1>1 DEF Request
<1>3. req' = [req EXCEPT ![r] = new]
  BY DEF Goes
<1> HIDE DEF new
<1>4. Moves(r) /\ req'[r] = new
  BY <1>2, <1>3, MovesFields DEF DirectoryInv
<1> QED
  BY <1>2, <1>4

(* Within a redemption or the naming of an organization, or out of it. *)
LEMMA GoesFits ==
  ASSUME DirectoryInv, RowsKept, NEW r \in Requests,
         NEW pc \in {"name", "org", "join", "done", "refused"}, Goes(r, pc),
         req[r].pc \in {"email", "redeem", "org", "join"},
         pc = "name" => req[r].op = "identity",
         pc \in {"org", "join"} => req[r].op = "redeem",
         pc = "join" => invite'[req[r].arg].org # Far
  PROVE  Moves(r) /\ Fits(r)'
<1>1. /\ Moves(r) /\ req'[r].pc = pc /\ req'[r].why = req[r].why
      /\ req'[r].op = req[r].op /\ req'[r].arg = req[r].arg
      /\ req'[r].p = req[r].p /\ req'[r].org = req[r].org
      /\ req'[r].user = req[r].user
  BY GoesFields DEF PC, Steps, Over, Unbound
<1>2. /\ req'[r].org # None => directory'[req'[r].p] = req'[r].org
      /\ req'[r].user # None =>
           /\ req'[r].org # None /\ app_user'[req'[r].user] # None
           /\ app_user'[req'[r].user].subject = req'[r].p
  BY <1>1, KeepsHome
<1>3. Fits(r)
  BY DEF DirectoryInv
<1>4. KnowsArg(r)'
  BY <1>1, <1>3 DEF Fits, KnowsArg, RowsKept
<1>5. KnowsHome(r)' /\ Claims(r)' /\ KnowsUser(r)' /\ RetryFinds(r)'
  BY <1>1, <1>2, <1>3 DEF Fits, KnowsHome, Claims, KnowsUser, RetryFinds, Unbound
<1> QED
  BY <1>1, <1>3, <1>4, <1>5 DEF Fits

(* A request that ends with nothing else changed. *)
LEMMA EndsInv ==
  ASSUME DirectoryInv, NEW r \in Requests, req[r].pc \notin Over, NEW pc \in Over,
         NEW why \in {"db", "slugs", None}, Ends(r, pc, why),
         UNCHANGED <<dirVars, cellVars>>
  PROVE  DirectoryInv'
<1>1. RowsKept
  BY DEF RowsKept, dirVars, cellVars, SameCell, GetTenant
<1> QED
  BY <1>1, EndsFits, RequestOnly

(* A request fails. *)
LEMMA FailsInv ==
  ASSUME DirectoryInv, NEW r \in Requests, DatabaseFails(r) \/ NamingFails(r)
  PROVE  DirectoryInv'
<1>1. req[r].pc \notin Over /\ UNCHANGED <<dirVars, cellVars>>
  BY DEF DatabaseFails, NamingFails, Steps, Over, At
<1>2. Ends(r, "failed", "db") \/ Ends(r, "done", None)
  BY DEF DatabaseFails, NamingFails, Fails
<1> QED
  BY <1>1, <1>2, EndsInv DEF Over

-----------------------------------------------------------------------------
(* Signing in. *)

(* A request arrives. *)
LEMMA ArriveInv ==
  ASSUME DirectoryInv, NEW r \in Requests, NEW op \in Ops,
         NEW arg \in Tokens \cup Code \cup Slugs \cup {None}, Arrive(r, op, arg)
  PROVE  DirectoryInv'
<1> DEFINE new == [req[r] EXCEPT !.pc = "lookup", !.op = op, !.arg = arg]
<1>1. /\ req[r] \in Request /\ Fits(r) /\ req[r].pc = "idle"
      /\ UNCHANGED <<dirVars, cellVars>>
  BY RowTypes DEF DirectoryInv, Arrive, At
<1>2. /\ new \in Request /\ new.pc = "lookup" /\ new.op = op /\ new.arg = arg
      /\ new.p = req[r].p /\ new.org = req[r].org /\ new.user = req[r].user
      /\ new.tries = req[r].tries /\ new.why = req[r].why
  BY <1>1 DEF Request, PC, Steps
<1>3. req' = [req EXCEPT ![r] = new]
  BY DEF Arrive
<1> HIDE DEF new
<1>4. Moves(r) /\ req'[r] = new
  BY <1>1, <1>2, <1>3, MovesFields DEF DirectoryInv, Over, Unbound
<1>5. UNCHANGED <<directory, invite, app_user>>
  BY <1>1 DEF dirVars, cellVars
<1>6. KnowsHome(r)' /\ Claims(r)' /\ KnowsUser(r)' /\ RetryFinds(r)'
  BY <1>1, <1>2, <1>4, <1>5 DEF Fits, KnowsHome, Claims, KnowsUser, RetryFinds,
     Unbound
<1>7. KnowsArg(r)'
  BY <1>2, <1>4, <1>5 DEF KnowsArg, Arrive
<1>8. Fits(r)' /\ PassesNone(r)
  BY <1>1, <1>2, <1>4, <1>6, <1>7 DEF Fits, PassesNone
<1> QED
  BY <1>1, <1>4, <1>8, RequestOnly

(* A request that found its home goes on to its user. *)
LEMMA FoundHome ==
  ASSUME DirectoryInv, RowsKept, NEW r \in Requests,
         req[r].pc \in {"lookup", "bind", "relook"},
         NEW home \in OrgId, directory'[req[r].p] = home,
         req' = [req EXCEPT ![r].pc = "getuser", ![r].org = home]
  PROVE  Moves(r) /\ Fits(r)' /\ PassesNone(r)
<1> DEFINE new == [req[r] EXCEPT !.pc = "getuser", !.org = home]
<1>1. req[r] \in Request /\ req[r].p \in Principals /\ Fits(r)
  BY RowTypes DEF DirectoryInv
<1>2. /\ new \in Request /\ new.pc = "getuser" /\ new.org = home
      /\ new.p = req[r].p /\ new.user = req[r].user /\ new.tries = req[r].tries
      /\ new.why = req[r].why /\ new.op = req[r].op /\ new.arg = req[r].arg
  BY <1>1, NoneOutside DEF Request, PC, Steps
<1>3. req' = [req EXCEPT ![r] = new]
  OBVIOUS
<1> HIDE DEF new
<1>4. Moves(r) /\ req'[r] = new
  BY <1>2, <1>3, MovesFields DEF DirectoryInv, Over, Unbound
<1>5. home # None
  BY NoneOutside DEF OrgId
<1>6. KnowsHome(r)' /\ Claims(r)'
  BY <1>2, <1>4, <1>5 DEF KnowsHome, Claims
<1>7. KnowsUser(r)'
  <2>1. req[r].user \in Requests \cup {None}
    BY <1>1 DEF Request
  <2> QED
    BY <1>1, <1>2, <1>4, <1>5, <2>1 DEF Fits, KnowsUser, RowsKept
<1>8. RetryFinds(r)'
  BY <1>1, <1>2, <1>4 DEF Fits, RetryFinds, Unbound
<1>9. KnowsArg(r)'
  BY <1>1, <1>2, <1>4 DEF Fits, KnowsArg, RowsKept
<1> QED
  BY <1>1, <1>2, <1>4, <1>6, <1>7, <1>8, <1>9 DEF Fits, PassesNone

(* LookupHome, and the second look of a request that lost the race: the      *)
(* winner's binding is still there.                                          *)
LEMMA LookupInv ==
  ASSUME DirectoryInv, NEW r \in Requests, LookupHome(r) \/ AdoptHome(r)
  PROVE  DirectoryInv'
<1> DEFINE home == directory[req[r].p]
<1>1. /\ req[r] \in Request /\ req[r].p \in Principals /\ Fits(r)
      /\ req[r].pc \in {"lookup", "relook"} /\ UNCHANGED <<dirVars, cellVars>>
  BY RowTypes DEF DirectoryInv, LookupHome, AdoptHome, At
<1>2. UNCHANGED <<directory, invite, app_user>> /\ RowsKept
  BY <1>1 DEF dirVars, cellVars, RowsKept, SameCell, GetTenant
<1>3. CASE home # None
  <2>1. req' = [req EXCEPT ![r].pc = "getuser", ![r].org = home]
    BY <1>3 DEF LookupHome, AdoptHome, LookupPrincipal
  <2>2. home \in OrgId
    BY <1>1, <1>3, RowTypes DEF DirectoryInv
  <2>3. Moves(r) /\ Fits(r)' /\ PassesNone(r)
    BY <1>1, <1>2, <2>1, <2>2, FoundHome
  <2> QED
    BY <1>1, <2>3, RequestOnly
<1>4. CASE home = None
  <2> DEFINE new == [req[r] EXCEPT !.pc = "create"]
  <2>1. req[r].pc = "lookup" /\ LookupHome(r)
    BY <1>1, <1>4 DEF Fits, KnowsHome, LookupHome, AdoptHome, At
  <2>2. req' = [req EXCEPT ![r].pc = "create"]
    BY <1>4, <2>1 DEF LookupHome, LookupPrincipal
  <2>3. /\ new \in Request /\ new.pc = "create" /\ new.org = req[r].org
        /\ new.p = req[r].p /\ new.user = req[r].user
        /\ new.tries = req[r].tries /\ new.why = req[r].why
        /\ new.op = req[r].op /\ new.arg = req[r].arg
    BY <1>1 DEF Request, PC, Steps
  <2>4. req' = [req EXCEPT ![r] = new]
    BY <2>2
  <2> HIDE DEF new
  <2>5. Moves(r) /\ req'[r] = new
    BY <2>1, <2>3, <2>4, MovesFields DEF DirectoryInv, Over, Unbound
  <2>6. Fits(r)' /\ PassesNone(r)
    BY <1>1, <1>2, <2>3, <2>5 DEF Fits, KnowsHome, Claims, KnowsUser,
       RetryFinds, KnowsArg, PassesNone, Unbound
  <2> QED
    BY <1>1, <2>5, <2>6, RequestOnly
<1> QED
  BY <1>3, <1>4

(* An organization nobody's binding names, and no invite. *)
LEMMA UnboundAlone ==
  ASSUME DirectoryInv, NEW r \in Requests, req[r].pc \in Unbound
  PROVE  /\ \A p \in Principals : directory[p] # r
         /\ ~Bound(r) /\ invite[r] = None
         /\ \A c \in Code : invite[c] # None => invite[c].org # r
         /\ tenant[r] # None => tenant[r].name_generated
<1>1. /\ r # None /\ r # Far /\ r \in Code
  BY NoneOutside
<1>2. \A p \in Principals : directory[p] # r
  BY <1>1 DEF DirectoryInv, HomesStand
<1>3. ~Bound(r)
  BY <1>1, <1>2 DEF Bound
<1>4. invite[r] = None
  BY <1>1 DEF DirectoryInv, InvitesStand, Unbound
<1> QED
  BY <1>2, <1>3, <1>4 DEF DirectoryInv, InvitesStand, NamesBound

(* A step on the organization of a request that has claimed no home. *)
LEMMA TenantOnly ==
  ASSUME DirectoryInv, NEW r \in Requests, Moves(r), Fits(r)', PassesNone(r),
         req[r].pc \in Unbound \ {"bind"},
         UNCHANGED <<directory, invite, app_user, org_member>>,
         tenant' \in [OrgId -> TenantRow \cup {None}],
         \A o \in OrgId \ {r} : tenant'[o] = tenant[o],
         tenant'[r] # None => tenant'[r].name_generated
  PROVE  DirectoryInv'
<1>1. RowsKept
  BY NoneOutside DEF RowsKept, SameCell, GetTenant
<1>2. TypeOK'
  BY DEF DirectoryInv, TypeOK, Moves
<1>3. \A d \in Requests : Fits(d)'
  BY <1>1, FitsStays DEF Moves
<1>4. HomesStand'
  <2>1. \A o \in OrgId : Bound(o) => tenant[o] # None /\ tenant'[o] = tenant[o]
    BY BoundStands, UnboundAlone DEF DirectoryInv, HomesStand
  <2> QED
    BY <2>1, HomesStay
<1>5. NamesBound'
  <2>1. \A o \in Requests \ {r} : tenant'[o] = tenant[o] /\ (Bound(o)' <=> Bound(o))
    BY NoneOutside DEF Bound
  <2> QED
    BY <2>1 DEF DirectoryInv, NamesBound
<1>6. UsersHome' /\ InvitesStand' /\ MembersTraced' /\ InviteNotOverspent'
  BY <1>1, UsersStay, InvitesStay, MembersStay, SpentStays
<1> QED
  BY <1>2, <1>3, <1>4, <1>5, <1>6 DEF DirectoryInv

(* The organization is created. *)
LEMMA CreateOrgInv ==
  ASSUME DirectoryInv, NEW r \in Requests, NEW s \in Slugs, CreateOrg(r, s)
  PROVE  DirectoryInv'
<1>1. /\ req[r] \in Request /\ Fits(r) /\ req[r].pc = "create"
      /\ UNCHANGED <<directory, invite, app_user, org_member>>
  BY RowTypes DEF DirectoryInv, CreateOrg, At, cellVars
<1>2. /\ req[r].pc \notin Over /\ req[r].pc \in Unbound
      /\ req[r].tries \in 0..(SlugAttempts + 1)
  BY <1>1 DEF Over, Unbound, Request
<1>3. CASE GetTenantBySlug(s) # {}
  <2>1. UNCHANGED <<dirVars, cellVars>>
    BY <1>1, <1>3 DEF CreateOrg, dirVars, cellVars
  <2>2. CASE Fails(r, "slugs")
    BY <1>2, <2>1, <2>2, EndsInv DEF Fails, Over
  <2>3. CASE /\ req[r].tries + 1 < SlugAttempts
             /\ req' = [req EXCEPT ![r].tries = req[r].tries + 1]
    <3> DEFINE new == [req[r] EXCEPT !.tries = req[r].tries + 1]
    <3>1. req[r].tries + 1 \in 0..(SlugAttempts + 1)
      BY <1>2, <2>3, DirectoryAssumption
    <3>2. /\ new \in Request /\ new.pc = "create" /\ new.org = req[r].org
          /\ new.p = req[r].p /\ new.user = req[r].user
          /\ new.why = req[r].why /\ new.op = req[r].op /\ new.arg = req[r].arg
      BY <1>1, <3>1 DEF Request
    <3>3. req' = [req EXCEPT ![r] = new]
      BY <2>3
    <3> HIDE DEF new
    <3>4. Moves(r) /\ req'[r] = new
      BY <1>2, <3>2, <3>3, MovesFields DEF DirectoryInv
    <3>5. Fits(r)' /\ PassesNone(r)
      BY <1>1, <3>2, <3>4 DEF Fits, KnowsHome, Claims, KnowsUser, RetryFinds,
         KnowsArg, PassesNone, Unbound
    <3> QED
      BY <2>1, <3>4, <3>5, RequestOnly
  <2> QED
    BY <1>3, <2>2, <2>3 DEF CreateOrg
<1>4. CASE GetTenantBySlug(s) = {}
  <2> DEFINE new == [req[r] EXCEPT !.pc = "bind", !.tries = 0]
             row == [slug |-> s, name |-> s, name_generated |-> TRUE,
                     cell |-> "here"]
  <2>1. /\ row \in TenantRow /\ row.name_generated = TRUE /\ row.cell = "here"
    BY DEF TenantRow, Names
  <2>2. 0 \in 0..(SlugAttempts + 1)
    BY DirectoryAssumption
  <2>3. /\ new \in Request /\ new.pc = "bind" /\ new.org = req[r].org
        /\ new.p = req[r].p /\ new.user = req[r].user /\ new.tries = 0
        /\ new.why = req[r].why /\ new.op = req[r].op /\ new.arg = req[r].arg
    BY <1>1, <2>2 DEF Request, PC, Steps
  <2>4. /\ req' = [req EXCEPT ![r] = new]
        /\ tenant' = [tenant EXCEPT ![r] = row]
    BY <1>4 DEF CreateOrg, CreateTenant
  <2> HIDE DEF new, row
  <2>5. Moves(r) /\ req'[r] = new
    BY <1>2, <2>3, <2>4, MovesFields DEF DirectoryInv
  <2>6. /\ tenant' \in [OrgId -> TenantRow \cup {None}] /\ tenant'[r] = row
        /\ \A o \in OrgId \ {r} : tenant'[o] = tenant[o]
    BY <2>1, <2>4, NoneOutside DEF DirectoryInv, TypeOK
  <2>7. SameCell(r)'
    BY <2>1, <2>6, NoneOutside DEF SameCell, GetTenant
  <2>8. Fits(r)' /\ PassesNone(r)
    BY <1>1, <2>3, <2>5, <2>7 DEF Fits, KnowsHome, Claims, KnowsUser,
       RetryFinds, KnowsArg, PassesNone, Unbound
  <2> QED
    BY <1>1, <1>2, <2>1, <2>5, <2>6, <2>8, TenantOnly
<1> QED
  BY <1>3, <1>4

(* The loser's clean-up takes nobody else's binding and no invite along. *)
LEMMA DropOrgInv ==
  ASSUME DirectoryInv, NEW r \in Requests, DropOrg(r) PROVE DirectoryInv'
<1>1. /\ Fits(r) /\ req[r].pc = "drop" /\ Goes(r, "relook")
      /\ UNCHANGED <<app_user, org_member>>
  BY DEF DirectoryInv, DropOrg, At, cellVars
<1>2. req[r].pc \notin Over /\ req[r].pc \in Unbound
  BY <1>1 DEF Over, Unbound
<1>3. /\ \A p \in Principals : directory[p] # r
      /\ \A c \in Code : invite[c] # None => invite[c].org # r
      /\ tenant[r] # None => tenant[r].name_generated
  BY <1>2, UnboundAlone
<1>4. UNCHANGED <<directory, invite>>
  <2>1. /\ directory \in [Principals -> OrgId \cup {None}]
        /\ invite \in [Code -> InviteRow \cup {None}]
    BY DEF DirectoryInv, TypeOK
  <2>2. CASE DeleteTenant(r)
    <3>1. directory' = directory
      BY <1>3, <2>1, <2>2 DEF DeleteTenant
    <3>2. invite' = [c \in Code |-> invite[c]]
      BY <1>3, <2>2 DEF DeleteTenant
    <3> QED
      BY <2>1, <3>1, <3>2
  <2> QED
    BY <2>2 DEF DropOrg, dirVars
<1>5. /\ tenant' \in [OrgId -> TenantRow \cup {None}]
      /\ \A o \in OrgId \ {r} : tenant'[o] = tenant[o]
      /\ tenant'[r] # None => tenant'[r].name_generated
  <2>1. tenant \in [OrgId -> TenantRow \cup {None}] /\ r \in OrgId
    BY NoneOutside DEF DirectoryInv, TypeOK
  <2>2. tenant' = [tenant EXCEPT ![r] = None] \/ tenant' = tenant
    BY DEF DropOrg, DeleteTenant, dirVars
  <2>3. tenant' = [tenant EXCEPT ![r] = None] => tenant'[r] = None
    BY <2>1
  <2> QED
    BY <1>3, <2>1, <2>2, <2>3
<1>6. /\ Moves(r) /\ req'[r].pc = "relook" /\ req'[r].why = req[r].why
      /\ req'[r].op = req[r].op /\ req'[r].arg = req[r].arg
      /\ req'[r].tries = req[r].tries
      /\ req'[r].p = req[r].p /\ req'[r].org = req[r].org
      /\ req'[r].user = req[r].user
  BY <1>1, <1>2, GoesFields DEF PC, Steps
<1>7. Fits(r)' /\ PassesNone(r)
  BY <1>1, <1>4, <1>6 DEF Fits, KnowsHome, Claims, KnowsUser, RetryFinds,
     KnowsArg, PassesNone, Unbound
<1> QED
  BY <1>1, <1>2, <1>4, <1>5, <1>6, <1>7, TenantOnly

(* The binding is claimed once: the winner's organization is its home, and   *)
(* a loser knows there is a winner.                                          *)
LEMMA BindInv ==
  ASSUME DirectoryInv, NEW r \in Requests, Bind(r) PROVE DirectoryInv'
<1> DEFINE p == req[r].p
<1>1. /\ req[r] \in Request /\ p \in Principals /\ Fits(r) /\ req[r].pc = "bind"
      /\ UNCHANGED <<tenant, invite, app_user, org_member>>
  BY RowTypes DEF DirectoryInv, Bind, At, cellVars
<1>2. directory \in [Principals -> OrgId \cup {None}] /\ r \in OrgId /\ r # None
  BY NoneOutside DEF DirectoryInv, TypeOK
<1>3. SameCell(r) /\ req[r].pc \notin Over /\ req[r].pc \in Unbound
  BY <1>1 DEF Fits, Claims, Over, Unbound
<1>4. CASE directory[p] = None
  <2>1. directory' = [directory EXCEPT ![p] = r]
    BY <1>4 DEF Bind, BindPrincipal
  <2>2. /\ directory'[p] = r /\ directory' \in [Principals -> OrgId \cup {None}]
        /\ \A q \in Principals \ {p} : directory'[q] = directory[q]
    BY <1>1, <1>2, <2>1
  <2>3. req' = [req EXCEPT ![r].pc = "getuser", ![r].org = r]
    BY <1>2, <1>4, <2>2 DEF Bind
  <2>4. RowsKept
    BY <1>1, <1>4, <2>2 DEF RowsKept, SameCell, GetTenant
  <2>5. Moves(r) /\ Fits(r)' /\ PassesNone(r)
    BY <1>1, <1>2, <2>2, <2>3, <2>4, FoundHome
  <2>6. req'[r].pc = "getuser"
    BY <1>1, <2>3 DEF DirectoryInv, TypeOK, Request
  <2>7. TypeOK'
    BY <1>1, <2>2, <2>5 DEF DirectoryInv, TypeOK, Moves
  <2>8. HomesStand'
    <3>1. ASSUME NEW q \in Principals, directory'[q] \notin {None, Far}
          PROVE  /\ directory'[q] \in Requests /\ req'[directory'[q]].p = q
                 /\ req'[directory'[q]].pc \notin Unbound
                 /\ tenant[directory'[q]] # None
                 /\ tenant[directory'[q]].cell = "here"
      <4>1. CASE q = p
        BY <1>3, <2>2, <2>5, <2>6, <4>1 DEF Moves, Unbound, SameCell, GetTenant
      <4>2. CASE q # p
        <5>1. /\ directory'[q] = directory[q] /\ directory[q] \in Requests
              /\ req[directory[q]].p = q /\ req[directory[q]].pc \notin Unbound
              /\ tenant[directory[q]] # None /\ tenant[directory[q]].cell = "here"
          BY <2>2, <3>1, <4>2 DEF DirectoryInv, HomesStand
        <5>2. req'[directory[q]] = req[directory[q]]
          BY <1>3, <2>5, <5>1 DEF Moves
        <5> QED
          BY <5>1, <5>2
      <4> QED
        BY <4>1, <4>2
    <3> QED
      BY <1>1, <3>1 DEF HomesStand, DirectoryInv
  <2>9. NamesBound'
    BY <1>1, <2>2, <2>4, NoneOutside DEF DirectoryInv, NamesBound, Bound, RowsKept
  <2>10. \A d \in Requests : Fits(d)'
    BY <2>4, <2>5, FitsStays DEF Moves
  <2>11. UsersHome' /\ InvitesStand' /\ MembersTraced' /\ InviteNotOverspent'
    BY <1>1, <2>4, <2>5, UsersStay, InvitesStay, MembersStay, SpentStays
  <2> QED
    BY <2>7, <2>8, <2>9, <2>10, <2>11 DEF DirectoryInv
<1>5. CASE directory[p] # None
  <2>1. directory' = directory
    BY <1>5 DEF Bind, BindPrincipal
  <2>2. Goes(r, "drop") /\ UNCHANGED <<dirVars, cellVars>>
    BY <1>1, <2>1 DEF Bind, Goes, dirVars, cellVars
  <2>3. /\ Moves(r) /\ req'[r].pc = "drop" /\ req'[r].why = req[r].why
        /\ req'[r].op = req[r].op /\ req'[r].arg = req[r].arg
        /\ req'[r].tries = req[r].tries
        /\ req'[r].p = req[r].p /\ req'[r].org = req[r].org
        /\ req'[r].user = req[r].user
    BY <1>3, <2>2, GoesFields DEF PC, Steps
  <2>4. Fits(r)' /\ PassesNone(r)
    BY <1>1, <1>5, <2>1, <2>3 DEF Fits, KnowsHome, Claims, KnowsUser, RetryFinds,
       KnowsArg, PassesNone, Unbound
  <2> QED
    BY <2>2, <2>3, <2>4, RequestOnly
<1> QED
  BY <1>4, <1>5

-----------------------------------------------------------------------------
(* ensureUser *)

(* A request that has its user goes on to its handler. *)
LEMMA ResolvedFits ==
  ASSUME DirectoryInv, RowsKept, NEW r \in Requests, NEW u \in Requests,
         req[r].pc \in {"getuser", "putuser"}, Resolved(r, u),
         app_user'[u] # None, app_user'[u].subject = req[r].p
  PROVE  Moves(r) /\ Fits(r)' /\ PassesNone(r)
<1> DEFINE pc == Handler(req[r].op)
           new == [req[r] EXCEPT !.pc = pc, !.user = u]
<1>1. req[r] \in Request /\ req[r].p \in Principals /\ Fits(r)
  BY RowTypes DEF DirectoryInv
<1>2. /\ pc \in {"done", "email", "scope", "redeem"} /\ pc \in PC
      /\ pc = "done" => req[r].op = "orgs"
      /\ pc = "email" => req[r].op = "identity"
      /\ pc = "redeem" => req[r].op = "redeem"
  <2>1. req[r].op \in Ops
    BY <1>1 DEF Request
  <2> QED
    BY <2>1 DEF Handler, Ops, PC, Steps
<1> HIDE DEF pc
<1>3. /\ new \in Request /\ new.pc = pc /\ new.org = req[r].org
      /\ new.p = req[r].p /\ new.user = u /\ new.tries = req[r].tries
      /\ new.why = req[r].why /\ new.op = req[r].op /\ new.arg = req[r].arg
  BY <1>1, <1>2 DEF Request
<1>4. req' = [req EXCEPT ![r] = new]
  BY DEF Resolved, pc
<1> HIDE DEF new
<1>5. Moves(r) /\ req'[r] = new
  BY <1>2, <1>3, <1>4, MovesFields DEF DirectoryInv, Over, Unbound
<1>6. KnowsHome(r)' /\ KnowsUser(r)'
  <2>1. req[r].org # None /\ directory[req[r].p] = req[r].org
    BY <1>1 DEF Fits, KnowsHome
  <2>2. new.org # None /\ directory'[new.p] = new.org
    BY <1>1, <1>3, <2>1 DEF RowsKept
  <2>3. u # None
    BY NoneOutside
  <2> QED
    BY <1>2, <1>3, <1>5, <2>2, <2>3 DEF KnowsHome, KnowsUser
<1>7. Claims(r)' /\ RetryFinds(r)' /\ KnowsArg(r)'
  BY <1>1, <1>2, <1>3, <1>5 DEF Fits, Claims, RetryFinds, KnowsArg, RowsKept,
     Unbound
<1> QED
  BY <1>1, <1>2, <1>3, <1>5, <1>6, <1>7 DEF Fits, PassesNone

(* One membership is written, and accounted for. *)
LEMMA MemberWritten ==
  ASSUME DirectoryInv, NEW r \in Requests, Moves(r), RowsKept,
         NEW o \in OrgId, NEW u \in Requests, NEW role \in Role,
         org_member' = [org_member EXCEPT ![o][u] = role]
  PROVE  /\ org_member' \in [OrgId -> [Requests -> Role \cup {None}]]
         /\ org_member'[o][u] = role
         /\ Traced(o, u)' => MembersTraced'
<1> DEFINE row == [org_member[o] EXCEPT ![u] = role]
<1>1. /\ org_member \in [OrgId -> [Requests -> Role \cup {None}]]
      /\ org_member[o] \in [Requests -> Role \cup {None}]
  BY DEF DirectoryInv, TypeOK
<1>2. /\ row \in [Requests -> Role \cup {None}] /\ row[u] = role
      /\ \A v \in Requests \ {u} : row[v] = org_member[o][v]
  BY <1>1
<1>3. org_member' = [org_member EXCEPT ![o] = row]
  OBVIOUS
<1> HIDE DEF row
<1>4. /\ org_member' \in [OrgId -> [Requests -> Role \cup {None}]]
      /\ org_member'[o] = row
      /\ \A q \in OrgId \ {o} : org_member'[q] = org_member[q]
  BY <1>1, <1>2, <1>3
<1>5. ASSUME NEW q \in OrgId, NEW v \in Requests, q # o \/ v # u
      PROVE  Traced(q, v)'
  <2>1. org_member'[q][v] = org_member[q][v]
    BY <1>2, <1>4, <1>5
  <2> QED
    BY <2>1, TracedStays
<1> QED
  BY <1>2, <1>4, <1>5 DEF MembersTraced

(* A step of the cell: a membership, and perhaps the row of its user. *)
LEMMA CellOnly ==
  ASSUME DirectoryInv, NEW r \in Requests, Moves(r), Fits(r)', PassesNone(r),
         UNCHANGED dirVars, RowsKept,
         app_user' \in [Requests -> UserRow \cup {None}], UsersHome',
         org_member' \in [OrgId -> [Requests -> Role \cup {None}]], MembersTraced'
  PROVE  DirectoryInv'
<1>1. UNCHANGED <<tenant, directory, invite>>
  BY DEF dirVars
<1>2. TypeOK'
  BY <1>1 DEF DirectoryInv, TypeOK, Moves
<1>3. \A d \in Requests : Fits(d)'
  BY FitsStays DEF Moves
<1>4. HomesStand'
  <2>1. \A o \in OrgId : Bound(o) => tenant[o] # None
    BY BoundStands DEF DirectoryInv, HomesStand
  <2> QED
    BY <1>1, <2>1, HomesStay
<1>5. NamesBound'
  BY <1>1 DEF DirectoryInv, NamesBound, Bound
<1>6. InvitesStand' /\ InviteNotOverspent'
  BY <1>1, InvitesStay, SpentStays
<1> QED
  BY <1>2, <1>3, <1>4, <1>5, <1>6 DEF DirectoryInv

(* The row is found wherever it was inserted from; what is not found was not *)
(* there when the retry began.                                               *)
LEMMA GetUserInv ==
  ASSUME DirectoryInv, NEW r \in Requests, GetUser(r) PROVE DirectoryInv'
<1> DEFINE p == req[r].p
           found == GetUserBySubject(p, req[r].org)
<1>1. /\ req[r] \in Request /\ p \in Principals /\ Fits(r)
      /\ req[r].pc = "getuser" /\ UNCHANGED <<dirVars, app_user>>
  BY RowTypes DEF DirectoryInv, GetUser, At
<1>2. PICK o \in OrgId : o = req[r].org /\ directory[p] = o /\ Bound(o)
  <2>1. req[r].org # None /\ directory[p] = req[r].org
    BY <1>1 DEF Fits, KnowsHome
  <2> QED
    BY <1>1, <2>1 DEF Request, Bound
<1>3. UNCHANGED <<tenant, directory, invite, app_user>> /\ RowsKept
  BY <1>1 DEF dirVars, RowsKept, SameCell, GetTenant
<1>4. req[r].pc \notin Over
  BY <1>1 DEF Over
<1>5. CASE found = {}
  <2>1. Goes(r, "putuser") /\ UNCHANGED <<dirVars, cellVars>>
    BY <1>1, <1>5 DEF GetUser, cellVars
  <2>2. req[r].tries = 0
    <3>1. SUFFICES ASSUME SubjectTaken(p) PROVE FALSE
      BY <1>1 DEF Fits, RetryFinds
    <3>2. PICK u \in Requests : app_user[u] # None /\ app_user[u].subject = p
      BY <3>1 DEF SubjectTaken
    <3>3. app_user[u].home = o
      BY <1>2, <3>2 DEF DirectoryInv, UsersHome
    <3>4. u \in found
      BY <1>2, <3>2, <3>3 DEF GetUserBySubject
    <3> QED
      BY <1>5, <3>4
  <2>3. /\ Moves(r) /\ req'[r].pc = "putuser" /\ req'[r].why = req[r].why
        /\ req'[r].op = req[r].op /\ req'[r].arg = req[r].arg
        /\ req'[r].tries = req[r].tries
        /\ req'[r].p = req[r].p /\ req'[r].org = req[r].org
        /\ req'[r].user = req[r].user
    BY <1>1, <1>4, <2>1, GoesFields DEF PC, Steps, Unbound
  <2>4. Fits(r)' /\ PassesNone(r)
    BY <1>1, <1>3, <2>2, <2>3 DEF Fits, KnowsHome, Claims, KnowsUser, RetryFinds,
       KnowsArg, PassesNone
  <2> QED
    BY <2>1, <2>3, <2>4, RequestOnly
<1>6. CASE found # {}
  <2>1. PICK u \in found : /\ org_member' = AddOrgMember(o, u, "owner")
                           /\ Resolved(r, u)
    BY <1>2, <1>6 DEF GetUser
  <2>2. u \in Requests /\ app_user[u] # None /\ app_user[u].subject = p
    BY <2>1 DEF GetUserBySubject
  <2>3. Moves(r) /\ Fits(r)' /\ PassesNone(r)
    BY <1>1, <1>3, <2>1, <2>2, ResolvedFits
  <2>4. /\ org_member' \in [OrgId -> [Requests -> Role \cup {None}]]
        /\ org_member'[o][u] = "owner"
        /\ Traced(o, u)' => MembersTraced'
    <3>1. org_member' = [org_member EXCEPT ![o][u] = "owner"]
      BY <2>1 DEF AddOrgMember
    <3>2. "owner" \in Role
      BY DEF Role
    <3> QED
      BY <1>2, <1>3, <2>2, <2>3, <3>1, <3>2, MemberWritten
  <2>5. app_user[u].home = o
    BY <1>2, <2>2 DEF DirectoryInv, UsersHome
  <2>7. Traced(o, u)'
    <3>1. Bound(o)'
      BY <1>2, <1>3 DEF Bound
    <3> QED
      BY <1>3, <2>2, <2>4, <2>5, <3>1 DEF Traced
  <2>8. UsersHome' /\ app_user' \in [Requests -> UserRow \cup {None}]
    BY <1>3, <2>3, UsersStay DEF DirectoryInv, TypeOK
  <2> QED
    BY <1>1, <1>3, <2>3, <2>4, <2>7, <2>8, CellOnly
<1> QED
  BY <1>5, <1>6

(* The insert goes through only if nobody has the subject; a violation is    *)
(* retried, for it means that somebody has.                                  *)
LEMMA PutUserInv ==
  ASSUME DirectoryInv, NEW r \in Requests, PutUser(r) PROVE DirectoryInv'
<1>1. /\ req[r] \in Request /\ req[r].p \in Principals /\ Fits(r)
      /\ req[r].pc = "putuser" /\ UNCHANGED dirVars
  BY RowTypes DEF DirectoryInv, PutUser, At
<1>2. PICK o \in OrgId, p \in Principals :
        o = req[r].org /\ p = req[r].p /\ directory[p] = o /\ Bound(o)
  <2>1. req[r].org # None /\ directory[req[r].p] = req[r].org
    BY <1>1 DEF Fits, KnowsHome
  <2> QED
    BY <1>1, <2>1 DEF Request, Bound
<1>3. UNCHANGED <<tenant, directory, invite>> /\ req[r].tries = 0
  BY <1>1 DEF dirVars, Fits, RetryFinds
<1>4. CASE SubjectTaken(p)
  <2> DEFINE new == [req[r] EXCEPT !.pc = "getuser", !.tries = 1]
  <2>1. UNCHANGED <<dirVars, cellVars>>
    BY <1>1, <1>2, <1>4 DEF PutUser
  <2>2. req' = [req EXCEPT ![r] = new]
    BY <1>2, <1>3, <1>4 DEF PutUser
  <2>3. 1 \in 0..(SlugAttempts + 1)
    BY DirectoryAssumption
  <2>4. /\ new \in Request /\ new.pc = "getuser" /\ new.org = o
        /\ new.p = p /\ new.user = req[r].user /\ new.tries = 1
        /\ new.why = req[r].why /\ new.op = req[r].op /\ new.arg = req[r].arg
    BY <1>1, <1>2, <2>3 DEF Request, PC, Steps
  <2> HIDE DEF new
  <2>5. Moves(r) /\ req'[r] = new
    BY <1>1, <1>2, <2>2, <2>4, MovesFields DEF DirectoryInv, Over, Unbound
  <2>6. UNCHANGED app_user
    BY <2>1 DEF cellVars
  <2>7. SubjectTaken(new.p)
    BY <1>4, <2>4
  <2>8. RetryFinds(r)'
    BY <2>4, <2>5, <2>6, <2>7 DEF RetryFinds, SubjectTaken, Unbound
  <2>9. KnowsHome(r)' /\ Claims(r)' /\ KnowsUser(r)' /\ KnowsArg(r)'
    BY <1>1, <1>2, <1>3, <2>4, <2>5, <2>6, NoneOutside DEF Fits, KnowsHome,
       Claims, KnowsUser, KnowsArg
  <2>10. Fits(r)' /\ PassesNone(r)
    BY <1>1, <2>4, <2>5, <2>8, <2>9 DEF Fits, PassesNone
  <2> QED
    BY <2>1, <2>5, <2>10, RequestOnly
<1>5. CASE ~SubjectTaken(p)
  <2> DEFINE row == [subject |-> p, home |-> o, email |-> None]
  <2>1. /\ app_user' = [app_user EXCEPT ![r] = row]
        /\ org_member' = AddOrgMember(o, r, "owner") /\ Resolved(r, r)
    BY <1>2, <1>5 DEF PutUser, CreateUser
  <2>2. row \in UserRow /\ row.subject = p /\ row.home = o
    BY <1>2 DEF UserRow
  <2> HIDE DEF row
  <2>3. app_user[r] = None
    BY <1>2, <1>5 DEF DirectoryInv, UsersHome, SubjectTaken
  <2>4. /\ app_user' \in [Requests -> UserRow \cup {None}] /\ app_user'[r] = row
        /\ \A u \in Requests \ {r} : app_user'[u] = app_user[u]
        /\ row # None
    BY <2>1, <2>2, NoneOutside DEF DirectoryInv, TypeOK
  <2>5. RowsKept
    BY <1>3, <2>3, <2>4 DEF RowsKept, SameCell, GetTenant
  <2>6. Moves(r) /\ Fits(r)' /\ PassesNone(r)
    BY <1>1, <1>2, <2>1, <2>2, <2>4, <2>5, ResolvedFits
  <2>7. UsersHome'
    <3>1. \A u \in Requests : req'[u].p = req[u].p
      BY <2>6 DEF Moves
    <3>2. ASSUME NEW u \in Requests, app_user'[u] # None
          PROVE  /\ app_user'[u].subject = req'[u].p
                 /\ directory'[req'[u].p] # None
                 /\ app_user'[u].home = directory'[req'[u].p]
      <4>1. CASE u = r
        BY <1>2, <1>3, <2>2, <2>4, <3>1, <4>1, NoneOutside DEF OrgId
      <4>2. CASE u # r
        BY <1>3, <2>4, <3>1, <3>2, <4>2 DEF DirectoryInv, UsersHome
      <4> QED
        BY <4>1, <4>2
    <3>3. ASSUME NEW u \in Requests, NEW v \in Requests, app_user'[u] # None,
                 app_user'[v] # None, app_user'[u].subject = app_user'[v].subject
          PROVE  u = v
      BY <1>5, <2>2, <2>4, <3>3 DEF DirectoryInv, UsersHome, SubjectTaken
    <3> QED
      BY <3>2, <3>3 DEF UsersHome
  <2>8. /\ org_member' \in [OrgId -> [Requests -> Role \cup {None}]]
        /\ org_member'[o][r] = "owner"
        /\ Traced(o, r)' => MembersTraced'
    <3>1. org_member' = [org_member EXCEPT ![o][r] = "owner"]
      BY <2>1 DEF AddOrgMember
    <3>2. "owner" \in Role
      BY DEF Role
    <3> QED
      BY <1>2, <2>5, <2>6, <3>1, <3>2, MemberWritten
  <2>9. Traced(o, r)'
    <3>1. Bound(o)'
      BY <1>2, <1>3 DEF Bound
    <3> QED
      BY <2>2, <2>4, <2>8, <3>1 DEF Traced
  <2> QED
    BY <1>1, <2>4, <2>5, <2>6, <2>7, <2>8, <2>9, CellOnly
<1> QED
  BY <1>4, <1>5

-----------------------------------------------------------------------------
(* The handlers *)

(* The address is recorded. *)
LEMMA RecordEmailInv ==
  ASSUME DirectoryInv, NEW r \in Requests, RecordEmail(r) PROVE DirectoryInv'
<1>1. /\ req[r] \in Request /\ Fits(r) /\ req[r].pc = "email"
      /\ UNCHANGED <<tenant, directory, invite, org_member>> /\ UNCHANGED dirVars
  BY RowTypes DEF DirectoryInv, RecordEmail, At, dirVars
<1>2. CASE Ends(r, "refused", None) /\ UNCHANGED app_user
  BY <1>1, <1>2, EndsInv DEF Over, cellVars
<1>3. CASE app_user' = SetUserEmail(req[r].user) /\ Goes(r, "name")
  <2>1. PICK u \in Requests : u = req[r].user /\ app_user[u] # None
    <3>1. req[r].user # None /\ app_user[req[r].user] # None
      BY <1>1 DEF Fits, KnowsUser
    <3>2. req[r].user \in Requests
      BY <1>1, <3>1 DEF Request
    <3> QED
      BY <3>1, <3>2
  <2>2. req[r].op = "identity" /\ req[r].arg \in Tokens
    BY <1>1 DEF Fits, KnowsArg
  <2> DEFINE row == [app_user[u] EXCEPT !.email = "recorded"]
  <2>3. /\ row \in UserRow /\ row.subject = app_user[u].subject
        /\ row.home = app_user[u].home
    <3>1. app_user[u] \in UserRow
      BY <2>1, RowTypes DEF DirectoryInv
    <3> QED
      BY <2>2, <3>1 DEF UserRow
  <2>4. app_user' = [app_user EXCEPT ![u] = row]
    BY <1>3, <2>1 DEF SetUserEmail
  <2> HIDE DEF row
  <2>5. /\ app_user' \in [Requests -> UserRow \cup {None}] /\ app_user'[u] = row
        /\ \A v \in Requests \ {u} : app_user'[v] = app_user[v]
        /\ row # None
    BY <2>3, <2>4, NoneOutside DEF DirectoryInv, TypeOK
  <2>6. RowsKept
    BY <1>1, <2>3, <2>5 DEF RowsKept, SameCell, GetTenant
  <2>7. Moves(r) /\ Fits(r)'
    BY <1>1, <1>3, <2>2, <2>6, GoesFits
  <2>8. PassesNone(r)
    <3>1. req'[r].pc = "name"
      BY <1>1, <1>3, GoesFields DEF PC, Steps, Over, Unbound
    <3> QED
      BY <3>1 DEF PassesNone
  <2>9. UsersHome' /\ MembersTraced'
    BY <1>1, <2>1, <2>5, <2>6, <2>7, UsersStay, MembersStay
  <2> QED
    BY <1>1, <2>5, <2>6, <2>7, <2>8, <2>9, CellOnly DEF DirectoryInv, TypeOK
<1> QED
  BY <1>2, <1>3 DEF RecordEmail

(* A token whose address is none, or too long, ends the request. *)
LEMMA NoEmailInv ==
  ASSUME DirectoryInv, NEW r \in Requests, NoEmail(r) PROVE DirectoryInv'
<1>1. /\ Fits(r) /\ req[r].pc = "email" /\ UNCHANGED <<dirVars, cellVars>>
      /\ Ends(r, "done", None) \/ Ends(r, "refused", None)
  BY DEF DirectoryInv, NoEmail, At
<1> QED
  BY <1>1, EndsInv DEF Over

(* The name given is that of the caller's own home. *)
LEMMA NameOrgInv ==
  ASSUME DirectoryInv, NEW r \in Requests, NameOrg(r) PROVE DirectoryInv'
<1>1. /\ req[r] \in Request /\ req[r].p \in Principals /\ Fits(r)
      /\ req[r].pc = "name" /\ Ends(r, "done", None)
      /\ UNCHANGED <<directory, invite, app_user, org_member>>
  BY RowTypes DEF DirectoryInv, NameOrg, At, cellVars
<1>2. /\ req[r].arg \in Tokens /\ req[r].pc \notin Over
  BY <1>1 DEF Fits, KnowsArg, Over
<1>3. PICK o \in OrgId : o = req[r].org /\ Bound(o)
  <2>1. req[r].org # None /\ directory[req[r].p] = req[r].org
    BY <1>1 DEF Fits, KnowsUser, KnowsHome
  <2> QED
    BY <1>1, <2>1 DEF Request, Bound
<1>4. /\ tenant' \in [OrgId -> TenantRow \cup {None}]
      /\ \A q \in OrgId \ {o} : tenant'[q] = tenant[q]
      /\ tenant'[o] # None /\ tenant'[o].cell = tenant[o].cell
  <2>1. /\ tenant \in [OrgId -> TenantRow \cup {None}] /\ tenant[o] # None
        /\ tenant[o] \in TenantRow
    BY <1>3, NoneOutside, BoundStands DEF DirectoryInv, TypeOK, HomesStand
  <2> DEFINE n == orgNameFor(req[r].arg)
             row == [tenant[o] EXCEPT !.name = n, !.name_generated = FALSE]
  <2>2. n \in Names
    BY <1>2 DEF Names
  <2> HIDE DEF n
  <2>3. row \in TenantRow /\ row.cell = tenant[o].cell
    BY <2>1, <2>2 DEF TenantRow
  <2>4. tenant' = tenant \/ tenant' = [tenant EXCEPT ![o] = row]
    BY <1>3 DEF NameOrg, NameTenant, n
  <2> HIDE DEF row
  <2> QED
    BY <2>1, <2>3, <2>4, NoneOutside
<1>5. RowsKept
  BY <1>1, <1>4, NoneOutside DEF RowsKept, SameCell, GetTenant
<1>6. Moves(r) /\ Fits(r)' /\ PassesNone(r)
  BY <1>1, <1>2, <1>5, EndsFits DEF Over
<1>7. TypeOK'
  BY <1>1, <1>4, <1>6 DEF DirectoryInv, TypeOK, Moves
<1>8. HomesStand'
  <2>1. \A q \in OrgId : Bound(q) => tenant[q] # None
    BY BoundStands DEF DirectoryInv, HomesStand
  <2> QED
    BY <1>1, <1>4, <1>6, <2>1, HomesStay
<1>9. NamesBound'
  <2>1. \A q \in Requests : Bound(q)' <=> Bound(q)
    BY <1>1 DEF Bound
  <2> QED
    BY <1>3, <1>4, <2>1, NoneOutside DEF DirectoryInv, NamesBound
<1>10. \A d \in Requests : Fits(d)'
  BY <1>5, <1>6, FitsStays DEF Moves
<1>11. UsersHome' /\ InvitesStand' /\ MembersTraced' /\ InviteNotOverspent'
  BY <1>1, <1>5, <1>6, UsersStay, InvitesStay, MembersStay, SpentStays
<1> QED
  BY <1>7, <1>8, <1>9, <1>10, <1>11 DEF DirectoryInv

(* An owner is a member, so the organization they invite to is bound. *)
LEMMA RequireOwnerInv ==
  ASSUME DirectoryInv, NEW r \in Requests, RequireOwner(r) PROVE DirectoryInv'
<1>1. /\ req[r] \in Request /\ Fits(r) /\ req[r].pc = "scope"
      /\ UNCHANGED <<dirVars, cellVars>>
  BY RowTypes DEF DirectoryInv, RequireOwner, At
<1>2. CASE Ends(r, "refused", None)
  BY <1>1, <1>2, EndsInv DEF Over
<1>3. CASE \E o \in OrgId : /\ org_member[o][req[r].user] = "owner"
                            /\ req' = [req EXCEPT ![r].pc = "mint", ![r].tgt = o]
  <2>1. PICK o \in OrgId : /\ org_member[o][req[r].user] = "owner"
                           /\ req' = [req EXCEPT ![r].pc = "mint", ![r].tgt = o]
    BY <1>3
  <2> DEFINE new == [req[r] EXCEPT !.pc = "mint", !.tgt = o]
  <2>2. /\ new \in Request /\ new.pc = "mint" /\ new.org = req[r].org
        /\ new.p = req[r].p /\ new.user = req[r].user /\ new.tgt = o
        /\ new.why = req[r].why /\ new.op = req[r].op /\ new.arg = req[r].arg
    BY <1>1 DEF Request, PC, Steps
  <2>3. req' = [req EXCEPT ![r] = new]
    BY <2>1
  <2> HIDE DEF new
  <2>4. Moves(r) /\ req'[r] = new
    BY <1>1, <2>2, <2>3, MovesFields DEF DirectoryInv, Over, Unbound
  <2>5. Bound(o) /\ o # None
    <3>1. req[r].user \in Requests
      BY <1>1 DEF Fits, KnowsUser, Request
    <3>2. "owner" # None
      BY NoneOutside DEF Role
    <3> QED
      BY <2>1, <3>1, <3>2, NoneOutside DEF DirectoryInv, MembersTraced, Traced,
         OrgId
  <2>6. UNCHANGED <<directory, invite, app_user>>
    BY <1>1 DEF dirVars, cellVars
  <2>7. KnowsArg(r)'
    BY <1>1, <2>2, <2>4, <2>5, <2>6 DEF Fits, KnowsArg, Bound
  <2>8. KnowsHome(r)' /\ Claims(r)' /\ KnowsUser(r)' /\ RetryFinds(r)'
    BY <1>1, <2>2, <2>4, <2>6 DEF Fits, KnowsHome, Claims, KnowsUser, RetryFinds,
       Unbound
  <2>9. Fits(r)' /\ PassesNone(r)
    BY <1>1, <2>2, <2>4, <2>7, <2>8 DEF Fits, PassesNone
  <2> QED
    BY <1>1, <2>4, <2>9, RequestOnly
<1> QED
  BY <1>2, <1>3 DEF RequireOwner, GetOrgMembership, GetTenantBySlug

(* A step on the invites. *)
LEMMA InviteOnly ==
  ASSUME DirectoryInv, NEW r \in Requests, Moves(r), Fits(r)', RowsKept,
         UNCHANGED <<tenant, directory, app_user, org_member>>,
         invite' \in [Code -> InviteRow \cup {None}],
         InvitesStand', InviteNotOverspent'
  PROVE  DirectoryInv'
<1>1. TypeOK'
  BY DEF DirectoryInv, TypeOK, Moves
<1>2. \A d \in Requests : Fits(d)'
  BY FitsStays DEF Moves
<1>3. HomesStand'
  <2>1. \A o \in OrgId : Bound(o) => tenant[o] # None
    BY BoundStands DEF DirectoryInv, HomesStand
  <2> QED
    BY <2>1, HomesStay
<1>4. NamesBound'
  BY DEF DirectoryInv, NamesBound, Bound
<1>5. UsersHome' /\ MembersTraced'
  BY UsersStay, MembersStay
<1> QED
  BY <1>1, <1>2, <1>3, <1>4, <1>5 DEF DirectoryInv

(* A code that is minted has not been redeemed. *)
LEMMA CreateInviteInv ==
  ASSUME DirectoryInv, NEW r \in Requests, NEW role \in Role,
         NEW max \in Uses \cup {None}, CreateInvite(r, role, max)
  PROVE  DirectoryInv'
<1>1. /\ req[r] \in Request /\ Fits(r) /\ req[r].pc = "mint"
      /\ UNCHANGED <<tenant, directory, app_user, org_member>>
  BY RowTypes DEF DirectoryInv, CreateInvite, At, cellVars
<1>2. CASE Fails(r, "db") /\ UNCHANGED invite
  BY <1>1, <1>2, EndsInv DEF Over, Fails, dirVars, cellVars
<1>3. CASE /\ invite' = CreateInviteCode(r, req[r].tgt, role, max)
           /\ Ends(r, "done", None)
  <2>1. PICK o \in OrgId : o = req[r].tgt /\ Bound(o)
    BY <1>1 DEF Fits, KnowsArg, Request
  <2> DEFINE row == [org |-> o, role |-> role, max |-> max, uses |-> 0,
                     expired |-> FALSE]
  <2>2. row \in InviteRow /\ row.org = o /\ row.max = max /\ row.uses = 0
    BY DEF InviteRow
  <2>3. invite' = [invite EXCEPT ![r] = row]
    BY <1>3, <2>1 DEF CreateInviteCode
  <2> HIDE DEF row
  <2>4. invite[r] = None /\ r \in Code
    BY <1>1, NoneOutside DEF DirectoryInv, InvitesStand
  <2>5. /\ invite' \in [Code -> InviteRow \cup {None}] /\ invite'[r] = row
        /\ \A c \in Code \ {r} : invite'[c] = invite[c]
    BY <2>2, <2>3, <2>4 DEF DirectoryInv, TypeOK
  <2>6. RowsKept
    BY <1>1, <2>4, <2>5 DEF RowsKept, SameCell, GetTenant
  <2>7. Moves(r) /\ Fits(r)' /\ PassesNone(r)
    BY <1>1, <1>3, <2>6, EndsFits DEF Over
  <2>8. req'[r].pc = "done" /\ req'[r].op = "orgs"
    BY <1>1, <1>3 DEF Ends, DirectoryInv, TypeOK, Request
  <2>9. InvitesStand'
    <3>1. ASSUME NEW c \in Code, invite'[c] # None
          PROVE  /\ \/ invite'[c].org = Far
                    \/ \E p \in Principals : directory[p] = invite'[c].org
                 /\ c \in Requests => req'[c].pc = "done"
      <4>1. CASE c = r
        BY <2>1, <2>2, <2>5, <2>8, <4>1 DEF Bound
      <4>2. CASE c # r
        BY <2>5, <2>7, <3>1, <4>2 DEF DirectoryInv, InvitesStand, Bound, Moves
      <4> QED
        BY <4>1, <4>2
    <3> QED
      BY <1>1, <3>1 DEF InvitesStand, Bound
  <2>10. InviteNotOverspent'
    <3>1. Unspent(r)'
      <4>1. Redeemers(r)' = {}
        BY <2>4, <2>7, <2>8 DEF Redeemers, Moves, DirectoryInv, Fits, KnowsArg
      <4>2. max # None => 0 <= max
        BY DirectoryAssumption
      <4> QED
        BY <2>2, <2>5, <4>1, <4>2, FS_EmptySet DEF Unspent
    <3>2. ASSUME NEW c \in Code \ {r} PROVE Unspent(c)'
      <4>1. Redeemers(c)' \subseteq Redeemers(c)
        BY <2>7 DEF Redeemers, Moves, PassesNone
      <4> QED
        BY <2>5, <4>1, UnspentStays
    <3> QED
      BY <3>1, <3>2 DEF Unspent, InviteNotOverspent
  <2> QED
    BY <1>1, <2>5, <2>6, <2>7, <2>9, <2>10, InviteOnly
<1> QED
  BY <1>2, <1>3 DEF CreateInvite

(* The count that is checked is the count that is raised. *)
LEMMA RedeemInviteInv ==
  ASSUME DirectoryInv, NEW r \in Requests, RedeemInvite(r) PROVE DirectoryInv'
<1>1. /\ req[r] \in Request /\ Fits(r) /\ req[r].pc = "redeem"
      /\ UNCHANGED <<tenant, directory, app_user, org_member>>
  BY RowTypes DEF DirectoryInv, RedeemInvite, At, cellVars
<1>2. req[r].op = "redeem"
  BY <1>1 DEF Fits, KnowsArg
<1>3. PICK c \in Code : c = req[r].arg /\ invite[c] # None
  BY <1>1, <1>2 DEF Fits, KnowsArg
<1>4. CASE UNCHANGED invite /\ Ends(r, "refused", None)
  <2>1. UNCHANGED <<dirVars, cellVars>>
    BY <1>1, <1>4 DEF dirVars, cellVars
  <2> QED
    BY <1>1, <1>4, <2>1, EndsInv DEF Over
<1>5. CASE /\ Redeemable(c) /\ invite' = RedeemInviteCode(c) /\ Goes(r, "org")
  <2> DEFINE row == [invite[c] EXCEPT !.uses = @ + 1]
  <2>1. invite[c] \in InviteRow
    BY <1>3, RowTypes DEF DirectoryInv
  <2>2. /\ row \in InviteRow /\ row.org = invite[c].org
        /\ row.role = invite[c].role /\ row.max = invite[c].max
        /\ invite[c].uses \in Nat /\ row.uses = invite[c].uses + 1
    BY <2>1 DEF InviteRow
  <2>3. invite' = [invite EXCEPT ![c] = row]
    BY <1>5 DEF RedeemInviteCode
  <2> HIDE DEF row
  <2>4. /\ invite' \in [Code -> InviteRow \cup {None}] /\ invite'[c] = row
        /\ \A d \in Code \ {c} : invite'[d] = invite[d]
        /\ row # None
    BY <2>2, <2>3, NoneOutside DEF DirectoryInv, TypeOK
  <2>5. RowsKept
    BY <1>1, <2>2, <2>4 DEF RowsKept, SameCell, GetTenant
  <2>6. Moves(r) /\ Fits(r)'
    BY <1>1, <1>2, <1>5, <2>5, GoesFits
  <2>7. req'[r].pc = "org" /\ req'[r].arg = c /\ req'[r].op = "redeem"
    BY <1>1, <1>2, <1>3, <1>5, GoesFields DEF PC, Steps, Over, Unbound
  <2>8. InvitesStand'
    BY <1>3, <2>4, <2>5, <2>6, InvitesStay
  <2>9. Unspent(c)'
    <3>1. Redeemers(c)' \subseteq Redeemers(c) \cup {r}
      BY <2>6 DEF Redeemers, Moves
    <3>2. IsFiniteSet(Redeemers(c))
      BY FS_Subset, DirectoryAssumption DEF Redeemers
    <3>3. /\ IsFiniteSet(Redeemers(c) \cup {r})
          /\ Cardinality(Redeemers(c)) \in Nat
          /\ Cardinality(Redeemers(c) \cup {r}) \in Nat
          /\ Cardinality(Redeemers(c) \cup {r}) <= Cardinality(Redeemers(c)) + 1
      <4> DEFINE S == Redeemers(c)
      <4>1. /\ IsFiniteSet(S \cup {r})
            /\ Cardinality(S \cup {r}) =
                 IF r \in S THEN Cardinality(S) ELSE Cardinality(S) + 1
        BY <3>2, FS_AddElement
      <4>2. Cardinality(S) \in Nat
        BY <3>2, FS_CardinalityType
      <4> HIDE DEF S
      <4>3. /\ Cardinality(S \cup {r}) \in Nat
            /\ Cardinality(S \cup {r}) <= Cardinality(S) + 1
        BY <4>1, <4>2
      <4> QED
        BY <4>1, <4>2, <4>3 DEF S
    <3>4. /\ Cardinality(Redeemers(c)') \in Nat
          /\ Cardinality(Redeemers(c)') <= Cardinality(Redeemers(c) \cup {r})
      BY <3>1, <3>3, FS_Subset, FS_CardinalityType
    <3>5. /\ Cardinality(Redeemers(c)) <= invite[c].uses
          /\ invite[c].max # None => invite[c].uses < invite[c].max
      BY <1>3, <1>5 DEF DirectoryInv, InviteNotOverspent, Redeemable
    <3>6. invite[c].max # None => invite[c].max \in Nat
      BY <2>1, DirectoryAssumption DEF InviteRow
    <3>7. Cardinality(Redeemers(c)') <= row.uses
      BY <2>2, <3>3, <3>4, <3>5
    <3>8. row.max # None => row.uses <= row.max
      BY <2>2, <3>5, <3>6
    <3> QED
      BY <2>4, <3>7, <3>8 DEF Unspent
  <2>10. ASSUME NEW d \in Code \ {c} PROVE Unspent(d)'
    <3>1. Redeemers(d)' \subseteq Redeemers(d)
      BY <2>6, <2>7 DEF Redeemers, Moves
    <3> QED
      BY <2>4, <3>1, UnspentStays
  <2>11. InviteNotOverspent'
    BY <2>9, <2>10 DEF Unspent, InviteNotOverspent
  <2> QED
    BY <1>1, <2>4, <2>5, <2>6, <2>8, <2>11, InviteOnly
<1> QED
  BY <1>3, <1>4, <1>5 DEF RedeemInvite

(* Only an organization of this cell is joined. *)
LEMMA ResolveOrgInv ==
  ASSUME DirectoryInv, NEW r \in Requests, ResolveOrg(r) PROVE DirectoryInv'
<1>1. /\ req[r] \in Request /\ Fits(r) /\ req[r].pc = "org"
      /\ UNCHANGED <<dirVars, cellVars>>
  BY RowTypes DEF DirectoryInv, ResolveOrg, At
<1>2. UNCHANGED <<tenant, invite>> /\ RowsKept
  BY <1>1 DEF RowsKept, SameCell, GetTenant, dirVars, cellVars
<1>3. CASE Ends(r, "refused", None)
  BY <1>1, <1>3, EndsInv DEF Over
<1>4. CASE Goes(r, "join") /\ SameCell(invite[req[r].arg].org)
  <2>1. req[r].op = "redeem"
    BY <1>1 DEF Fits, KnowsArg
  <2>2. invite'[req[r].arg].org # Far
    BY <1>2, <1>4 DEF SameCell, GetTenant, DirectoryInv, HomesStand
  <2>3. Moves(r) /\ Fits(r)'
    BY <1>1, <1>2, <1>4, <2>1, <2>2, GoesFits
  <2>4. PassesNone(r)
    <3>1. req'[r].op = req[r].op /\ req'[r].arg = req[r].arg
      BY <1>1, <1>4, GoesFields DEF PC, Steps, Over, Unbound
    <3> QED
      BY <1>1, <3>1 DEF PassesNone
  <2> QED
    BY <1>1, <2>3, <2>4, RequestOnly
<1> QED
  BY <1>3, <1>4 DEF ResolveOrg

(* The membership is the invite's, and its redeemer is the witness. *)
LEMMA JoinTheOrgInv ==
  ASSUME DirectoryInv, NEW r \in Requests, JoinTheOrg(r) PROVE DirectoryInv'
<1>1. /\ req[r] \in Request /\ Fits(r) /\ req[r].pc = "join"
      /\ Goes(r, "done") /\ UNCHANGED <<dirVars, app_user>>
  BY RowTypes DEF DirectoryInv, JoinTheOrg, At
<1>2. UNCHANGED <<tenant, directory, invite, app_user>> /\ RowsKept
  BY <1>1 DEF RowsKept, SameCell, GetTenant, dirVars
<1>3. req[r].op = "redeem"
  BY <1>1 DEF Fits, KnowsArg
<1>4. PICK c \in Code : c = req[r].arg /\ invite[c] # None /\ invite[c].org # Far
  BY <1>1, <1>3 DEF Fits, KnowsArg
<1>5. PICK u \in Requests : u = req[r].user /\ app_user[u] # None
  <2>1. req[r].user # None /\ app_user[req[r].user] # None
    BY <1>1 DEF Fits, KnowsUser
  <2>2. req[r].user \in Requests
    BY <1>1, <2>1 DEF Request
  <2> QED
    BY <2>1, <2>2
<1>6. PICK o \in OrgId, role \in Role :
        o = invite[c].org /\ role = invite[c].role /\ Bound(o)
  BY <1>4, RowTypes DEF DirectoryInv, InvitesStand, InviteRow
<1>7. Moves(r) /\ Fits(r)'
  BY <1>1, <1>2, <1>3, GoesFits
<1>8. /\ req'[r].pc = "done" /\ req'[r].op = "redeem" /\ req'[r].arg = c
      /\ req'[r].user = u
  BY <1>1, <1>3, <1>4, <1>5, GoesFields DEF PC, Steps, Over, Unbound
<1>9. PassesNone(r)
  BY <1>1, <1>3, <1>4, <1>8 DEF PassesNone
<1>10. UsersHome' /\ app_user' \in [Requests -> UserRow \cup {None}]
  BY <1>2, <1>7, UsersStay DEF DirectoryInv, TypeOK
<1>11. org_member' = JoinOrg(o, u, role)
  BY <1>4, <1>5, <1>6 DEF JoinTheOrg
<1>12. CASE org_member' = org_member
  BY <1>1, <1>2, <1>7, <1>9, <1>10, <1>12, MembersStay, CellOnly
     DEF DirectoryInv, TypeOK
<1>13. CASE org_member' = [org_member EXCEPT ![o][u] = role]
  <2>1. /\ org_member' \in [OrgId -> [Requests -> Role \cup {None}]]
        /\ org_member'[o][u] = role
        /\ Traced(o, u)' => MembersTraced'
    BY <1>2, <1>7, <1>13, MemberWritten
  <2>2. Bound(o)'
    BY <1>2, <1>6 DEF Bound
  <2>3. \E d \in Code, q \in Requests :
          /\ invite'[d] # None /\ invite'[d].org = o /\ invite'[d].role = role
          /\ req'[q].op = "redeem" /\ req'[q].arg = d
          /\ req'[q].pc = "done" /\ req'[q].user = u
    BY <1>2, <1>4, <1>6, <1>8
  <2>4. Traced(o, u)'
    BY <1>2, <1>4, <1>5, <1>6, <2>1, <2>2, <2>3 DEF Traced
  <2> QED
    BY <1>1, <1>2, <1>7, <1>9, <1>10, <2>1, <2>4, CellOnly
<1> QED
  BY <1>11, <1>12, <1>13 DEF JoinOrg

(* An invite that expires is the same invite. *)
LEMMA ExpireInv ==
  ASSUME DirectoryInv, NEW c \in Requests, Expire(c) PROVE DirectoryInv'
<1> DEFINE row == [invite[c] EXCEPT !.expired = TRUE]
<1>1. UNCHANGED <<tenant, directory, app_user, org_member, req>>
  BY DEF Expire, cellVars
<1>2. invite[c] # None /\ invite' = [invite EXCEPT ![c] = row] /\ c \in Code
  BY NoneOutside DEF Expire
<1>3. invite[c] \in InviteRow
  BY <1>2, RowTypes DEF DirectoryInv
<1>4. /\ row \in InviteRow /\ row.org = invite[c].org
      /\ row.role = invite[c].role /\ row.max = invite[c].max
      /\ row.uses = invite[c].uses
  BY <1>3 DEF InviteRow
<1> HIDE DEF row
<1>5. /\ invite' \in [Code -> InviteRow \cup {None}]
      /\ \A d \in Code :
           /\ invite'[d] # None <=> invite[d] # None
           /\ invite[d] # None =>
                /\ invite'[d].org = invite[d].org
                /\ invite'[d].role = invite[d].role
                /\ invite'[d].max = invite[d].max
                /\ invite'[d].uses = invite[d].uses
  BY <1>2, <1>4, NoneOutside DEF DirectoryInv, TypeOK
<1>6. RowsKept
  BY <1>1, <1>5 DEF RowsKept, SameCell, GetTenant
<1>7. TypeOK'
  BY <1>1, <1>5 DEF DirectoryInv, TypeOK
<1>8. HomesStand' /\ NamesBound' /\ UsersHome'
  BY <1>1 DEF DirectoryInv, HomesStand, NamesBound, UsersHome, Bound
<1>9. \A d \in Requests : Fits(d)'
  BY <1>1, <1>6, FitsStays
<1>10. InvitesStand'
  BY <1>1, <1>5 DEF DirectoryInv, InvitesStand, Bound
<1>11. MembersTraced'
  BY <1>1, <1>5 DEF DirectoryInv, MembersTraced, Traced, Bound
<1>12. InviteNotOverspent'
  <2>1. \A d \in Code : Redeemers(d)' \subseteq Redeemers(d)
    BY <1>1 DEF Redeemers
  <2>2. \A d \in Code : Unspent(d)'
    BY <1>5, <2>1, UnspentStays
  <2> QED
    BY <2>2 DEF Unspent, InviteNotOverspent
<1> QED
  BY <1>7, <1>8, <1>9, <1>10, <1>11, <1>12 DEF DirectoryInv

-----------------------------------------------------------------------------
(* Every step keeps the invariant. *)
LEMMA NextInv == DirectoryInv /\ [Next]_vars => DirectoryInv'
<1> SUFFICES ASSUME DirectoryInv, [Next]_vars PROVE DirectoryInv'
  OBVIOUS
<1>1. CASE \E r \in Requests, op \in Ops,
              arg \in Tokens \cup Code \cup Slugs \cup {None} : Arrive(r, op, arg)
  BY <1>1, ArriveInv
<1>2. CASE \E r \in Requests : Serve(r)
  <2>1. PICK r \in Requests : Serve(r)
    BY <1>2
  <2>2. CASE LookupHome(r) \/ AdoptHome(r) \/ Bind(r) \/ DropOrg(r)
    BY <2>2, LookupInv, BindInv, DropOrgInv
  <2>3. CASE \E s \in Slugs : CreateOrg(r, s)
    BY <2>3, CreateOrgInv
  <2>4. CASE GetUser(r) \/ PutUser(r) \/ RecordEmail(r) \/ NoEmail(r)
                \/ NameOrg(r)
    BY <2>4, GetUserInv, PutUserInv, RecordEmailInv, NoEmailInv, NameOrgInv
  <2>5. CASE RequireOwner(r) \/ RedeemInvite(r) \/ ResolveOrg(r) \/ JoinTheOrg(r)
    BY <2>5, RequireOwnerInv, RedeemInviteInv, ResolveOrgInv, JoinTheOrgInv
  <2>6. CASE \E role \in Role, max \in Uses \cup {None} :
               CreateInvite(r, role, max)
    BY <2>6, CreateInviteInv
  <2> QED
    BY <2>1, <2>2, <2>3, <2>4, <2>5, <2>6 DEF Serve
<1>3. CASE \E r \in Requests : DatabaseFails(r) \/ NamingFails(r)
  BY <1>3, FailsInv
<1>4. CASE \E c \in Requests : Expire(c)
  BY <1>4, ExpireInv
<1>5. CASE UNCHANGED vars
  <2>1. UNCHANGED <<tenant, directory, invite, app_user, org_member, req>>
    BY <1>5 DEF vars
  <2>2. TypeOK' /\ HomesStand' /\ NamesBound' /\ UsersHome' /\ InvitesStand'
    BY <2>1 DEF DirectoryInv, TypeOK, HomesStand, NamesBound, UsersHome,
       InvitesStand, Bound
  <2>3. MembersTraced'
    BY <2>1 DEF DirectoryInv, MembersTraced, Traced, Bound
  <2>4. InviteNotOverspent'
    <3>1. \A c \in Code : Redeemers(c)' \subseteq Redeemers(c)
      BY <2>1 DEF Redeemers
    <3>2. \A c \in Code : Unspent(c)'
      BY <2>1, <3>1, UnspentStays
    <3> QED
      BY <3>2 DEF Unspent, InviteNotOverspent
  <2>5. RowsKept
    BY <2>1 DEF RowsKept, SameCell, GetTenant
  <2> QED
    BY <2>1, <2>2, <2>3, <2>4, <2>5, FitsStays DEF DirectoryInv
<1> QED
  BY <1>1, <1>2, <1>3, <1>4, <1>5 DEF Next

(* The invariant holds in every state of every behaviour. *)
THEOREM DirectoryInvariant == Spec => []DirectoryInv
<1>1. Init => DirectoryInv
  BY InitInv
<1>2. DirectoryInv /\ [Next]_vars => DirectoryInv'
  BY NextInv
<1> QED
  BY <1>1, <1>2, PTL DEF Spec

(* signUp and ensureUser: concurrent first requests of one person end with   *)
(* one organization and one user row, and the binding names it.              *)
THEOREM SignUpsConverge == Spec => []OneHome
<1>1. DirectoryInv => OneHome
  <2> SUFFICES ASSUME DirectoryInv, NEW r \in Requests, NEW q \in Requests,
                      req[r].p = req[q].p, req[r].user # None, req[q].user # None
               PROVE  /\ req[r].org = req[q].org /\ req[r].user = req[q].user
                      /\ directory[req[r].p] = req[r].org
                      /\ app_user[req[r].user].subject = req[r].p
                      /\ app_user[req[r].user].home = req[r].org
    BY DEF OneHome
  <2>1. /\ req[r].user \in Requests \cup {None}
        /\ req[q].user \in Requests \cup {None}
    BY RowTypes DEF DirectoryInv, Request
  <2>2. /\ directory[req[r].p] = req[r].org /\ directory[req[q].p] = req[q].org
        /\ app_user[req[r].user] # None /\ app_user[req[q].user] # None
        /\ app_user[req[r].user].subject = req[r].p
        /\ app_user[req[q].user].subject = req[q].p
    BY DEF DirectoryInv, Fits, KnowsHome, KnowsUser
  <2>3. req[r].user = req[q].user /\ app_user[req[r].user].home = req[r].org
    BY <2>1, <2>2 DEF DirectoryInv, UsersHome
  <2> QED
    BY <2>2, <2>3
<1> QED
  BY <1>1, DirectoryInvariant, PTL

(* RedeemInviteCode checks and raises the count in one statement: a code of  *)
(* n uses lets n requests past.                                              *)
THEOREM InvitesNotOverspent == Spec => []InviteNotOverspent
<1>1. DirectoryInv => InviteNotOverspent
  BY DEF DirectoryInv
<1> QED
  BY <1>1, DirectoryInvariant, PTL

(* handleRedeemInvite, ensureUser: every membership is of an organization    *)
(* that somebody has as home, and is its owner's or an invite's; it is of    *)
(* this cell unless it is the member's own home.                             *)
THEOREM MembershipsTraced == Spec => []MembershipTraced
<1>1. DirectoryInv => MembershipTraced
  <2> SUFFICES ASSUME DirectoryInv PROVE MembershipTraced
    OBVIOUS
  <2>1. ASSUME NEW o \in OrgId, NEW u \in Requests, org_member[o][u] # None
        PROVE  /\ o \in ListOrgs(u) /\ Bound(o)
               /\ tenant[o].cell = "here" \/ app_user[u].home = o
               /\ \/ app_user[u].home = o /\ org_member[o][u] = "owner"
                  \/ \E c \in Code : /\ invite[c] # None /\ invite[c].org = o
                                     /\ invite[c].role = org_member[o][u]
                                     /\ \E r \in Redeemers(c) : req[r].user = u
    <3>1. Traced(o, u)
      BY DEF DirectoryInv, MembersTraced
    <3>2. /\ tenant[o] # None /\ Bound(o)
          /\ tenant[o].cell = "here" \/ app_user[u].home = o
      BY <2>1, <3>1, BoundStands DEF Traced, DirectoryInv, HomesStand
    <3>3. o \in ListOrgs(u)
      BY <2>1, <3>2 DEF ListOrgs, rolesByOrg, ListOrgsForUser, GetTenantsByIDs
    <3> QED
      BY <2>1, <3>1, <3>2, <3>3 DEF Traced, Redeemers
  <2>2. \A c \in Code : invite[c] # None => Bound(invite[c].org)
    BY DEF DirectoryInv, InvitesStand
  <2> QED
    BY <2>1, <2>2 DEF MembershipTraced
<1> QED
  BY <1>1, DirectoryInvariant, PTL

(* signUp does not recurse and ensureUser retries once, and that is enough:  *)
(* no request fails for having lost a race.                                  *)
THEOREM LosersAreServed == Spec => []NoRaceFails
<1>1. DirectoryInv => NoRaceFails
  BY DEF DirectoryInv, Fits, NoRaceFails
<1> QED
  BY <1>1, DirectoryInvariant, PTL

(* NameTenant's WHERE name_generated: a name that was given stays, in every  *)
(* step of every behaviour.                                                  *)
THEOREM NamesAreGivenOnce == Spec => NamedOnce
<1>1. DirectoryInv /\ [Next]_vars =>
        [\A o \in Requests :
           tenant[o] # None /\ ~tenant[o].name_generated
             => tenant'[o] # None /\ tenant'[o].name = tenant[o].name]_vars
  <2> SUFFICES ASSUME DirectoryInv, Next, NEW o \in Requests,
                      tenant[o] # None, ~tenant[o].name_generated
               PROVE  tenant'[o] # None /\ tenant'[o].name = tenant[o].name
    OBVIOUS
  <2>1. Bound(o) /\ req[o].pc \notin Unbound
    <3>1. Bound(o)
      BY DEF DirectoryInv, NamesBound
    <3> QED
      BY <3>1, BoundStands, NoneOutside
  <2>2. tenant \in [OrgId -> TenantRow \cup {None}]
    BY DEF DirectoryInv, TypeOK
  <2>3. CASE tenant' = tenant
    BY <2>3
  <2>4. CASE \E r \in Requests, s \in Slugs : CreateOrg(r, s)
    <3>1. PICK r \in Requests, s \in Slugs : CreateOrg(r, s)
      BY <2>4
    <3>2. r # o
      BY <2>1, <3>1 DEF CreateOrg, At, Unbound
    <3> QED
      BY <2>2, <3>1, <3>2, NoneOutside DEF CreateOrg, CreateTenant
  <2>5. CASE \E r \in Requests : DropOrg(r)
    <3>1. PICK r \in Requests : DropOrg(r)
      BY <2>5
    <3>2. r # o
      BY <2>1, <3>1 DEF DropOrg, At, Unbound
    <3> QED
      BY <2>2, <3>1, <3>2, NoneOutside DEF DropOrg, DeleteTenant, dirVars
  <2>6. CASE \E r \in Requests : NameOrg(r)
    <3>1. PICK r \in Requests : NameOrg(r)
      BY <2>6
    <3> DEFINE q == req[r].org
    <3>2. tenant' = tenant \/ (q # o /\ tenant'[o] = tenant[o])
      BY <2>2, <3>1, NoneOutside DEF NameOrg, NameTenant
    <3> QED
      BY <3>2
  <2> QED
    BY <2>3, <2>4, <2>5, <2>6 DEF Next, Serve, Arrive, LookupHome, Bind,
       AdoptHome, GetUser, PutUser, RecordEmail, NoEmail, RequireOwner, CreateInvite,
       RedeemInvite, ResolveOrg, JoinTheOrg, Expire, DatabaseFails, NamingFails,
       dirVars
<1> QED
  BY <1>1, DirectoryInvariant, PTL DEF Spec, NamedOnce

(* Type correctness, the tables' and the requests'. *)
THEOREM DirectoryTypes == Spec => []TypeOK
<1>1. DirectoryInv => TypeOK
  BY DEF DirectoryInv
<1> QED
  BY <1>1, DirectoryInvariant, PTL
=============================================================================

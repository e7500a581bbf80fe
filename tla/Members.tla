-------------------------------- MODULE Members --------------------------------
(***************************************************************************)
(* Accounts, the members of the law firms, invites and sessions            *)
(* (src/internal/auth).                                                    *)
(*                                                                         *)
(* Accepting an invite is six statements on four tables with nothing       *)
(* around them; each is an action.  A session is a signed token: what it   *)
(* says was read when it was issued and is never read again.               *)
(***************************************************************************)
EXTENDS Integers, Sequences, FiniteSets

CONSTANTS
  Account,       \* emails
  Admins,        \* accounts with the admin role
  Office,        \* law firms
  Owner,         \* the owner of each
  Invite,
  MemberRequest, \* requests in flight
  MemberFaults,  \* subset of {"db"}
  NoRow, None

ASSUME MemberAssumption ==
  /\ Admins \subseteq Account
  /\ Owner \in [Office -> Account]
  /\ MemberFaults \subseteq {"db"}
  /\ NoRow \notin {"active", "inactive"} /\ None \notin Account
  /\ NoRow \notin [office : Office, used : Account \cup {None}, expired : BOOLEAN]

VARIABLES
  account,     \* rows of users: "active", "inactive" or NoRow
  office,      \* whether a firm is active
  membership,  \* rows of user_tenants
  invite,      \* rows of invite_tokens
  session,     \* tokens issued
  memberReq,   \* requests in flight
  everMember,  \* history: rows user_tenants ever had
  admitted,    \* history: <<invite, account>>, who came in by what
  revoked,     \* history: invites that were deleted
  acceptRaced  \* history: invites with overlapping accepts, or one that failed before the mark

memberRows == <<account, office, membership, invite, session>>
memberHistory == <<everMember, admitted, revoked, acceptRaced>>
memberVars == <<memberRows, memberReq, memberHistory>>

UserRow == {"active", "inactive"}
MembershipRow == Account \X Office
InviteRow == [office : Office, used : Account \cup {None}, expired : BOOLEAN]
Session == [user : Account, admin : BOOLEAN, office : Office \cup {None}]

MemberIdle == [phase |-> "none"]
MemberPhase ==
  {"none", "exists", "createUser", "member", "associate", "mark", "remove", "tenants", "allowed"}

MemberTypeOK ==
  /\ account \in [Account -> UserRow \cup {NoRow}]
  /\ office \in [Office -> BOOLEAN]
  /\ membership \subseteq MembershipRow
  /\ invite \in [Invite -> InviteRow \cup {NoRow}]
  /\ session \subseteq Session
  /\ \A r \in MemberRequest : memberReq[r].phase \in MemberPhase
  /\ acceptRaced \subseteq Invite /\ revoked \subseteq Invite

MemberInit ==
  /\ account = [a \in Account |-> IF a \in Admins \cup {Owner[o] : o \in Office} THEN "active" ELSE NoRow]
  /\ office = [o \in Office |-> TRUE]
  /\ membership = {<<Owner[o], o>> : o \in Office}
  /\ invite = [i \in Invite |-> NoRow]
  /\ session = {}
  /\ memberReq = [r \in MemberRequest |-> MemberIdle]
  /\ everMember = membership /\ admitted = {} /\ revoked = {} /\ acceptRaced = {}

-----------------------------------------------------------------------------
Served(r) == memberReq' = [memberReq EXCEPT ![r] = MemberIdle]
Step(r, q) == memberReq' = [memberReq EXCEPT ![r] = q]
Free(r) == memberReq[r] = MemberIdle
In(r, phase) == memberReq[r].phase = phase
Accepting(i) ==
  {r \in MemberRequest :
     memberReq[r].phase \in {"exists", "createUser", "member", "associate", "mark"} /\ memberReq[r].invite = i}

MemberFails(r) ==
  /\ "db" \in MemberFaults
  /\ ~Free(r)
  /\ Served(r)
  /\ acceptRaced' = IF In(r, "mark") THEN acceptRaced \cup {memberReq[r].invite} ELSE acceptRaced
  /\ UNCHANGED <<memberRows, everMember, admitted, revoked>>

-----------------------------------------------------------------------------
(* What a route asks of the token alone. *)

Auth(t) == t \in session
RequireAdmin(t) == Auth(t) /\ t.admin
RequireTenant(t) == Auth(t) /\ t.office # None

-----------------------------------------------------------------------------
(* Invites. *)

NewInviteToken(o) == [office |-> o, used |-> None, expired |-> FALSE]

GenerateInvite(i, o) ==
  /\ invite[i] = NoRow /\ i \notin revoked
  /\ invite' = [invite EXCEPT ![i] = NewInviteToken(o)]
  /\ UNCHANGED <<account, office, membership, session, memberReq, memberHistory>>

\* The clock passes expires_at.
IsExpired(i) ==
  /\ invite[i] # NoRow /\ ~invite[i].expired
  /\ invite' = [invite EXCEPT ![i].expired = TRUE]
  /\ UNCHANGED <<account, office, membership, session, memberReq, memberHistory>>

ListInvites(o) == {i \in Invite : invite[i] # NoRow /\ invite[i].office = o}
RevokeInvite(i) ==
  /\ \E o \in Office : i \in ListInvites(o)
  /\ invite' = [invite EXCEPT ![i] = NoRow]
  /\ revoked' = revoked \cup {i}
  /\ UNCHANGED <<account, office, membership, session, memberReq, everMember, admitted, acceptRaced>>

Validate(row) == row.used = None /\ ~row.expired

\* The page shows the form for the same invites.
PreviewInvite(i) == invite[i] # NoRow /\ Validate(invite[i])

AcceptInvite(r, i, a) ==
  /\ Free(r)
  /\ PreviewInvite(i)
  /\ Step(r, [phase |-> "exists", invite |-> i, row |-> invite[i], user |-> a])
  /\ acceptRaced' = IF Accepting(i) # {} THEN acceptRaced \cup {i} ELSE acceptRaced
  /\ UNCHANGED <<memberRows, everMember, admitted, revoked>>

ExistsByEmail(r) ==
  LET q == memberReq[r] IN
  /\ In(r, "exists")
  /\ Step(r, [q EXCEPT !.phase = IF account[q.user] = NoRow THEN "createUser" ELSE "member"])
  /\ UNCHANGED <<memberRows, memberHistory>>

\* The unique key of the emails stops the second of two.
CreateUser(r) ==
  LET q == memberReq[r] IN
  /\ In(r, "createUser")
  /\ IF account[q.user] = NoRow
     THEN /\ account' = [account EXCEPT ![q.user] = "active"]
          /\ Step(r, [q EXCEPT !.phase = "member"])
     ELSE Served(r) /\ UNCHANGED account
  /\ UNCHANGED <<office, membership, invite, session, memberHistory>>

\* Mutant: the invite is marked before the member is added.
MarkFirst(q) == "mark"
AfterLookup(q) == IF <<q.user, q.row.office>> \in membership THEN "mark" ELSE "associate"

FindMembership(r) ==
  LET q == memberReq[r] IN
  /\ In(r, "member")
  /\ Step(r, [q EXCEPT !.phase = AfterLookup(q)])
  /\ admitted' = IF AfterLookup(q) = "mark" THEN admitted \cup {<<q.invite, q.user>>} ELSE admitted
  /\ UNCHANGED <<memberRows, everMember, revoked, acceptRaced>>

Associate(r) ==
  LET q == memberReq[r]
      m == <<q.user, q.row.office>>
  IN /\ In(r, "associate")
     /\ IF m \in membership
        THEN Served(r) /\ UNCHANGED <<membership, everMember, admitted, acceptRaced>>
        ELSE /\ membership' = membership \cup {m}
             /\ everMember' = everMember \cup {m}
             /\ admitted' = admitted \cup {<<q.invite, q.user>>}
             /\ Step(r, [q EXCEPT !.phase = "mark"])
             /\ UNCHANGED acceptRaced
     /\ UNCHANGED <<account, office, invite, session, revoked>>

\* Save inserts the row again when it was deleted meanwhile.
MarkUsed(row, a) == [row EXCEPT !.used = a]

SaveInvite(r) ==
  LET q == memberReq[r] IN
  /\ In(r, "mark")
  /\ invite' = [invite EXCEPT ![q.invite] = MarkUsed(q.row, q.user)]
  /\ Served(r)
  /\ UNCHANGED <<account, office, membership, session, memberHistory>>

-----------------------------------------------------------------------------
(* Members and accounts. *)

Removable(a, o) == a # Owner[o]

\* The page lists the members; IsOwner, and then the delete.
ListTenantUsers(o) == {a \in Account : <<a, o>> \in membership}
RemoveFromTenant(r, a, o) ==
  /\ Free(r)
  /\ \E t \in session : RequireTenant(t) /\ t.office = o
  /\ a \in ListTenantUsers(o)
  /\ Removable(a, o)
  /\ Step(r, [phase |-> "remove", user |-> a, office |-> o])
  /\ UNCHANGED <<memberRows, memberHistory>>
DeleteMembership(r) ==
  /\ In(r, "remove")
  /\ membership' = membership \ {<<memberReq[r].user, memberReq[r].office>>}
  /\ Served(r)
  /\ UNCHANGED <<account, office, invite, session, memberHistory>>

\* Block and unblock of an account; no route leads here.
changeAdminStatus(a, s) ==
  /\ account[a] # NoRow
  /\ account' = [account EXCEPT ![a] = s]
  /\ UNCHANGED <<office, membership, invite, session, memberReq, memberHistory>>

\* Module Tenants, seen from here: the panel is for admins.
BlockOffice(o) ==
  /\ \E t \in session : RequireAdmin(t)
  /\ office' = [office EXCEPT ![o] = ~@]
  /\ UNCHANGED <<account, membership, invite, session, memberReq, memberHistory>>

-----------------------------------------------------------------------------
(* Sessions. *)

Token(a, o) == [user |-> a, admin |-> a \in Admins, office |-> o]
Issue(t) == session' = session \cup {t}

\* The account, then its firms: a single active one is selected at once.
Login(r, a) ==
  /\ Free(r)
  /\ account[a] = "active"
  /\ Step(r, [phase |-> "tenants", user |-> a])
  /\ UNCHANGED <<memberRows, memberHistory>>
OfficesOf(a) == {o \in Office : <<a, o>> \in membership}
Selectable(o) == office[o]
Allowed(t, o) == t.admin \/ o \in OfficesOf(t.user)

FindTenants(r) ==
  LET a == memberReq[r].user IN
  /\ In(r, "tenants")
  /\ IF a \notin Admins /\ \E o \in Office : OfficesOf(a) = {o} /\ Selectable(o)
     THEN Issue(Token(a, CHOOSE o \in Office : OfficesOf(a) = {o}))
     ELSE Issue(Token(a, None))
  /\ Served(r)
  /\ UNCHANGED <<account, office, membership, invite, memberHistory>>

\* With any session: the firm, then the membership.  Neither the account nor
\* its role is read again.
SelectTenant(r, t, o) ==
  /\ Free(r)
  /\ Auth(t)
  /\ Selectable(o)
  /\ Step(r, [phase |-> "allowed", token |-> t, office |-> o])
  /\ UNCHANGED <<memberRows, memberHistory>>
IssueSelected(r) ==
  LET q == memberReq[r] IN
  /\ In(r, "allowed")
  /\ IF Allowed(q.token, q.office)
     THEN Issue([q.token EXCEPT !.office = q.office])
     ELSE UNCHANGED session
  /\ Served(r)
  /\ UNCHANGED <<account, office, membership, invite, memberHistory>>

\* Login of the admin panel: the same, and any role gets its token.
AdminLogin(r, a) == Login(r, a)

\* The token runs out, or the browser drops it.
Expire(t) ==
  /\ Auth(t)
  /\ session' = session \ {t}
  /\ UNCHANGED <<account, office, membership, invite, memberReq, memberHistory>>

-----------------------------------------------------------------------------
Accepts(r) ==
  \/ \E i \in Invite, a \in Account : AcceptInvite(r, i, a)
  \/ ExistsByEmail(r) \/ CreateUser(r) \/ FindMembership(r) \/ Associate(r) \/ SaveInvite(r)
Invites == \E i \in Invite : RevokeInvite(i) \/ IsExpired(i) \/ \E o \in Office : GenerateInvite(i, o)
Removals(r) ==
  (\E a \in Account, o \in Office : RemoveFromTenant(r, a, o)) \/ DeleteMembership(r)
Logins(r) == (\E a \in Account : Login(r, a) \/ AdminLogin(r, a)) \/ FindTenants(r)
Selections(r) == (\E t \in session, o \in Office : SelectTenant(r, t, o)) \/ IssueSelected(r)
Statuses == \E a \in Account, s \in {"active", "inactive"} : account[a] # s /\ changeAdminStatus(a, s)

MemberNext ==
  \/ \E r \in MemberRequest : Accepts(r) \/ Removals(r) \/ Logins(r) \/ Selections(r) \/ MemberFails(r)
  \/ Invites \/ Statuses
  \/ \E o \in Office : BlockOffice(o)
  \/ \E t \in session : Expire(t)

MemberSpec == MemberInit /\ [][MemberNext]_memberVars

-----------------------------------------------------------------------------
\* A used invite names an account that exists and was let into the firm, even
\* if the accept stopped between any two of its statements (invite_user.go:183).
UsedInviteHasMember ==
  \A i \in Invite : invite[i] # NoRow /\ invite[i].used # None =>
    /\ account[invite[i].used] # NoRow
    /\ <<invite[i].used, invite[i].office>> \in everMember

\* A revoked invite is never good for anybody again, although the accept that
\* was under way puts its row back (gorm_invite_token_repo.go:127).
RevokedIsUseless == \A i \in revoked : invite[i] # NoRow => ~Validate(invite[i])

\* An invite lets one account in, unless two accepts of it overlapped or one
\* stopped between the member and the mark (invite_user.go:133, 190).
OneAccountPerInvite ==
  \A i \in Invite \ acceptRaced : Cardinality({a \in Account : <<i, a>> \in admitted}) <= 1

\* A session of a firm belongs to an admin or to an account that was a member
\* of the firm, and the firm had been active; for a member that both held at
\* one moment is not sure, the two are read one after the other
\* (select_tenant.go:51, 65).
SessionsWereEarned ==
  \A t \in session : t.office # None /\ ~t.admin => <<t.user, t.office>> \in everMember

\* A firm always has its owner, so that leads find a responsible
\* (manage_users.go:136).
OwnersStay == \A o \in Office : <<Owner[o], o>> \in membership

\* What accounts, invites and sessions keep, however requests overlap, stop
\* midway or come late.
AccountsAreSound ==
  /\ MemberTypeOK /\ UsedInviteHasMember /\ RevokedIsUseless /\ OneAccountPerInvite
  /\ SessionsWereEarned /\ OwnersStay
=============================================================================

------------------------------ MODULE AccessProofs ------------------------------
(***************************************************************************)
(* Proofs about accounts, members, invites and sessions, about groups and  *)
(* permissions, and about load balancing, for any number of accounts,      *)
(* firms, invites, groups, leads and overlapping requests, with and        *)
(* without failing statements.                                             *)
(***************************************************************************)
EXTENDS LoadBalance, FiniteSetTheorems, WellFoundedInduction, TLAPS

USE MemberAssumption

-----------------------------------------------------------------------------
(* The inductive invariant: what a request in flight holds, and what it has *)
(* already done of an accept.                                               *)

AcceptPhase == {"exists", "createUser", "member", "associate", "mark"}
AcceptReq == [phase : AcceptPhase, invite : Invite, row : InviteRow, user : Account]
RemoveReq == [phase : {"remove"}, user : Account, office : Office]
LoginReq == [phase : {"tenants"}, user : Account]
SelectReq == [phase : {"allowed"}, token : Session, office : Office]
MemberReq == {MemberIdle} \cup AcceptReq \cup RemoveReq \cup LoginReq \cup SelectReq

MembersTyped ==
  /\ account \in [Account -> UserRow \cup {NoRow}]
  /\ office \in [Office -> BOOLEAN]
  /\ membership \subseteq MembershipRow
  /\ invite \in [Invite -> InviteRow \cup {NoRow}]
  /\ session \subseteq Session
  /\ memberReq \in [MemberRequest -> MemberReq]
  /\ acceptRaced \subseteq Invite /\ revoked \subseteq Invite
  /\ everMember \subseteq MembershipRow /\ admitted \subseteq Invite \X Account

\* Whoever is a member was one.
MembersWere == membership \subseteq everMember
\* No delete in flight is of an owner.
RemovesOthers ==
  \A r \in MemberRequest : In(r, "remove") => memberReq[r].user # Owner[memberReq[r].office]
\* An accept past the account has one, and past the member was let in.
AcceptsInOrder ==
  \A r \in MemberRequest :
    /\ memberReq[r].phase \in {"member", "associate", "mark"} => account[memberReq[r].user] # NoRow
    /\ In(r, "mark") => <<memberReq[r].user, memberReq[r].row.office>> \in everMember
\* A revoked invite is away, or back as a used one.
RevokedIsUsed == \A i \in revoked : invite[i] # NoRow => invite[i].used # None

\* Who came in by an invite that was accepted by one request at a time: that
\* request's account, or the one the invite was used by; and it is closed once
\* the request is over.
Closed(i) == i \in revoked \/ (invite[i] # NoRow /\ invite[i].used # None)
OneAccept(i) == \A r, s \in Accepting(i) : r = s
OneAdmitted(i) == \A a, b \in Account : <<i, a>> \in admitted /\ <<i, b>> \in admitted => a = b
AdmittedByMark(i) ==
  \A r \in Accepting(i) : \A a \in Account :
    <<i, a>> \in admitted => In(r, "mark") /\ memberReq[r].user = a
AdmittedIsClosed(i) ==
  \A a \in Account : <<i, a>> \in admitted => Accepting(i) # {} \/ Closed(i)
AcceptsApart ==
  \A i \in Invite \ acceptRaced :
    OneAccept(i) /\ OneAdmitted(i) /\ AdmittedByMark(i) /\ AdmittedIsClosed(i)

MembersInvariant ==
  /\ MembersTyped /\ MembersWere /\ RemovesOthers /\ OwnersStay /\ AcceptsInOrder
  /\ UsedInviteHasMember /\ RevokedIsUsed /\ SessionsWereEarned /\ AcceptsApart

-----------------------------------------------------------------------------
\* A request is of the shape its phase tells.
LEMMA ShapeOfPhase ==
  ASSUME NEW q \in MemberReq
  PROVE /\ q.phase \in MemberPhase
        /\ q.phase \in AcceptPhase => q \in AcceptReq
        /\ q.phase = "remove" => q \in RemoveReq
        /\ q.phase = "tenants" => q \in LoginReq
        /\ q.phase = "allowed" => q \in SelectReq
BY DEF MemberReq, MemberIdle, AcceptReq, RemoveReq, LoginReq, SelectReq, AcceptPhase, MemberPhase

\* The initial states satisfy the invariant.
LEMMA InitMembers == MemberInit => MembersInvariant
<1> SUFFICES ASSUME MemberInit PROVE MembersInvariant
  OBVIOUS
<1> USE DEF MemberInit, MemberIdle
<1>1. MembersTyped
  BY DEF MembersTyped, MemberReq, UserRow, MembershipRow, InviteRow, Session
<1>2. MembersWere /\ RemovesOthers /\ AcceptsInOrder /\ OwnersStay
  BY DEF MembersWere, RemovesOthers, AcceptsInOrder, OwnersStay, In
<1>3. UsedInviteHasMember /\ RevokedIsUsed /\ SessionsWereEarned
  BY DEF UsedInviteHasMember, RevokedIsUsed, SessionsWereEarned
<1>4. AcceptsApart
  BY DEF AcceptsApart, OneAccept, OneAdmitted, AdmittedByMark, AdmittedIsClosed, Accepting
<1> QED
  BY <1>1, <1>2, <1>3, <1>4 DEF MembersInvariant

\* A request takes up another record, or none.
LEMMA StepTyped ==
  ASSUME MembersTyped, NEW r \in MemberRequest, NEW q \in MemberReq,
         memberReq' = [memberReq EXCEPT ![r] = q]
  PROVE memberReq' \in [MemberRequest -> MemberReq]
BY DEF MembersTyped

\* An idle request is a request.
LEMMA IdleIsReq == MemberIdle \in MemberReq
BY DEF MemberReq

\* A request in a phase of an accept, and the same in another.
LEMMA AcceptIsReq ==
  ASSUME NEW q \in AcceptReq, NEW phase \in AcceptPhase
  PROVE /\ [q EXCEPT !.phase = phase] \in AcceptReq
        /\ [q EXCEPT !.phase = phase] \in MemberReq
        /\ [q EXCEPT !.phase = phase].phase = phase
BY DEF AcceptReq, MemberReq

\* The fields of a request that accepts an invite.
LEMMA InAccept ==
  ASSUME MembersTyped, NEW r \in MemberRequest, memberReq[r].phase \in AcceptPhase
  PROVE memberReq[r] \in AcceptReq
BY ShapeOfPhase DEF MembersTyped

\* Every action keeps the types.
LEMMA MembersTypedNext == MembersTyped /\ [MemberNext]_memberVars => MembersTyped'
<1> SUFFICES ASSUME MembersTyped, [MemberNext]_memberVars PROVE MembersTyped'
  OBVIOUS
<1> USE DEF Step, Served, In, memberRows, memberHistory
<1>1. ASSUME NEW r \in MemberRequest, NEW i \in Invite, NEW a \in Account, AcceptInvite(r, i, a)
      PROVE MembersTyped'
  <2>1. invite[i] \in InviteRow
    BY <1>1 DEF AcceptInvite, PreviewInvite, MembersTyped
  <2>2. [phase |-> "exists", invite |-> i, row |-> invite[i], user |-> a] \in MemberReq
    BY <2>1 DEF MemberReq, AcceptReq, AcceptPhase
  <2> QED
    BY <1>1, <2>2, StepTyped DEF AcceptInvite, MembersTyped
<1>2. ASSUME NEW r \in MemberRequest, ExistsByEmail(r) PROVE MembersTyped'
  <2>1. memberReq[r] \in AcceptReq
    BY <1>2, InAccept DEF ExistsByEmail, AcceptPhase
  <2>2. PICK phase \in AcceptPhase : memberReq' = [memberReq EXCEPT ![r] = [memberReq[r] EXCEPT !.phase = phase]]
    BY <1>2 DEF ExistsByEmail, AcceptPhase
  <2> QED
    BY <1>2, <2>1, <2>2, StepTyped, AcceptIsReq DEF ExistsByEmail, MembersTyped
<1>3. ASSUME NEW r \in MemberRequest, CreateUser(r) PROVE MembersTyped'
  <2>1. memberReq[r] \in AcceptReq /\ [memberReq[r] EXCEPT !.phase = "member"] \in MemberReq
    BY <1>3, InAccept, AcceptIsReq DEF CreateUser, AcceptPhase
  <2>2. memberReq' \in [MemberRequest -> MemberReq]
    BY <1>3, <2>1, StepTyped, IdleIsReq DEF CreateUser
  <2>3. account' \in [Account -> UserRow \cup {NoRow}]
    BY <1>3 DEF CreateUser, MembersTyped, UserRow
  <2> QED
    BY <1>3, <2>2, <2>3 DEF CreateUser, MembersTyped
<1>4. ASSUME NEW r \in MemberRequest, FindMembership(r) PROVE MembersTyped'
  <2>1. memberReq[r] \in AcceptReq
    BY <1>4, InAccept DEF FindMembership, AcceptPhase
  <2>2. AfterLookup(memberReq[r]) \in AcceptPhase
    BY DEF AfterLookup, AcceptPhase
  <2>3. memberReq' \in [MemberRequest -> MemberReq]
    BY <1>4, <2>1, <2>2, StepTyped, AcceptIsReq DEF FindMembership
  <2>4. admitted' \subseteq Invite \X Account
    BY <1>4, <2>1 DEF FindMembership, MembersTyped, AcceptReq
  <2> QED
    BY <1>4, <2>3, <2>4 DEF FindMembership, MembersTyped
<1>5. ASSUME NEW r \in MemberRequest, Associate(r) PROVE MembersTyped'
  <2>1. memberReq[r] \in AcceptReq /\ [memberReq[r] EXCEPT !.phase = "mark"] \in MemberReq
    BY <1>5, InAccept, AcceptIsReq DEF Associate, AcceptPhase
  <2>2. memberReq' \in [MemberRequest -> MemberReq]
    BY <1>5, <2>1, StepTyped, IdleIsReq DEF Associate
  <2>3. /\ memberReq[r].invite \in Invite
        /\ <<memberReq[r].user, memberReq[r].row.office>> \in MembershipRow
        /\ <<memberReq[r].invite, memberReq[r].user>> \in Invite \X Account
    BY <2>1 DEF AcceptReq, InviteRow, MembershipRow
  <2> QED
    BY <1>5, <2>2, <2>3 DEF Associate, MembersTyped
<1>6. ASSUME NEW r \in MemberRequest, SaveInvite(r) PROVE MembersTyped'
  <2>1. memberReq[r] \in AcceptReq
    BY <1>6, InAccept DEF SaveInvite, AcceptPhase
  <2>2. MarkUsed(memberReq[r].row, memberReq[r].user) \in InviteRow
    BY <2>1 DEF MarkUsed, AcceptReq, InviteRow
  <2>3. invite' \in [Invite -> InviteRow \cup {NoRow}]
    BY <1>6, <2>1, <2>2 DEF SaveInvite, MembersTyped, AcceptReq
  <2> QED
    BY <1>6, <2>3, StepTyped, IdleIsReq DEF SaveInvite, MembersTyped
<1>7. ASSUME NEW r \in MemberRequest, NEW a \in Account, NEW o \in Office, RemoveFromTenant(r, a, o)
      PROVE MembersTyped'
  <2>1. [phase |-> "remove", user |-> a, office |-> o] \in MemberReq
    BY DEF MemberReq, RemoveReq
  <2> QED
    BY <1>7, <2>1, StepTyped DEF RemoveFromTenant, MembersTyped
<1>8. ASSUME NEW r \in MemberRequest, DeleteMembership(r) PROVE MembersTyped'
  BY <1>8, StepTyped, IdleIsReq DEF DeleteMembership, MembersTyped
<1>9. ASSUME NEW r \in MemberRequest, NEW a \in Account, Login(r, a) PROVE MembersTyped'
  <2>1. [phase |-> "tenants", user |-> a] \in MemberReq
    BY DEF MemberReq, LoginReq
  <2> QED
    BY <1>9, <2>1, StepTyped DEF Login, MembersTyped
<1>10. ASSUME NEW r \in MemberRequest, FindTenants(r) PROVE MembersTyped'
  <2>1. memberReq[r].user \in Account
    BY <1>10, ShapeOfPhase DEF FindTenants, MembersTyped, LoginReq
  <2>2. \A o \in Office \cup {None} : Token(memberReq[r].user, o) \in Session
    BY <2>1 DEF Token, Session
  <2>3. session' \subseteq Session
    BY <1>10, <2>2 DEF FindTenants, Issue, MembersTyped
  <2> QED
    BY <1>10, <2>3, StepTyped, IdleIsReq DEF FindTenants, MembersTyped
<1>11. ASSUME NEW r \in MemberRequest, NEW t \in session, NEW o \in Office, SelectTenant(r, t, o)
       PROVE MembersTyped'
  <2>1. [phase |-> "allowed", token |-> t, office |-> o] \in MemberReq
    BY DEF MemberReq, SelectReq, MembersTyped
  <2> QED
    BY <1>11, <2>1, StepTyped DEF SelectTenant, MembersTyped
<1>12. ASSUME NEW r \in MemberRequest, IssueSelected(r) PROVE MembersTyped'
  <2>1. memberReq[r].token \in Session /\ memberReq[r].office \in Office
    BY <1>12, ShapeOfPhase DEF IssueSelected, MembersTyped, SelectReq
  <2>2. [memberReq[r].token EXCEPT !.office = memberReq[r].office] \in Session
    BY <2>1 DEF Session
  <2> QED
    BY <1>12, <2>2, StepTyped, IdleIsReq DEF IssueSelected, Issue, MembersTyped
<1>13. ASSUME NEW r \in MemberRequest, MemberFails(r) PROVE MembersTyped'
  <2>1. In(r, "mark") => memberReq[r].invite \in Invite
    BY InAccept DEF AcceptPhase, AcceptReq
  <2>2. acceptRaced' \subseteq Invite
    BY <1>13, <2>1 DEF MemberFails, MembersTyped
  <2> QED
    BY <1>13, <2>2, StepTyped, IdleIsReq DEF MemberFails, MembersTyped
<1>14. ASSUME NEW i \in Invite, NEW o \in Office, GenerateInvite(i, o) PROVE MembersTyped'
  BY <1>14 DEF GenerateInvite, NewInviteToken, InviteRow, MembersTyped
<1>15. ASSUME NEW i \in Invite, IsExpired(i) PROVE MembersTyped'
  <2>1. invite[i] \in InviteRow
    BY <1>15 DEF IsExpired, MembersTyped
  <2>2. [invite[i] EXCEPT !.expired = TRUE] \in InviteRow
    BY <2>1 DEF InviteRow
  <2> QED
    BY <1>15, <2>2 DEF IsExpired, MembersTyped
<1>16. ASSUME NEW i \in Invite, RevokeInvite(i) PROVE MembersTyped'
  BY <1>16 DEF RevokeInvite, MembersTyped
<1>17. ASSUME NEW a \in Account, NEW s \in {"active", "inactive"}, changeAdminStatus(a, s) PROVE MembersTyped'
  BY <1>17 DEF changeAdminStatus, MembersTyped, UserRow
<1>18. ASSUME NEW o \in Office, BlockOffice(o) PROVE MembersTyped'
  BY <1>18 DEF BlockOffice, MembersTyped
<1>19. ASSUME NEW t \in session, Expire(t) PROVE MembersTyped'
  BY <1>19 DEF Expire, MembersTyped
<1>20. CASE UNCHANGED memberVars
  BY <1>20 DEF memberVars, MembersTyped
<1> HIDE DEF Step, Served, In, memberRows, memberHistory
<1> QED
  BY <1>1, <1>2, <1>3, <1>4, <1>5, <1>6, <1>7, <1>8, <1>9, <1>10, <1>11, <1>12, <1>13, <1>14,
     <1>15, <1>16, <1>17, <1>18, <1>19, <1>20
  DEF MemberNext, Accepts, Invites, Removals, Logins, Selections, Statuses, AdminLogin

\* A request that takes up anything but a delete.
LEMMA RemovesKept ==
  ASSUME MembersTyped, RemovesOthers, NEW r \in MemberRequest, NEW q \in MemberReq, q.phase # "remove",
         memberReq' = [memberReq EXCEPT ![r] = q]
  PROVE RemovesOthers'
BY DEF MembersTyped, RemovesOthers, In

\* Members, owners and sessions.
LEMMA MembersStayNext ==
  MembersTyped /\ MembersWere /\ RemovesOthers /\ OwnersStay /\ SessionsWereEarned /\ [MemberNext]_memberVars
  => (MembersWere /\ RemovesOthers /\ OwnersStay /\ SessionsWereEarned)'
<1> SUFFICES ASSUME MembersTyped, MembersWere, RemovesOthers, OwnersStay, SessionsWereEarned, [MemberNext]_memberVars
             PROVE  (MembersWere /\ RemovesOthers /\ OwnersStay /\ SessionsWereEarned)'
  OBVIOUS
<1> DEFINE Goal == MembersWere /\ RemovesOthers /\ OwnersStay /\ SessionsWereEarned
<1> USE DEF MembersWere, RemovesOthers, OwnersStay, SessionsWereEarned, Step, Served, In, MemberIdle,
        memberRows, memberHistory
<1>1. ASSUME NEW r \in MemberRequest, NEW i \in Invite, NEW a \in Account, AcceptInvite(r, i, a) PROVE Goal'
  BY <1>1 DEF AcceptInvite
<1>2. ASSUME NEW r \in MemberRequest, ExistsByEmail(r) PROVE Goal'
  BY <1>2 DEF ExistsByEmail
<1>3. ASSUME NEW r \in MemberRequest, CreateUser(r) PROVE Goal'
  <2>1. memberReq[r] \in AcceptReq
    BY <1>3, InAccept DEF CreateUser, AcceptPhase
  <2>2. [memberReq[r] EXCEPT !.phase = "member"] \in MemberReq
        /\ [memberReq[r] EXCEPT !.phase = "member"].phase # "remove"
    BY <2>1, AcceptIsReq DEF AcceptPhase
  <2>3. MemberIdle \in MemberReq /\ MemberIdle.phase # "remove"
    BY IdleIsReq
  <2>4. \/ memberReq' = [memberReq EXCEPT ![r] = [memberReq[r] EXCEPT !.phase = "member"]]
        \/ memberReq' = [memberReq EXCEPT ![r] = MemberIdle]
    BY <1>3 DEF CreateUser
  <2>5. RemovesOthers'
    <3> HIDE DEF MembersWere, RemovesOthers, OwnersStay, SessionsWereEarned, Step, Served, In, MemberIdle
    <3> QED
      BY <2>2, <2>3, <2>4, RemovesKept
  <2> QED
    BY <1>3, <2>5 DEF CreateUser
<1>4. ASSUME NEW r \in MemberRequest, FindMembership(r) PROVE Goal'
  <2>1. memberReq[r] \in AcceptReq /\ AfterLookup(memberReq[r]) \in AcceptPhase
    BY <1>4, InAccept DEF FindMembership, AfterLookup, AcceptPhase
  <2>2. RemovesOthers'
    BY <1>4, <2>1, AcceptIsReq, RemovesKept DEF FindMembership, AcceptPhase
  <2> QED
    BY <1>4, <2>2 DEF FindMembership
<1>5. ASSUME NEW r \in MemberRequest, Associate(r) PROVE Goal'
  <2>1. memberReq[r] \in AcceptReq
    BY <1>5, InAccept DEF Associate, AcceptPhase
  <2>2. RemovesOthers'
    BY <1>5, <2>1, AcceptIsReq, RemovesKept, IdleIsReq, ZenonT(40) DEF Associate, AcceptPhase
  <2>3. membership \subseteq membership' /\ everMember \subseteq everMember' /\ membership' \subseteq everMember'
    BY <1>5 DEF Associate
  <2>4. session' = session
    BY <1>5 DEF Associate
  <2> QED
    BY <2>2, <2>3, <2>4
<1>6. ASSUME NEW r \in MemberRequest, SaveInvite(r) PROVE Goal'
  BY <1>6 DEF SaveInvite
<1>7. ASSUME NEW r \in MemberRequest, NEW a \in Account, NEW o \in Office, RemoveFromTenant(r, a, o) PROVE Goal'
  BY <1>7 DEF RemoveFromTenant, Removable, MembersTyped
<1>8. ASSUME NEW r \in MemberRequest, DeleteMembership(r) PROVE Goal'
  BY <1>8 DEF DeleteMembership
<1>9. ASSUME NEW r \in MemberRequest, NEW a \in Account, Login(r, a) PROVE Goal'
  BY <1>9 DEF Login
<1>10. ASSUME NEW r \in MemberRequest, FindTenants(r) PROVE Goal'
  <2> DEFINE u == memberReq[r].user
  <2>1. u \in Account
    BY <1>10, ShapeOfPhase DEF FindTenants, MembersTyped, LoginReq
  <2>2. ASSUME NEW t \in session', t \notin session, t.office # None, ~t.admin
        PROVE <<t.user, t.office>> \in everMember
    <3>1. PICK o \in Office : OfficesOf(u) = {o} /\ t = Token(u, CHOOSE x \in Office : OfficesOf(u) = {x})
      BY <1>10, <2>2 DEF FindTenants, Issue, Token
    <3>2. OfficesOf(u) = {CHOOSE x \in Office : OfficesOf(u) = {x}}
      BY <3>1
    <3> QED
      BY <3>1, <3>2 DEF OfficesOf, Token
  <2>3. UNCHANGED <<membership, everMember>>
    BY <1>10 DEF FindTenants
  <2>4. RemovesOthers'
    BY <1>10, IdleIsReq, RemovesKept DEF FindTenants
  <2> QED
    BY <2>2, <2>3, <2>4
<1>11. ASSUME NEW r \in MemberRequest, NEW t \in session, NEW o \in Office, SelectTenant(r, t, o) PROVE Goal'
  BY <1>11 DEF SelectTenant
<1>12. ASSUME NEW r \in MemberRequest, IssueSelected(r) PROVE Goal'
  <2>1. memberReq[r].token \in Session /\ memberReq[r].office \in Office
    BY <1>12, ShapeOfPhase DEF IssueSelected, MembersTyped, SelectReq
  <2>2. ASSUME NEW t \in session', t \notin session, ~t.admin
        PROVE <<t.user, t.office>> \in everMember
    <3>1. /\ Allowed(memberReq[r].token, memberReq[r].office)
          /\ t = [memberReq[r].token EXCEPT !.office = memberReq[r].office]
      BY <1>12, <2>2 DEF IssueSelected, Issue
    <3> QED
      BY <2>1, <2>2, <3>1 DEF Allowed, OfficesOf, Session
  <2>3. UNCHANGED <<membership, everMember>>
    BY <1>12 DEF IssueSelected
  <2>4. RemovesOthers'
    BY <1>12, IdleIsReq, RemovesKept DEF IssueSelected
  <2> QED
    BY <2>2, <2>3, <2>4
<1>13. ASSUME NEW r \in MemberRequest, MemberFails(r) PROVE Goal'
  BY <1>13 DEF MemberFails
<1>14. ASSUME NEW i \in Invite, NEW o \in Office, GenerateInvite(i, o) PROVE Goal'
  BY <1>14 DEF GenerateInvite
<1>15. ASSUME NEW i \in Invite, IsExpired(i) PROVE Goal'
  BY <1>15 DEF IsExpired
<1>16. ASSUME NEW i \in Invite, RevokeInvite(i) PROVE Goal'
  BY <1>16 DEF RevokeInvite
<1>17. ASSUME NEW a \in Account, NEW s \in {"active", "inactive"}, changeAdminStatus(a, s) PROVE Goal'
  BY <1>17 DEF changeAdminStatus
<1>18. ASSUME NEW o \in Office, BlockOffice(o) PROVE Goal'
  BY <1>18 DEF BlockOffice
<1>19. ASSUME NEW t \in session, Expire(t) PROVE Goal'
  BY <1>19 DEF Expire
<1>20. CASE UNCHANGED memberVars
  BY <1>20 DEF memberVars
<1> HIDE DEF MembersWere, RemovesOthers, OwnersStay, SessionsWereEarned, Step, Served, In, MemberIdle,
        memberRows, memberHistory
<1> QED
  BY <1>1, <1>2, <1>3, <1>4, <1>5, <1>6, <1>7, <1>8, <1>9, <1>10, <1>11, <1>12, <1>13, <1>14,
     <1>15, <1>16, <1>17, <1>18, <1>19, <1>20
  DEF MemberNext, Accepts, Invites, Removals, Logins, Selections, Statuses, AdminLogin

\* A request that takes up anything before an accept's member.
LEMMA AcceptsKept ==
  ASSUME MembersTyped, AcceptsInOrder, NEW r \in MemberRequest, NEW q \in MemberReq,
         q.phase \notin {"member", "associate", "mark"},
         memberReq' = [memberReq EXCEPT ![r] = q],
         account' = account, everMember \subseteq everMember'
  PROVE AcceptsInOrder'
BY DEF MembersTyped, AcceptsInOrder, In

\* Accepts, and the invites they leave.
LEMMA AcceptsKnownNext ==
  MembersTyped /\ MembersWere /\ AcceptsInOrder /\ UsedInviteHasMember /\ RevokedIsUsed /\ [MemberNext]_memberVars
  => (AcceptsInOrder /\ UsedInviteHasMember /\ RevokedIsUsed)'
<1> SUFFICES ASSUME MembersTyped, MembersWere, AcceptsInOrder, UsedInviteHasMember, RevokedIsUsed, [MemberNext]_memberVars
             PROVE  (AcceptsInOrder /\ UsedInviteHasMember /\ RevokedIsUsed)'
  OBVIOUS
<1> DEFINE Goal == AcceptsInOrder /\ UsedInviteHasMember /\ RevokedIsUsed
<1> USE DEF UsedInviteHasMember, RevokedIsUsed, Step, Served, In, MemberIdle, memberRows, memberHistory
<1>1. ASSUME NEW r \in MemberRequest, NEW i \in Invite, NEW a \in Account, AcceptInvite(r, i, a) PROVE Goal'
  <2>1. [phase |-> "exists", invite |-> i, row |-> invite[i], user |-> a] \in MemberReq
    BY <1>1 DEF AcceptInvite, PreviewInvite, MembersTyped, MemberReq, AcceptReq, AcceptPhase
  <2> QED
    BY <1>1, <2>1, AcceptsKept DEF AcceptInvite
<1>2. ASSUME NEW r \in MemberRequest, ExistsByEmail(r) PROVE Goal'
  <2>1. memberReq[r] \in AcceptReq
    BY <1>2, InAccept DEF ExistsByEmail, AcceptPhase
  <2>2. AcceptsInOrder'
    BY <1>2, <2>1 DEF ExistsByEmail, AcceptsInOrder, AcceptReq, MembersTyped
  <2> QED
    BY <1>2, <2>2 DEF ExistsByEmail
<1>3. ASSUME NEW r \in MemberRequest, CreateUser(r) PROVE Goal'
  <2>1. memberReq[r] \in AcceptReq
    BY <1>3, InAccept DEF CreateUser, AcceptPhase
  <2>2. \A a \in Account : account[a] # NoRow => account'[a] # NoRow
    BY <1>3 DEF CreateUser, MembersTyped
  <2>3. AcceptsInOrder'
    <3>1. CASE account[memberReq[r].user] = NoRow
      <4>1. memberReq' = [memberReq EXCEPT ![r] = [memberReq[r] EXCEPT !.phase = "member"]]
        BY <1>3, <3>1 DEF CreateUser
      <4>2. account'[memberReq[r].user] = "active" /\ everMember' = everMember
        BY <1>3, <2>1, <3>1 DEF CreateUser, MembersTyped, AcceptReq
      <4> QED
        BY <2>1, <2>2, <4>1, <4>2 DEF AcceptsInOrder, AcceptReq, AcceptPhase, MembersTyped, MemberReq,
             RemoveReq, LoginReq, SelectReq
    <3>2. CASE account[memberReq[r].user] # NoRow
      BY <1>3, <3>2, AcceptsKept, IdleIsReq DEF CreateUser
    <3> QED
      BY <3>1, <3>2
  <2>4. UsedInviteHasMember'
    BY <1>3, <2>2 DEF CreateUser, MembersTyped, InviteRow
  <2> QED
    BY <1>3, <2>3, <2>4 DEF CreateUser
<1>4. ASSUME NEW r \in MemberRequest, FindMembership(r) PROVE Goal'
  <2>1. memberReq[r] \in AcceptReq
    BY <1>4, InAccept DEF FindMembership, AcceptPhase
  <2>2. AcceptsInOrder'
    BY <1>4, <2>1 DEF FindMembership, AfterLookup, AcceptsInOrder, AcceptReq, MembersTyped, MembersWere
  <2> QED
    BY <1>4, <2>2 DEF FindMembership
<1>5. ASSUME NEW r \in MemberRequest, Associate(r) PROVE Goal'
  <2>1. memberReq[r] \in AcceptReq
    BY <1>5, InAccept DEF Associate, AcceptPhase
  <2>2. everMember \subseteq everMember'
    BY <1>5 DEF Associate
  <2>3. AcceptsInOrder'
    <3>1. CASE <<memberReq[r].user, memberReq[r].row.office>> \in membership
      BY <1>5, <3>1, AcceptsKept, IdleIsReq DEF Associate
    <3>2. CASE <<memberReq[r].user, memberReq[r].row.office>> \notin membership
      BY <1>5, <2>1, <2>2, <3>2 DEF Associate, AcceptsInOrder, AcceptReq, MembersTyped
    <3> QED
      BY <3>1, <3>2
  <2> QED
    BY <1>5, <2>2, <2>3 DEF Associate
<1>6. ASSUME NEW r \in MemberRequest, SaveInvite(r) PROVE Goal'
  <2>1. memberReq[r] \in AcceptReq
    BY <1>6, InAccept DEF SaveInvite, AcceptPhase
  <2> DEFINE q == memberReq[r]
  <2>2. /\ account[q.user] # NoRow
        /\ <<q.user, q.row.office>> \in everMember
        /\ q.user \in Account
    BY <1>6, <2>1 DEF SaveInvite, AcceptsInOrder, AcceptReq
  <2>3. MarkUsed(q.row, q.user).used = q.user /\ MarkUsed(q.row, q.user).office = q.row.office
    BY <2>1 DEF MarkUsed, AcceptReq, InviteRow
  <2>4. AcceptsInOrder'
    BY <1>6, AcceptsKept, IdleIsReq DEF SaveInvite
  <2> QED
    BY <1>6, <2>2, <2>3, <2>4 DEF SaveInvite, MembersTyped
<1>7. ASSUME NEW r \in MemberRequest, NEW a \in Account, NEW o \in Office, RemoveFromTenant(r, a, o) PROVE Goal'
  <2>1. [phase |-> "remove", user |-> a, office |-> o] \in MemberReq
    BY DEF MemberReq, RemoveReq
  <2> QED
    BY <1>7, <2>1, AcceptsKept DEF RemoveFromTenant
<1>8. ASSUME NEW r \in MemberRequest, DeleteMembership(r) PROVE Goal'
  BY <1>8, AcceptsKept, IdleIsReq DEF DeleteMembership
<1>9. ASSUME NEW r \in MemberRequest, NEW a \in Account, Login(r, a) PROVE Goal'
  <2>1. [phase |-> "tenants", user |-> a] \in MemberReq
    BY DEF MemberReq, LoginReq
  <2> QED
    BY <1>9, <2>1, AcceptsKept DEF Login
<1>10. ASSUME NEW r \in MemberRequest, FindTenants(r) PROVE Goal'
  BY <1>10, AcceptsKept, IdleIsReq DEF FindTenants
<1>11. ASSUME NEW r \in MemberRequest, NEW t \in session, NEW o \in Office, SelectTenant(r, t, o) PROVE Goal'
  <2>1. [phase |-> "allowed", token |-> t, office |-> o] \in MemberReq
    BY DEF MemberReq, SelectReq, MembersTyped
  <2> QED
    BY <1>11, <2>1, AcceptsKept DEF SelectTenant
<1>12. ASSUME NEW r \in MemberRequest, IssueSelected(r) PROVE Goal'
  BY <1>12, AcceptsKept, IdleIsReq DEF IssueSelected
<1>13. ASSUME NEW r \in MemberRequest, MemberFails(r) PROVE Goal'
  BY <1>13, AcceptsKept, IdleIsReq DEF MemberFails
<1>14. ASSUME NEW i \in Invite, NEW o \in Office, GenerateInvite(i, o) PROVE Goal'
  BY <1>14 DEF GenerateInvite, NewInviteToken, AcceptsInOrder, MembersTyped
<1>15. ASSUME NEW i \in Invite, IsExpired(i) PROVE Goal'
  <2>1. invite[i] \in InviteRow
    BY <1>15 DEF IsExpired, MembersTyped
  <2> QED
    BY <1>15, <2>1 DEF IsExpired, AcceptsInOrder, MembersTyped, InviteRow
<1>16. ASSUME NEW i \in Invite, RevokeInvite(i) PROVE Goal'
  BY <1>16 DEF RevokeInvite, AcceptsInOrder, MembersTyped
<1>17. ASSUME NEW a \in Account, NEW s \in {"active", "inactive"}, changeAdminStatus(a, s) PROVE Goal'
  BY <1>17 DEF changeAdminStatus, AcceptsInOrder, MembersTyped
<1>18. ASSUME NEW o \in Office, BlockOffice(o) PROVE Goal'
  BY <1>18 DEF BlockOffice, AcceptsInOrder
<1>19. ASSUME NEW t \in session, Expire(t) PROVE Goal'
  BY <1>19 DEF Expire, AcceptsInOrder
<1>20. CASE UNCHANGED memberVars
  BY <1>20 DEF memberVars, AcceptsInOrder
<1> HIDE DEF UsedInviteHasMember, RevokedIsUsed, Step, Served, In, MemberIdle, memberRows, memberHistory
<1> QED
  BY <1>1, <1>2, <1>3, <1>4, <1>5, <1>6, <1>7, <1>8, <1>9, <1>10, <1>11, <1>12, <1>13, <1>14,
     <1>15, <1>16, <1>17, <1>18, <1>19, <1>20
  DEF MemberNext, Accepts, Invites, Removals, Logins, Selections, Statuses, AdminLogin

\* Nobody new is let in, and a request that let somebody in stays or leaves
\* its invite closed.
LEMMA ApartKept ==
  ASSUME MembersTyped, AcceptsApart, acceptRaced \subseteq acceptRaced', admitted' = admitted,
         \A i \in Invite \ acceptRaced' :
           /\ Accepting(i)' \subseteq Accepting(i)
           /\ \A r \in Accepting(i)' : In(r, "mark") => memberReq'[r] = memberReq[r]
           /\ \A r \in Accepting(i) : In(r, "mark") => r \in Accepting(i)' \/ Closed(i)'
           /\ Closed(i) => Closed(i)'
  PROVE AcceptsApart'
<1> SUFFICES ASSUME NEW i \in Invite \ acceptRaced'
             PROVE  (OneAccept(i) /\ OneAdmitted(i) /\ AdmittedByMark(i) /\ AdmittedIsClosed(i))'
  BY DEF AcceptsApart
<1>1. OneAccept(i) /\ OneAdmitted(i) /\ AdmittedByMark(i) /\ AdmittedIsClosed(i)
  BY DEF AcceptsApart
<1>2. OneAccept(i)' /\ OneAdmitted(i)'
  BY <1>1 DEF OneAccept, OneAdmitted
<1>3. AdmittedByMark(i)'
  BY <1>1 DEF AdmittedByMark, In
<1>4. AdmittedIsClosed(i)'
  BY <1>1 DEF AdmittedIsClosed, AdmittedByMark
<1> QED
  BY <1>2, <1>3, <1>4

\* A request that is at no accept before and after.
LEMMA ApartElsewhere ==
  ASSUME MembersTyped, AcceptsApart, UNCHANGED <<acceptRaced, admitted, invite, revoked>>,
         NEW r \in MemberRequest, NEW q \in MemberReq, memberReq' = [memberReq EXCEPT ![r] = q],
         memberReq[r].phase \notin AcceptPhase, q.phase \notin AcceptPhase
  PROVE AcceptsApart'
<1>1. \A i \in Invite : Accepting(i)' = Accepting(i) /\ (Closed(i)' <=> Closed(i))
  BY DEF Accepting, Closed, AcceptPhase, MembersTyped
<1>2. \A i \in Invite : \A s \in Accepting(i) : memberReq'[s] = memberReq[s]
  BY DEF Accepting, AcceptPhase, MembersTyped
<1> QED
  BY <1>1, <1>2, ApartKept

\* Requests stay, and no invite is opened.
LEMMA ApartStill ==
  ASSUME MembersTyped, AcceptsApart, UNCHANGED <<acceptRaced, admitted, memberReq>>,
         \A i \in Invite : Closed(i) => Closed(i)'
  PROVE AcceptsApart'
<1>1. \A i \in Invite : Accepting(i)' = Accepting(i)
  BY DEF Accepting
<1> QED
  BY <1>1, ApartKept

\* A request that goes on with its accept without letting anybody in, from
\* before it did.
LEMMA ApartGoesOn ==
  ASSUME MembersTyped, AcceptsApart, UNCHANGED <<acceptRaced, admitted, invite, revoked>>,
         NEW r \in MemberRequest, NEW phase \in AcceptPhase, phase # "mark",
         memberReq[r].phase \in AcceptPhase \ {"mark"},
         memberReq' = [memberReq EXCEPT ![r] = [memberReq[r] EXCEPT !.phase = phase]]
  PROVE AcceptsApart'
<1>1. memberReq[r] \in AcceptReq
  BY InAccept
<1>2. \A i \in Invite : Accepting(i)' = Accepting(i) /\ (Closed(i)' <=> Closed(i))
  BY <1>1 DEF Accepting, Closed, AcceptPhase, AcceptReq, MembersTyped
<1>3. \A s \in MemberRequest : s # r => memberReq'[s] = memberReq[s]
  BY DEF MembersTyped
<1> QED
  BY <1>2, <1>3, ApartKept DEF In

\* A request that ends before it let anybody in.
LEMMA ApartEnds ==
  ASSUME MembersTyped, AcceptsApart, UNCHANGED <<acceptRaced, admitted, invite, revoked>>,
         NEW r \in MemberRequest, memberReq[r].phase # "mark",
         memberReq' = [memberReq EXCEPT ![r] = MemberIdle]
  PROVE AcceptsApart'
<1>1. \A i \in Invite : Accepting(i)' = Accepting(i) \ {r} /\ (Closed(i)' <=> Closed(i))
  BY DEF Accepting, Closed, AcceptPhase, MembersTyped, MemberIdle
<1>2. \A s \in MemberRequest : s # r => memberReq'[s] = memberReq[s]
  BY DEF MembersTyped
<1> QED
  BY <1>1, <1>2, ApartKept DEF In

\* A request that lets its account in.
LEMMA ApartLetsIn ==
  ASSUME MembersTyped, AcceptsApart, UNCHANGED <<acceptRaced, invite, revoked>>,
         NEW r \in MemberRequest, memberReq[r].phase \in AcceptPhase \ {"mark"},
         memberReq' = [memberReq EXCEPT ![r] = [memberReq[r] EXCEPT !.phase = "mark"]],
         admitted' = admitted \cup {<<memberReq[r].invite, memberReq[r].user>>}
  PROVE AcceptsApart'
<1> DEFINE q == memberReq[r]
<1>1. q \in AcceptReq
  BY InAccept
<1>2. \A i \in Invite : Accepting(i)' = Accepting(i) /\ (Closed(i)' <=> Closed(i))
  BY <1>1 DEF Accepting, Closed, AcceptPhase, AcceptReq, MembersTyped
<1>3. \A s \in MemberRequest : s # r => memberReq'[s] = memberReq[s]
  BY DEF MembersTyped
<1> SUFFICES ASSUME NEW i \in Invite \ acceptRaced
             PROVE  (OneAccept(i) /\ OneAdmitted(i) /\ AdmittedByMark(i) /\ AdmittedIsClosed(i))'
  BY DEF AcceptsApart
<1>4. OneAccept(i) /\ OneAdmitted(i) /\ AdmittedByMark(i) /\ AdmittedIsClosed(i)
  BY DEF AcceptsApart
<1>5. CASE i # q.invite
  <2>1. r \notin Accepting(i) /\ \A a \in Account : <<i, a>> \in admitted' => <<i, a>> \in admitted
    BY <1>5 DEF Accepting
  <2> QED
    BY <1>2, <1>3, <1>4, <2>1 DEF OneAccept, OneAdmitted, AdmittedByMark, AdmittedIsClosed, In, Accepting
<1>6. CASE i = q.invite
  <2>1. r \in Accepting(i) /\ \A s \in Accepting(i) : s = r
    BY <1>4, <1>6 DEF Accepting, AcceptPhase, OneAccept
  <2>2. \A a \in Account : <<i, a>> \in admitted' => a = q.user
    BY <1>4, <2>1 DEF AdmittedByMark, In
  <2>3. memberReq'[r].phase = "mark" /\ memberReq'[r].user = q.user
    BY <1>1 DEF AcceptReq, MembersTyped
  <2> QED
    BY <1>2, <1>4, <2>1, <2>2, <2>3 DEF OneAccept, OneAdmitted, AdmittedByMark, AdmittedIsClosed, In
<1> QED
  BY <1>5, <1>6

\* A row that is not there is not taken for an invite.
LEMMA NoRowIsNoInvite == NoRow \notin InviteRow
BY DEF InviteRow

\* One account by an invite.
LEMMA AcceptsApartNext ==
  MembersTyped /\ RevokedIsUsed /\ AcceptsApart /\ [MemberNext]_memberVars
  => (AcceptsApart)'
<1> SUFFICES ASSUME MembersTyped, RevokedIsUsed, AcceptsApart, [MemberNext]_memberVars
             PROVE  (AcceptsApart)'
  OBVIOUS
<1> DEFINE Goal == AcceptsApart
<1> USE DEF Step, Served, In, memberRows, memberHistory
<1>1. ASSUME NEW r \in MemberRequest, NEW i \in Invite, NEW a \in Account, AcceptInvite(r, i, a) PROVE Goal'
  <2> DEFINE q == [phase |-> "exists", invite |-> i, row |-> invite[i], user |-> a]
  <2>1. /\ memberReq' = [memberReq EXCEPT ![r] = q] /\ memberReq[r].phase = "none"
        /\ UNCHANGED <<invite, revoked, admitted>> /\ acceptRaced \subseteq acceptRaced'
        /\ Accepting(i) # {} => i \in acceptRaced'
        /\ invite[i] # NoRow /\ Validate(invite[i])
    BY <1>1 DEF AcceptInvite, Free, MemberIdle, PreviewInvite
  <2>2. \A s \in MemberRequest : s # r => memberReq'[s] = memberReq[s]
    BY <2>1 DEF MembersTyped
  <2>3. memberReq'[r] = q
    BY <2>1 DEF MembersTyped
  <2>4. \A j \in Invite : Closed(j)' <=> Closed(j)
    BY <2>1 DEF Closed
  <2> SUFFICES ASSUME NEW j \in Invite \ acceptRaced'
               PROVE  (OneAccept(j) /\ OneAdmitted(j) /\ AdmittedByMark(j) /\ AdmittedIsClosed(j))'
    BY DEF AcceptsApart
  <2>5. OneAccept(j) /\ OneAdmitted(j) /\ AdmittedByMark(j) /\ AdmittedIsClosed(j)
    BY <2>1 DEF AcceptsApart
  <2>6. CASE j # i
    <3>1. Accepting(j)' = Accepting(j) /\ r \notin Accepting(j)
      BY <2>1, <2>2, <2>3, <2>6 DEF Accepting
    <3> QED
      BY <2>1, <2>2, <2>4, <2>5, <3>1 DEF OneAccept, OneAdmitted, AdmittedByMark, AdmittedIsClosed, Accepting
  <2>7. CASE j = i
    <3>1. Accepting(i) = {} /\ ~Closed(i)
      BY <2>1, <2>7 DEF Closed, Validate, RevokedIsUsed
    <3>2. \A b \in Account : <<i, b>> \notin admitted'
      BY <2>1, <2>5, <2>7, <3>1 DEF AdmittedIsClosed
    <3>3. Accepting(i)' \subseteq {r}
      BY <2>2, <3>1 DEF Accepting
    <3> QED
      BY <2>7, <3>2, <3>3 DEF OneAccept, OneAdmitted, AdmittedByMark, AdmittedIsClosed
  <2> QED
    BY <2>6, <2>7
<1>2. ASSUME NEW r \in MemberRequest, ExistsByEmail(r) PROVE Goal'
  BY <1>2, ApartGoesOn DEF ExistsByEmail, AcceptPhase
<1>3. ASSUME NEW r \in MemberRequest, CreateUser(r) PROVE Goal'
  BY <1>3, ApartGoesOn, ApartEnds DEF CreateUser, AcceptPhase
<1>4. ASSUME NEW r \in MemberRequest, FindMembership(r) PROVE Goal'
  <2>1. CASE AfterLookup(memberReq[r]) = "mark"
    BY <1>4, <2>1, ApartLetsIn DEF FindMembership, AcceptPhase
  <2>2. CASE AfterLookup(memberReq[r]) # "mark"
    <3>1. AfterLookup(memberReq[r]) = "associate"
      BY <2>2 DEF AfterLookup
    <3> QED
      BY <1>4, <3>1, ApartGoesOn DEF FindMembership, AcceptPhase
  <2> QED
    BY <2>1, <2>2
<1>5. ASSUME NEW r \in MemberRequest, Associate(r) PROVE Goal'
  <2>1. CASE <<memberReq[r].user, memberReq[r].row.office>> \in membership
    BY <1>5, <2>1, ApartEnds DEF Associate
  <2>2. CASE <<memberReq[r].user, memberReq[r].row.office>> \notin membership
    BY <1>5, <2>2, ApartLetsIn DEF Associate, AcceptPhase
  <2> QED
    BY <2>1, <2>2
<1>6. ASSUME NEW r \in MemberRequest, SaveInvite(r) PROVE Goal'
  <2> DEFINE q == memberReq[r]
  <2>1. q \in AcceptReq
    BY <1>6, InAccept DEF SaveInvite, AcceptPhase
  <2>2. /\ memberReq' = [memberReq EXCEPT ![r] = MemberIdle]
        /\ invite' = [invite EXCEPT ![q.invite] = MarkUsed(q.row, q.user)]
        /\ UNCHANGED <<acceptRaced, admitted, revoked>>
    BY <1>6 DEF SaveInvite
  <2>3. MarkUsed(q.row, q.user) \in InviteRow /\ MarkUsed(q.row, q.user).used # None
    BY <2>1 DEF AcceptReq, InviteRow, MarkUsed
  <2>4. \A i \in Invite : Accepting(i)' = Accepting(i) \ {r}
    BY <2>2 DEF Accepting, MembersTyped, MemberIdle
  <2>5. \A s \in MemberRequest : s # r => memberReq'[s] = memberReq[s]
    BY <2>2 DEF MembersTyped
  <2>6. \A i \in Invite : Closed(i) \/ i = q.invite => Closed(i)'
    <3>1. MarkUsed(q.row, q.user) # NoRow
      BY <2>3, NoRowIsNoInvite
    <3> QED
      BY <2>2, <2>3, <3>1 DEF Closed, MembersTyped
  <2>7. \A i \in Invite : r \in Accepting(i) => i = q.invite
    BY DEF Accepting
  <2> QED
    BY <2>2, <2>4, <2>5, <2>6, <2>7, ApartKept DEF In
<1>7. ASSUME NEW r \in MemberRequest, NEW a \in Account, NEW o \in Office, RemoveFromTenant(r, a, o) PROVE Goal'
  <2> DEFINE q == [phase |-> "remove", user |-> a, office |-> o]
  <2>1. q \in MemberReq /\ q.phase \notin AcceptPhase
    BY DEF MemberReq, RemoveReq, AcceptPhase
  <2>2. memberReq' = [memberReq EXCEPT ![r] = q] /\ memberReq[r].phase \notin AcceptPhase
    BY <1>7 DEF RemoveFromTenant, Free, MemberIdle, AcceptPhase
  <2>3. UNCHANGED <<acceptRaced, admitted, invite, revoked>>
    BY <1>7 DEF RemoveFromTenant
  <2> HIDE DEF q
  <2> QED
    BY <2>1, <2>2, <2>3, ApartElsewhere
<1>8. ASSUME NEW r \in MemberRequest, DeleteMembership(r) PROVE Goal'
  BY <1>8, ApartEnds DEF DeleteMembership
<1>9. ASSUME NEW r \in MemberRequest, NEW a \in Account, Login(r, a) PROVE Goal'
  <2> DEFINE q == [phase |-> "tenants", user |-> a]
  <2>1. q \in MemberReq /\ q.phase \notin AcceptPhase
    BY DEF MemberReq, LoginReq, AcceptPhase
  <2>2. memberReq' = [memberReq EXCEPT ![r] = q] /\ memberReq[r].phase \notin AcceptPhase
    BY <1>9 DEF Login, Free, MemberIdle, AcceptPhase
  <2>3. UNCHANGED <<acceptRaced, admitted, invite, revoked>>
    BY <1>9 DEF Login
  <2> HIDE DEF q
  <2> QED
    BY <2>1, <2>2, <2>3, ApartElsewhere
<1>10. ASSUME NEW r \in MemberRequest, FindTenants(r) PROVE Goal'
  BY <1>10, ApartEnds DEF FindTenants
<1>11. ASSUME NEW r \in MemberRequest, NEW t \in session, NEW o \in Office, SelectTenant(r, t, o) PROVE Goal'
  <2> DEFINE q == [phase |-> "allowed", token |-> t, office |-> o]
  <2>1. q \in MemberReq /\ q.phase \notin AcceptPhase
    BY DEF MemberReq, SelectReq, MembersTyped, AcceptPhase
  <2>2. memberReq' = [memberReq EXCEPT ![r] = q] /\ memberReq[r].phase \notin AcceptPhase
    BY <1>11 DEF SelectTenant, Free, MemberIdle, AcceptPhase
  <2>3. UNCHANGED <<acceptRaced, admitted, invite, revoked>>
    BY <1>11 DEF SelectTenant
  <2> HIDE DEF q
  <2> QED
    BY <2>1, <2>2, <2>3, ApartElsewhere
<1>12. ASSUME NEW r \in MemberRequest, IssueSelected(r) PROVE Goal'
  BY <1>12, ApartEnds DEF IssueSelected
<1>13. ASSUME NEW r \in MemberRequest, MemberFails(r) PROVE Goal'
  <2>1. /\ memberReq' = [memberReq EXCEPT ![r] = MemberIdle]
        /\ UNCHANGED <<admitted, invite, revoked>> /\ acceptRaced \subseteq acceptRaced'
    BY <1>13 DEF MemberFails
  <2>2. \A i \in Invite : r \in Accepting(i) /\ memberReq[r].phase = "mark" => i \in acceptRaced'
    BY <1>13 DEF MemberFails, Accepting
  <2>3. \A i \in Invite : Accepting(i)' = Accepting(i) \ {r} /\ (Closed(i)' <=> Closed(i))
    BY <2>1 DEF Accepting, Closed, MembersTyped, MemberIdle
  <2>4. \A s \in MemberRequest : s # r => memberReq'[s] = memberReq[s]
    BY <2>1 DEF MembersTyped
  <2> QED
    BY <2>1, <2>2, <2>3, <2>4, ApartKept
<1>14. ASSUME NEW i \in Invite, NEW o \in Office, GenerateInvite(i, o) PROVE Goal'
  BY <1>14, ApartStill DEF GenerateInvite, Closed, MembersTyped
<1>15. ASSUME NEW i \in Invite, IsExpired(i) PROVE Goal'
  <2>1. invite[i] \in InviteRow
    BY <1>15 DEF IsExpired, MembersTyped
  <2>2. \A j \in Invite : invite[j] # NoRow => invite'[j] # NoRow /\ invite'[j].used = invite[j].used
    BY <1>15, <2>1, NoRowIsNoInvite DEF IsExpired, MembersTyped, InviteRow
  <2> QED
    BY <1>15, <2>2, ApartStill DEF IsExpired, Closed
<1>16. ASSUME NEW i \in Invite, RevokeInvite(i) PROVE Goal'
  <2>1. \A j \in Invite : Closed(j) => Closed(j)'
    BY <1>16 DEF RevokeInvite, Closed, MembersTyped
  <2> QED
    BY <1>16, <2>1, ApartStill DEF RevokeInvite
<1>17. ASSUME NEW a \in Account, NEW s \in {"active", "inactive"}, changeAdminStatus(a, s) PROVE Goal'
  BY <1>17, ApartStill DEF changeAdminStatus, Closed
<1>18. ASSUME NEW o \in Office, BlockOffice(o) PROVE Goal'
  BY <1>18, ApartStill DEF BlockOffice, Closed
<1>19. ASSUME NEW t \in session, Expire(t) PROVE Goal'
  BY <1>19, ApartStill DEF Expire, Closed
<1>20. CASE UNCHANGED memberVars
  BY <1>20, ApartStill DEF memberVars, Closed
<1> HIDE DEF Step, Served, In, memberRows, memberHistory
<1> QED
  BY <1>1, <1>2, <1>3, <1>4, <1>5, <1>6, <1>7, <1>8, <1>9, <1>10, <1>11, <1>12, <1>13, <1>14,
     <1>15, <1>16, <1>17, <1>18, <1>19, <1>20
  DEF MemberNext, Accepts, Invites, Removals, Logins, Selections, Statuses, AdminLogin

\* A set whose members are all the same has at most one.
LEMMA AtMostOne ==
  ASSUME NEW S, \A a, b \in S : a = b
  PROVE Cardinality(S) <= 1
<1>1. CASE S = {}
  BY <1>1, FS_EmptySet
<1>2. CASE S # {}
  <2>1. PICK x \in S : S = {x}
    BY <1>2
  <2> QED
    BY <2>1, FS_Singleton
<1> QED
  BY <1>1, <1>2

\* Every step keeps the invariant.
LEMMA MembersInductive == MembersInvariant /\ [MemberNext]_memberVars => MembersInvariant'
BY MembersTypedNext, MembersStayNext, AcceptsKnownNext, AcceptsApartNext DEF MembersInvariant

\* What the invariant says of accounts, invites and sessions.
LEMMA MembersImply == MembersInvariant => AccountsAreSound
<1> SUFFICES ASSUME MembersInvariant PROVE AccountsAreSound
  OBVIOUS
<1>1. MemberTypeOK
  BY ShapeOfPhase DEF MembersInvariant, MembersTyped, MemberTypeOK
<1>2. RevokedIsUseless
  BY DEF MembersInvariant, RevokedIsUsed, RevokedIsUseless, Validate
<1>3. OneAccountPerInvite
  BY AtMostOne DEF MembersInvariant, AcceptsApart, OneAdmitted, OneAccountPerInvite
<1> QED
  BY <1>1, <1>2, <1>3 DEF MembersInvariant, AccountsAreSound

-----------------------------------------------------------------------------
\* However many invites are accepted, revoked and used again, requests overlap
\* and statements fail: a used invite names a member that was, a revoked one
\* lets nobody in, one that was accepted by one request at a time let in one
\* account, every session of a firm is of somebody who was its member, and
\* every firm keeps its owner (invite_user.go, select_tenant.go,
\* manage_users.go).
THEOREM MembersSafe == MemberSpec => []AccountsAreSound
<1>1. MemberInit => MembersInvariant
  BY InitMembers
<1>2. MembersInvariant /\ [MemberNext]_memberVars => MembersInvariant'
  BY MembersInductive
<1>3. MembersInvariant => AccountsAreSound
  BY MembersImply
<1> QED
  BY <1>1, <1>2, <1>3, PTL DEF MemberSpec

-----------------------------------------------------------------------------
(* Groups and permissions: the inductive invariant.                         *)

USE GroupAssumption

FoundReq == [phase : {"rename", "delete"}, group : Group]
JoinReq == [phase : {"join"}, user : Account, group : Group]
FormReq ==
  [phase : {"clear"}, subject : Subject, form : PermissionForm, left : SUBSET Pair, rest : Seq(Pair)]
SetReq == [phase : {"set"}, subject : Subject, form : PermissionForm]
ProfileReq == [phase : {"profile"}, group : Group, columns : SUBSET Column]
AskReq ==
  [phase : Asking \cup {"answered"}, user : Account, pair : Pair \cup BOOLEAN, groups : SUBSET Group,
   regrouped : BOOLEAN, seen : SUBSET Subject, steady : SUBSET Subject]
GroupReq == {GroupIdle} \cup FoundReq \cup JoinReq \cup FormReq \cup SetReq \cup ProfileReq \cup AskReq

GroupsTyped ==
  /\ group \in [Group -> GroupRow]
  /\ userGroup \subseteq UserGroupRow
  /\ grant \subseteq PermissionRow
  /\ profile \in [Group -> ViewProfileRow \cup {NoRow}]
  /\ covers \in [Group -> GroupFunnelRow \cup {NoRow}]
  /\ DOMAIN config = Group
  /\ groupReq \in [GroupRequest -> GroupReq]

\* What a question under way has noted: the sources that stood all along are
\* there still, the user's own permission is none of them once it was looked
\* for, nor is a group that was not among the user's when they were.
Noted(q, grants, members) ==
  q.phase \in Asking =>
    /\ q.steady \subseteq Sources(grants, members, q.user, q.pair)
    /\ q.phase \in {"groups", "groupGrants"} => q.user \notin q.steady
    /\ q.phase = "groupGrants" =>
         q.steady \subseteq q.groups /\ (~q.regrouped => q.groups = GroupsOf(members, q.user))
\* And what is there now was seen.
SeesNow(q, grants, members) ==
  q.phase \in Asking => Sources(grants, members, q.user, q.pair) \subseteq q.seen
FairAnswer(q) ==
  q.phase = "answered" => (q.pair = TRUE => q.seen # {} \/ q.regrouped) /\ (q.pair = FALSE => q.steady = {})

QuestionsHold ==
  \A r \in GroupRequest :
    /\ Noted(groupReq[r], grant, userGroup) /\ SeesNow(groupReq[r], grant, userGroup)
    /\ FairAnswer(groupReq[r])

RightsInvariant == GroupsTyped /\ QuestionsHold /\ NothingOfDeletedGroups

\* A request is of the shape its phase tells.
LEMMA ShapeOfGroupReq ==
  ASSUME NEW q \in GroupReq
  PROVE /\ q.phase \in GroupPhase
        /\ q.phase \in {"rename", "delete"} => q \in FoundReq
        /\ q.phase = "join" => q \in JoinReq
        /\ q.phase = "clear" => q \in FormReq
        /\ q.phase = "profile" => q \in ProfileReq
        /\ q.phase \in Asking \cup {"answered"} => q \in AskReq
BY DEF GroupReq, GroupIdle, FoundReq, JoinReq, FormReq, SetReq, ProfileReq, AskReq, Asking, GroupPhase

\* A question is watched over a step that may change the sources.
LEMMA WatchedHolds ==
  ASSUME NEW q \in GroupReq, Noted(q, grant, userGroup), FairAnswer(q)
  PROVE /\ Watched(q) \in GroupReq
        /\ Noted(Watched(q), grant', userGroup') /\ SeesNow(Watched(q), grant', userGroup')
        /\ FairAnswer(Watched(q))
<1>1. CASE q.phase \notin Asking
  BY <1>1 DEF Watched, Noted, SeesNow
<1>2. CASE q.phase \in Asking
  <2> DEFINE now == Sources(grant', userGroup', q.user, q.pair)
             moved == GroupsOf(userGroup', q.user) # GroupsOf(userGroup, q.user)
             w == Watched(q)
  <2>1. q \in AskReq
    BY <1>2, ShapeOfGroupReq
  <2>2. now \subseteq Subject /\ moved \in BOOLEAN
    BY DEF Sources
  <2>3. w = [q EXCEPT !.seen = @ \cup now, !.steady = @ \cap now, !.regrouped = @ \/ moved]
    BY <1>2 DEF Watched
  <2> HIDE DEF now, moved, w
  <2>4. /\ w \in AskReq /\ w.phase = q.phase /\ w.user = q.user /\ w.pair = q.pair /\ w.groups = q.groups
        /\ w.seen = q.seen \cup now /\ w.steady = q.steady \cap now /\ w.regrouped = (q.regrouped \/ moved)
    BY <2>1, <2>2, <2>3 DEF AskReq
  <2>5. Noted(w, grant', userGroup')
    BY <1>2, <2>4 DEF Noted, now, moved
  <2>6. SeesNow(w, grant', userGroup')
    BY <2>4 DEF SeesNow, now
  <2>7. FairAnswer(w)
    BY <1>2, <2>4 DEF FairAnswer, Asking
  <2> QED
    BY <2>4, <2>5, <2>6, <2>7 DEF GroupReq, w
<1> QED
  BY <1>1, <1>2

\* A request goes on, and the questions are watched.
LEMMA BecomesHolds ==
  ASSUME GroupsTyped, QuestionsHold, NEW r \in GroupRequest, NEW q \in GroupReq, Becomes(r, q),
         Noted(q, grant, userGroup), FairAnswer(q)
  PROVE groupReq' \in [GroupRequest -> GroupReq] /\ QuestionsHold'
<1>1. \A s \in GroupRequest :
        LET p == IF s = r THEN q ELSE groupReq[s] IN
        p \in GroupReq /\ Noted(p, grant, userGroup) /\ FairAnswer(p) /\ groupReq'[s] = Watched(p)
  BY DEF Becomes, GroupsTyped, QuestionsHold
<1>2. \A s \in GroupRequest :
        /\ groupReq'[s] \in GroupReq
        /\ Noted(groupReq'[s], grant', userGroup') /\ SeesNow(groupReq'[s], grant', userGroup')
        /\ FairAnswer(groupReq'[s])
  BY <1>1, WatchedHolds
<1>3. groupReq' = [s \in GroupRequest |-> groupReq'[s]]
  BY DEF Becomes
<1> QED
  BY <1>2, <1>3 DEF QuestionsHold

\* A request that does not ask takes up its next statement.
LEMMA BecomesOther ==
  ASSUME GroupsTyped, QuestionsHold, NEW r \in GroupRequest, NEW q \in GroupReq, Becomes(r, q),
         q.phase \notin Asking \cup {"answered"}
  PROVE groupReq' \in [GroupRequest -> GroupReq] /\ QuestionsHold'
BY BecomesHolds DEF Noted, FairAnswer

LEMMA GroupIdleIsReq == GroupIdle \in GroupReq /\ GroupIdle.phase \notin Asking \cup {"answered"}
BY DEF GroupReq, GroupIdle, Asking

-----------------------------------------------------------------------------
(* Every action keeps it.                                                   *)

\* Groups that are there, their members and what is set for them.
LEMMA GroupsChangeKeeps ==
  ASSUME RightsInvariant, NEW r \in GroupRequest, GroupsChange(r) \/ MembersChange(r) \/ ProfilesChange(r)
  PROVE RightsInvariant'
<1> USE DEF RightsInvariant
<1>1. ASSUME NEW g \in Group, CreateGroup(r, g) PROVE RightsInvariant'
  BY <1>1, BecomesOther, GroupIdleIsReq DEF CreateGroup, GroupsTyped, GroupRow, NothingOfDeletedGroups
<1>2. ASSUME NEW g \in Group, NEW phase \in {"rename", "delete"}, FindGroup(r, g, phase) PROVE RightsInvariant'
  <2>1. /\ [phase |-> phase, group |-> g] \in GroupReq
        /\ [phase |-> phase, group |-> g].phase \notin Asking \cup {"answered"}
    BY DEF GroupReq, FoundReq, Asking
  <2> QED
    BY <1>2, <2>1, BecomesOther DEF FindGroup, groupRows, GroupsTyped, NothingOfDeletedGroups
<1>3. ASSUME SaveGroup(r) PROVE RightsInvariant'
  <2>1. groupReq[r].group \in Group
    BY <1>3, ShapeOfGroupReq DEF SaveGroup, GroupsTyped, FoundReq
  <2> QED
    BY <1>3, <2>1, BecomesOther, GroupIdleIsReq DEF SaveGroup, GroupsTyped, GroupRow, NothingOfDeletedGroups
<1>4. ASSUME DeleteGroup(r) PROVE RightsInvariant'
  <2> DEFINE g == groupReq[r].group
  <2>1. g \in Group
    BY <1>4, ShapeOfGroupReq DEF DeleteGroup, GroupsTyped, FoundReq
  <2>2. groupReq' \in [GroupRequest -> GroupReq] /\ QuestionsHold'
    BY <1>4, BecomesOther, GroupIdleIsReq DEF DeleteGroup
  <2>3. /\ group' = [group EXCEPT ![g] = FALSE] /\ userGroup' = {x \in userGroup : x[2] # g}
        /\ grant' = {x \in grant : x[1] # g} /\ profile' = [profile EXCEPT ![g] = NoRow]
        /\ covers' = [covers EXCEPT ![g] = NoRow] /\ config' = [config EXCEPT ![g] = NoRow]
    BY <1>4 DEF DeleteGroup, Without, GrantsWithout
  <2> HIDE DEF g
  <2>4. GroupsTyped'
    BY <2>1, <2>2, <2>3 DEF GroupsTyped, GroupRow
  <2>5. NothingOfDeletedGroups'
    BY <2>1, <2>3 DEF NothingOfDeletedGroups, GroupsTyped
  <2> QED
    BY <2>2, <2>4, <2>5
<1>5. ASSUME NEW u \in Account, NEW g \in Group, AddMember(r, u, g) PROVE RightsInvariant'
  <2>1. /\ [phase |-> "join", user |-> u, group |-> g] \in GroupReq
        /\ [phase |-> "join", user |-> u, group |-> g].phase \notin Asking \cup {"answered"}
    BY DEF GroupReq, JoinReq, Asking
  <2> QED
    BY <1>5, <2>1, BecomesOther DEF AddMember, groupRows, GroupsTyped, NothingOfDeletedGroups
<1>6. ASSUME NEW u \in Account, NEW g \in Group, RemoveMember(r, u, g) PROVE RightsInvariant'
  BY <1>6, BecomesOther, GroupIdleIsReq DEF RemoveMember, GroupsTyped, NothingOfDeletedGroups
<1>7. ASSUME CreateUserGroup(r) PROVE RightsInvariant'
  <2>1. groupReq[r].group \in Group /\ groupReq[r].user \in Account
    BY <1>7, ShapeOfGroupReq DEF CreateUserGroup, GroupsTyped, JoinReq
  <2> QED
    BY <1>7, <2>1, BecomesOther, GroupIdleIsReq
    DEF CreateUserGroup, GroupsTyped, UserGroupRow, NothingOfDeletedGroups
<1>8. ASSUME NEW g \in Group, NEW cs \in SUBSET Column, SetViewProfile(r, g, cs) PROVE RightsInvariant'
  <2>1. /\ [phase |-> "profile", group |-> g, columns |-> cs] \in GroupReq
        /\ [phase |-> "profile", group |-> g, columns |-> cs].phase \notin Asking \cup {"answered"}
    BY DEF GroupReq, ProfileReq, Asking
  <2> QED
    BY <1>8, <2>1, BecomesOther DEF SetViewProfile, groupRows, GroupsTyped, NothingOfDeletedGroups
<1>9. ASSUME SaveViewProfile(r) PROVE RightsInvariant'
  <2>1. groupReq[r].group \in Group /\ groupReq[r].columns \in SUBSET Column
    BY <1>9, ShapeOfGroupReq DEF SaveViewProfile, GroupsTyped, ProfileReq
  <2> QED
    BY <1>9, <2>1, BecomesOther, GroupIdleIsReq
    DEF SaveViewProfile, GroupsTyped, ViewProfileRow, NothingOfDeletedGroups
<1> QED
  BY <1>1, <1>2, <1>3, <1>4, <1>5, <1>6, <1>7, <1>8, <1>9 DEF GroupsChange, MembersChange, ProfilesChange

\* Permissions that are set: those of the form go and come one by one.
LEMMA PermissionsChangeKeeps ==
  ASSUME RightsInvariant, NEW r \in GroupRequest, PermissionsChange(r)
  PROVE RightsInvariant'
<1> USE DEF RightsInvariant
<1>1. ASSUME NEW s \in Subject, NEW form \in PermissionForm, SetPermissions(r, s, form) PROVE RightsInvariant'
  <2> DEFINE q == [phase |-> "clear", subject |-> s, form |-> form, left |-> ToSet(form), rest |-> form]
  <2>1. \A i \in DOMAIN form : form[i] \in Pair
    BY <1>1 DEF SetPermissions, NewPermission
  <2>2. form \in Seq(ToSet(form)) /\ ToSet(form) \subseteq Pair
    BY <2>1 DEF ToSet
  <2>3. form \in Seq(Pair)
    BY <2>2
  <2>4. q \in GroupReq /\ q.phase \notin Asking \cup {"answered"}
    BY <2>2, <2>3 DEF GroupReq, FormReq, Asking
  <2> HIDE DEF q
  <2>5. Becomes(r, q) /\ UNCHANGED groupRows
    BY <1>1 DEF SetPermissions, q
  <2> QED
    BY <2>4, <2>5, BecomesOther DEF groupRows, GroupsTyped, NothingOfDeletedGroups
<1>2. ASSUME DeleteByResource(r) PROVE RightsInvariant'
  <2> DEFINE q == groupReq[r]
  <2>1. q \in FormReq
    BY <1>2, ShapeOfGroupReq DEF DeleteByResource, GroupsTyped
  <2>2. PICK p \in q.left : grant' = grant \ {<<q.subject, p>>} /\ Becomes(r, [q EXCEPT !.left = @ \ {p}])
    BY <1>2 DEF DeleteByResource
  <2> DEFINE n == [q EXCEPT !.left = @ \ {p}]
  <2>3. n \in GroupReq /\ n.phase \notin Asking \cup {"answered"}
    BY <2>1 DEF FormReq, GroupReq, Asking
  <2> HIDE DEF q, n
  <2>4. groupReq' \in [GroupRequest -> GroupReq] /\ QuestionsHold'
    BY <2>2, <2>3, BecomesOther DEF n
  <2> QED
    BY <1>2, <2>2, <2>4 DEF DeleteByResource, GroupsTyped, NothingOfDeletedGroups
<1>3. ASSUME CreatePermission(r) PROVE RightsInvariant'
  <2> DEFINE q == groupReq[r]
             x == <<q.subject, Head(q.rest)>>
  <2>1. q \in FormReq
    BY <1>3, ShapeOfGroupReq DEF CreatePermission, GroupsTyped
  <2>2. CASE q.rest = <<>> /\ UNCHANGED grant /\ Becomes(r, [phase |-> "set", subject |-> q.subject, form |-> q.form])
    <3> DEFINE n == [phase |-> "set", subject |-> q.subject, form |-> q.form]
    <3>1. n \in GroupReq /\ n.phase \notin Asking \cup {"answered"}
      BY <2>1 DEF FormReq, SetReq, GroupReq, Asking
    <3> HIDE DEF n
    <3>2. groupReq' \in [GroupRequest -> GroupReq] /\ QuestionsHold'
      BY <2>2, <3>1, BecomesOther DEF n
    <3> QED
      BY <1>3, <2>2, <3>2 DEF CreatePermission, GroupsTyped, NothingOfDeletedGroups
  <2>3. CASE /\ q.rest # <<>> /\ ValidSubject(q.subject)
             /\ grant' = grant \cup {x}
             /\ Becomes(r, [q EXCEPT !.rest = Tail(@)])
    <3> DEFINE n == [q EXCEPT !.rest = Tail(@)]
    <3>1. q.rest \in Seq(Pair) /\ q.subject \in Subject
      BY <2>1 DEF FormReq
    <3>2. Tail(q.rest) \in Seq(Pair) /\ Head(q.rest) \in Pair
      BY <2>3, <3>1
    <3>3. n \in GroupReq /\ n.phase \notin Asking \cup {"answered"}
      BY <2>1, <3>2 DEF FormReq, GroupReq, Asking
    <3>4. groupReq' \in [GroupRequest -> GroupReq] /\ QuestionsHold'
      <4> HIDE DEF n
      <4> QED
        BY <2>3, <3>3, BecomesOther DEF n
    <3>5. x \in PermissionRow /\ (x[1] \in Group => group[x[1]]) /\ x[1] = q.subject
      BY <2>3, <3>1, <3>2 DEF PermissionRow, ValidSubject
    <3> HIDE DEF q, n, x
    <3>6. UNCHANGED <<group, userGroup, profile, covers, config>>
      BY <1>3 DEF CreatePermission
    <3>7. NothingOfDeletedGroups'
      BY <2>3, <3>5, <3>6 DEF NothingOfDeletedGroups
    <3> QED
      BY <2>3, <3>4, <3>5, <3>6, <3>7 DEF GroupsTyped
  <2>4. CASE UNCHANGED grant /\ Becomes(r, GroupIdle)
    BY <1>3, <2>4, BecomesOther, GroupIdleIsReq DEF CreatePermission, GroupsTyped, NothingOfDeletedGroups
  <2> QED
    BY <1>3, <2>2, <2>3, <2>4 DEF CreatePermission
<1> QED
  BY <1>1, <1>2, <1>3 DEF PermissionsChange, SetGroupPermissions, SetUserPermissions, Subject

\* The statements that answer a question.
LEMMA QuestionsKeep ==
  ASSUME RightsInvariant, NEW r \in GroupRequest, Questions(r)
  PROVE RightsInvariant'
<1> USE DEF RightsInvariant
<1>1. ASSUME UNCHANGED groupRows, NEW q \in GroupReq, Becomes(r, q), Noted(q, grant, userGroup), FairAnswer(q)
      PROVE RightsInvariant'
  BY <1>1, BecomesHolds DEF groupRows, GroupsTyped, NothingOfDeletedGroups
<1> DEFINE q == groupReq[r]
<1>2. q \in GroupReq /\ Noted(q, grant, userGroup) /\ SeesNow(q, grant, userGroup)
  BY DEF GroupsTyped, QuestionsHold
<1>3. q.phase \in Asking => q \in AskReq
  BY <1>2, ShapeOfGroupReq
<1> HIDE DEF q
<1>4. ASSUME NEW u \in Account, NEW p \in Pair, HasPermission(r, u, p) PROVE RightsInvariant'
  <2> DEFINE n == [phase |-> "owner", user |-> u, pair |-> p, groups |-> {}, regrouped |-> FALSE,
                   seen |-> {}, steady |-> Sources(grant, userGroup, u, p)]
  <2>1. Sources(grant, userGroup, u, p) \subseteq Subject
    BY DEF Sources
  <2>2. n \in GroupReq /\ Noted(n, grant, userGroup) /\ FairAnswer(n)
    BY <2>1 DEF GroupReq, AskReq, Asking, Noted, FairAnswer
  <2> HIDE DEF n
  <2> QED
    BY <1>1, <1>4, <2>2 DEF HasPermission, n
<1>5. ASSUME NEW may \in BOOLEAN, q.phase \in Asking, UNCHANGED groupRows, Answer(r, may),
             may => q.seen # {} \/ q.regrouped, ~may => q.steady = {}
      PROVE RightsInvariant'
  <2> DEFINE n == [q EXCEPT !.phase = "answered", !.pair = may]
  <2>1. n \in GroupReq /\ Noted(n, grant, userGroup) /\ FairAnswer(n)
    BY <1>3, <1>5 DEF GroupReq, AskReq, Asking, Noted, FairAnswer
  <2>2. Becomes(r, n)
    BY <1>5 DEF Answer, q
  <2> HIDE DEF n
  <2> QED
    BY <1>1, <1>5, <2>1, <2>2
<1>6. ASSUME AskOwner(r) PROVE RightsInvariant'
  <2>1. CASE Becomes(r, GroupIdle)
    BY <1>1, <1>6, <2>1, GroupIdleIsReq DEF AskOwner, Noted, FairAnswer
  <2> DEFINE n == [q EXCEPT !.phase = "individual"]
  <2>2. CASE Becomes(r, n)
    <3>1. q.phase = "owner"
      BY <1>6 DEF AskOwner, Asks, q
    <3>2. n \in GroupReq /\ Noted(n, grant, userGroup) /\ FairAnswer(n)
      BY <1>2, <1>3, <3>1 DEF GroupReq, AskReq, Asking, Noted, FairAnswer
    <3> HIDE DEF n
    <3> QED
      BY <1>1, <1>6, <2>2, <3>2 DEF AskOwner
  <2> QED
    BY <1>6, <2>1, <2>2 DEF AskOwner, q
<1>7. ASSUME AskUser(r) PROVE RightsInvariant'
  <2>1. q.phase = "individual" /\ q.phase \in Asking /\ q \in AskReq
    BY <1>3, <1>7 DEF AskUser, Asks, Asking, q
  <2>2. q.user \in Subject
    BY <2>1 DEF AskReq, Subject
  <2>3. CASE <<q.user, q.pair>> \in grant
    <3>1. q.user \in q.seen
      BY <1>2, <2>1, <2>2, <2>3 DEF SeesNow, Sources
    <3> QED
      BY <1>5, <1>7, <2>1, <2>3, <3>1 DEF AskUser, q
  <2>4. CASE <<q.user, q.pair>> \notin grant
    <3> DEFINE n == [q EXCEPT !.phase = "groups"]
    <3>1. q.steady \subseteq Sources(grant, userGroup, q.user, q.pair)
      BY <1>2, <2>1 DEF Noted
    <3>2. q.user \notin q.steady
      BY <2>4, <3>1 DEF Sources
    <3>3. n \in GroupReq /\ Noted(n, grant, userGroup) /\ FairAnswer(n)
      BY <2>1, <3>1, <3>2 DEF GroupReq, AskReq, Asking, Noted, FairAnswer
    <3>4. Becomes(r, n) /\ UNCHANGED groupRows
      BY <1>7, <2>4 DEF AskUser, q
    <3> HIDE DEF n
    <3> QED
      BY <1>1, <3>3, <3>4
  <2> QED
    BY <2>3, <2>4
<1>8. ASSUME AskGroups(r) PROVE RightsInvariant'
  <2>1. q.phase = "groups" /\ q.phase \in Asking /\ q \in AskReq
    BY <1>3, <1>8 DEF AskGroups, Asks, Asking, q
  <2>2. q.user \notin q.steady /\ q.steady \subseteq Sources(grant, userGroup, q.user, q.pair)
    BY <1>2, <2>1 DEF Noted
  <2>3. q.steady \subseteq GroupsOf(userGroup, q.user) /\ GroupsOf(userGroup, q.user) \subseteq Group
    BY <2>2 DEF Sources, GroupsOf
  <2>4. CASE GroupsOf(userGroup, q.user) = {}
    <3>1. q.steady = {}
      BY <2>3, <2>4
    <3> QED
      BY <1>5, <1>8, <2>1, <2>4, <3>1 DEF AskGroups, q
  <2>5. CASE GroupsOf(userGroup, q.user) # {}
    <3> DEFINE n == [q EXCEPT !.phase = "groupGrants", !.groups = GroupsOf(userGroup, q.user)]
    <3>1. n \in GroupReq /\ Noted(n, grant, userGroup) /\ FairAnswer(n)
      BY <2>1, <2>2, <2>3 DEF GroupReq, AskReq, Asking, Noted, FairAnswer
    <3>2. Becomes(r, n) /\ UNCHANGED groupRows
      BY <1>8, <2>5 DEF AskGroups, q
    <3> HIDE DEF n
    <3> QED
      BY <1>1, <3>1, <3>2
  <2> QED
    BY <2>4, <2>5
<1>9. ASSUME AskGroupGrants(r) PROVE RightsInvariant'
  <2>1. q.phase = "groupGrants" /\ q.phase \in Asking /\ q \in AskReq
    BY <1>3, <1>9 DEF AskGroupGrants, Asks, Asking, q
  <2>2. /\ q.user \notin q.steady /\ q.steady \subseteq Sources(grant, userGroup, q.user, q.pair)
        /\ q.steady \subseteq q.groups /\ (~q.regrouped => q.groups = GroupsOf(userGroup, q.user))
        /\ Sources(grant, userGroup, q.user, q.pair) \subseteq q.seen
    BY <1>2, <2>1 DEF Noted, SeesNow
  <2>3. AnyOfThem(q.groups, q.pair) => q.seen # {} \/ q.regrouped
    BY <2>2 DEF AnyOfThem, Sources, GroupsOf, Subject
  <2>4. ~AnyOfThem(q.groups, q.pair) => q.steady = {}
    BY <2>2 DEF AnyOfThem, Sources
  <2>5. AnyOfThem(q.groups, q.pair) \in BOOLEAN
    BY DEF AnyOfThem
  <2> QED
    BY <1>5, <1>9, <2>1, <2>3, <2>4, <2>5 DEF AskGroupGrants, q
<1> QED
  BY <1>4, <1>6, <1>7, <1>8, <1>9 DEF Questions

\* The rows of load balancing are written only for groups that are there.
LEMMA BalancingKeepsRights ==
  ASSUME RightsInvariant, Assignments \/ \E r \in BalRequest : Forms(r) \/ Picks(r)
  PROVE RightsInvariant'
<1> USE DEF RightsInvariant
<1>1. ASSUME SameRows, \A g \in Group : ~group[g] => config'[g] = config[g], DOMAIN config' = DOMAIN config
      PROVE RightsInvariant'
  BY <1>1 DEF SameRows, GroupsTyped, QuestionsHold, NothingOfDeletedGroups
<1>2. ASSUME Assignments PROVE RightsInvariant'
  <2>1. PICK g \in Group, cs \in SUBSET Column : SetGroupFunnel(g, cs)
    BY <1>2 DEF Assignments, SetGroupFunnelsHTML, AssignColumns
  <2> QED
    BY <2>1 DEF SetGroupFunnel, GroupsTyped, GroupFunnelRow, QuestionsHold, NothingOfDeletedGroups
<1>3. ASSUME NEW r \in BalRequest, Forms(r) \/ Picks(r) PROVE RightsInvariant'
  <2>1. SameRows
    BY <1>3 DEF Forms, Picks, SetByGroup, FindPeers, PeersOff, FindConfig, SaveConfig, PickForFunnel, FindActive,
       ChooseGroup, FindMembers, RoundRobin, LeastLoaded, Random, PickFails, CreateLeadFor
  <2>2. \/ config' = config
        \/ \E g, row : group[g] /\ config' = [config EXCEPT ![g] = row]
    BY <1>3 DEF Forms, Picks, SetByGroup, FindPeers, PeersOff, FindConfig, SaveConfig, PickForFunnel, FindActive,
       ChooseGroup, FindMembers, RoundRobin, LeastLoaded, Random, PickFails, CreateLeadFor
  <2>3. DOMAIN config = Group
    BY DEF GroupsTyped
  <2>4. (\A g \in Group : ~group[g] => config'[g] = config[g]) /\ DOMAIN config' = DOMAIN config
    BY <2>2, <2>3
  <2> QED
    BY <1>1, <2>1, <2>4
<1> QED
  BY <1>2, <1>3

\* Every step of a firm keeps the invariant.
LEMMA RightsInductive == RightsInvariant /\ [FirmNext]_firmVars => RightsInvariant'
<1> SUFFICES ASSUME RightsInvariant, [FirmNext]_firmVars PROVE RightsInvariant'
  OBVIOUS
<1>1. ASSUME UNCHANGED groupVars PROVE RightsInvariant'
  BY <1>1 DEF groupVars, groupRows, RightsInvariant, GroupsTyped, QuestionsHold, NothingOfDeletedGroups
<1>2. ASSUME NEW r \in GroupRequest, RightsChange(r) PROVE RightsInvariant'
  <2>1. ASSUME GroupFails(r) PROVE RightsInvariant'
    BY <2>1, BecomesOther, GroupIdleIsReq
    DEF GroupFails, Fails, groupRows, RightsInvariant, GroupsTyped, NothingOfDeletedGroups
  <2> QED
    BY <1>2, <2>1, GroupsChangeKeeps, PermissionsChangeKeeps, QuestionsKeep DEF RightsChange
<1> QED
  BY <1>1, <1>2, BalancingKeepsRights DEF FirmNext, firmVars

\* Whoever is let in held the permission at some moment of the question,
\* whoever is turned away lacked it at one, and groups that are gone leave
\* nothing behind, for any number of requests that change and ask.
THEOREM RightsStaySound == FirmSpec => []RightsAreSound
<1>1. GroupInit /\ BalanceInit => RightsInvariant
  BY DEF GroupInit, BalanceInit, RightsInvariant, GroupsTyped, GroupRow, GroupReq, GroupIdle, QuestionsHold, Noted,
     SeesNow, FairAnswer, Asking, NothingOfDeletedGroups
<1>2. RightsInvariant => RightsAreSound
  BY ShapeOfGroupReq DEF RightsInvariant, RightsAreSound, GroupTypeOK, GroupsTyped, QuestionsHold, FairAnswer,
     GrantedWasHeld, DeniedLackedIt, Answered
<1> QED
  BY <1>1, <1>2, RightsInductive, PTL DEF FirmSpec

-----------------------------------------------------------------------------
(* Load balancing: who is next, and who has the fewest leads.              *)

USE BalanceAssumption

\* A set of numbers has a least one.
LEMMA LeastNumber ==
  ASSUME NEW S \in SUBSET Nat, S # {}
  PROVE  \E x \in S : \A y \in S : x <= y
<1>1. S \subseteq Nat
  OBVIOUS
<1>2. PICK x \in S : \A y \in S : ~(<<y, x>> \in OpToRel(<, Nat))
  BY <1>1, WFMin, NatLessThanWellFounded, Zenon
<1>3. \A y \in S : ~(y < x)
  BY <1>1, <1>2 DEF OpToRel
<1>4. \A y \in S : x <= y
  BY <1>1, <1>3
<1> QED
  BY <1>4

\* The index of a member is one of the list, and no other member has it.
LEMMA IndexInList ==
  ASSUME NEW M \in SUBSET Account, IsFiniteSet(M), NEW u \in M
  PROVE  Index(u, M) \in 0 .. Cardinality(M) - 1 /\ Cardinality(M) \in Nat \ {0}
<1> DEFINE S == {v \in M : UserOrder[v] < UserOrder[u]}
<1>1. S \in SUBSET (M \ {u})
  OBVIOUS
<1>2. IsFiniteSet(M \ {u}) /\ Cardinality(M \ {u}) = Cardinality(M) - 1
  BY FS_RemoveElement
<1>3. IsFiniteSet(S) /\ Cardinality(S) <= Cardinality(M \ {u})
  BY <1>1, <1>2, FS_Subset
<1>4. Cardinality(S) \in Nat /\ Cardinality(M) \in Nat
  BY <1>3, FS_CardinalityType
<1>5. Index(u, M) = Cardinality(S)
  BY DEF Index
<1> HIDE DEF S
<1> QED
  BY <1>2, <1>3, <1>4, <1>5

LEMMA IndexGrows ==
  ASSUME NEW M \in SUBSET Account, IsFiniteSet(M), NEW u \in M, NEW v \in M, UserOrder[u] < UserOrder[v]
  PROVE  Index(u, M) < Index(v, M)
<1> DEFINE S == {w \in M : UserOrder[w] < UserOrder[u]}
           T == {w \in M : UserOrder[w] < UserOrder[v]}
<1>1. S \cup {u} \in SUBSET T /\ u \notin S
  OBVIOUS
<1>2. IsFiniteSet(S) /\ IsFiniteSet(T)
  BY FS_Subset
<1>3. IsFiniteSet(S \cup {u}) /\ Cardinality(S \cup {u}) = Cardinality(S) + 1
  BY <1>1, <1>2, FS_AddElement
<1>4. Cardinality(S \cup {u}) <= Cardinality(T)
  BY <1>1, <1>2, FS_Subset
<1>5. Cardinality(S) \in Nat /\ Cardinality(T) \in Nat
  BY <1>2, FS_CardinalityType
<1>6. Index(u, M) = Cardinality(S) /\ Index(v, M) = Cardinality(T)
  BY DEF Index
<1> HIDE DEF S, T
<1> QED
  BY <1>3, <1>4, <1>5, <1>6

LEMMA IndexIsOwn ==
  ASSUME NEW M \in SUBSET Account, IsFiniteSet(M), NEW u \in M, NEW v \in M, u # v
  PROVE  Index(u, M) # Index(v, M)
<1>1. UserOrder[u] < UserOrder[v] \/ UserOrder[v] < UserOrder[u]
  OBVIOUS
<1>2. Index(u, M) \in Int /\ Index(v, M) \in Int
  BY IndexInList
<1> QED
  BY <1>1, <1>2, IndexGrows

\* Every index of the list is some member's.
LEMMA AtIndexIs ==
  ASSUME NEW M \in SUBSET Account, IsFiniteSet(M), NEW p \in 0 .. Cardinality(M) - 1
  PROVE  AtIndex(p, M) \in M /\ Index(AtIndex(p, M), M) = p
<1> DEFINE n == Cardinality(M)
           f == [u \in M |-> Index(u, M)]
<1>1. n \in Nat /\ IsFiniteSet(0 .. n - 1) /\ Cardinality(0 .. n - 1) = n
  <2>1. n \in Nat
    BY FS_CardinalityType
  <2>2. n # 0
    BY <2>1
  <2> DEFINE m == n - 1
  <2>3. m \in Nat /\ n = m + 1
    BY <2>1, <2>2
  <2> HIDE DEF n, m
  <2>4. 0 \in Int /\ m \in Int /\ ~(0 > m) /\ m - 0 + 1 = m + 1
    BY <2>3
  <2>5. IsFiniteSet(0 .. m) /\ Cardinality(0 .. m) = m + 1
    BY <2>4, FS_Interval
  <2> QED
    BY <2>1, <2>3, <2>5 DEF m
<1>2. f \in Injection(M, 0 .. n - 1)
  BY IndexInList, IndexIsOwn DEF Injection, IsInjective
<1>3. f \in Surjection(M, 0 .. n - 1)
  BY <1>1, <1>2, FS_Injection
<1>4. \E u \in M : Index(u, M) = p
  BY <1>3 DEF Surjection
<1> QED
  BY <1>4 DEF AtIndex

\* The next index is one further, and the first one after the last.
LEMMA NextIndex ==
  ASSUME NEW i \in Nat, NEW n \in Nat \ {0}
  PROVE  i % n \in 0 .. n - 1 /\ (i + 1) % n = IF (i % n) + 1 = n THEN 0 ELSE (i % n) + 1
<1> DEFINE p == i % n
           q == i \div n
           y == (i + 1) % n
           k == (i + 1) \div n
<1>1. p \in 0 .. n - 1 /\ q \in Nat /\ i = n * q + p
  OBVIOUS
<1>2. y \in 0 .. n - 1 /\ k \in Nat /\ i + 1 = n * k + y
  OBVIOUS
<1> HIDE DEF p, q, y, k
<1>3. n * q \in Nat /\ n * k \in Nat
  BY <1>1, <1>2
<1>4. n * k = n * q + p + 1 - y
  BY <1>1, <1>2, <1>3
<1>5. n * (k - q) = n * k - n * q
  BY <1>1, <1>2
<1>6. n * (k - q) = p + 1 - y
  BY <1>1, <1>2, <1>3, <1>4, <1>5
<1>7. k - q <= -1 => n * (k - q) <= -n
  BY <1>1, <1>2
<1>8. k - q >= 2 => n * (k - q) >= 2 * n
  BY <1>1, <1>2
<1>9. k - q = 0 \/ k - q = 1
  BY <1>1, <1>2, <1>6, <1>7, <1>8
<1>10. CASE k - q = 0
  <2>1. p + 1 - y = 0
    BY <1>6, <1>10
  <2> QED
    BY <1>1, <1>2, <2>1 DEF p, y
<1>11. CASE k - q = 1
  <2>1. p + 1 - y = n
    BY <1>6, <1>11
  <2> QED
    BY <1>1, <1>2, <2>1 DEF p, y
<1> QED
  BY <1>9, <1>10, <1>11

\* How many turns a member is away from being picked.
TurnsAway(u, M, p) ==
  IF Index(u, M) >= p THEN Index(u, M) - p ELSE Index(u, M) + Cardinality(M) - p

\* Whoever is nearer to the next turn had as many as the others, or one less.
Even(M, p, t) ==
  \A u, v \in M : TurnsAway(u, M, p) < TurnsAway(v, M, p) => t[u] <= t[v] /\ t[v] <= t[u] + 1

\* The one whose turn it is goes to the end of the line, the others move up.
LEMMA LineMovesUp ==
  ASSUME NEW M \in SUBSET Account, IsFiniteSet(M), NEW i \in Nat, NEW u \in M
  PROVE  LET n == Cardinality(M)
             p == i % n
         IN /\ Index(u, M) = p => TurnsAway(u, M, p) = 0 /\ TurnsAway(u, M, (i + 1) % n) = n - 1
            /\ Index(u, M) # p => /\ TurnsAway(u, M, p) \in 1 .. n - 1
                                  /\ TurnsAway(u, M, (i + 1) % n) = TurnsAway(u, M, p) - 1
<1> DEFINE n == Cardinality(M)
           p == i % n
           x == Index(u, M)
<1>1. x \in 0 .. n - 1 /\ n \in Nat \ {0}
  BY IndexInList
<1>2. p \in 0 .. n - 1 /\ (i + 1) % n = IF p + 1 = n THEN 0 ELSE p + 1
  BY <1>1, NextIndex
<1>3. /\ TurnsAway(u, M, p) = IF x >= p THEN x - p ELSE x + n - p
      /\ TurnsAway(u, M, (i + 1) % n) = IF x >= (i + 1) % n THEN x - ((i + 1) % n) ELSE x + n - ((i + 1) % n)
  BY DEF TurnsAway
<1> DEFINE y == (i + 1) % n
<1>4. y = IF p + 1 = n THEN 0 ELSE p + 1
  BY <1>2
<1>5. /\ TurnsAway(u, M, p) = IF x >= p THEN x - p ELSE x + n - p
      /\ TurnsAway(u, M, y) = IF x >= y THEN x - y ELSE x + n - y
  BY <1>3
<1> HIDE DEF n, p, x, y
<1> DEFINE a == IF x >= p THEN x - p ELSE x + n - p
           b == IF x >= y THEN x - y ELSE x + n - y
<1>6. (x = p => a = 0 /\ b = n - 1) /\ (x # p => a \in 1 .. n - 1 /\ b = a - 1)
  <2>1. CASE p + 1 = n
    BY <1>1, <1>2, <1>4, <2>1
  <2>2. CASE p + 1 # n
    BY <1>1, <1>2, <1>4, <2>2
  <2> QED
    BY <2>1, <2>2
<1>7. TurnsAway(u, M, p) = a /\ TurnsAway(u, M, y) = b
  BY <1>5
<1> HIDE DEF a, b
<1> QED
  BY <1>6, <1>7 DEF n, p, x, y

\* A turn keeps the members even.
LEMMA EvenAfterTurn ==
  ASSUME NEW M \in SUBSET Account, IsFiniteSet(M), NEW i \in Nat, NEW t \in [Account -> Nat],
         NEW u \in M, Index(u, M) = i % Cardinality(M), Even(M, i % Cardinality(M), t)
  PROVE  Even(M, (i + 1) % Cardinality(M), [t EXCEPT ![u] = @ + 1])
<1> DEFINE n == Cardinality(M)
           p == i % n
           y == (i + 1) % n
           s == [t EXCEPT ![u] = @ + 1]
<1>1. n \in Nat
  BY FS_CardinalityType
<1>2. TurnsAway(u, M, p) = 0 /\ TurnsAway(u, M, y) = n - 1
  BY LineMovesUp
<1>3. ASSUME NEW v \in M \ {u}
      PROVE  TurnsAway(v, M, p) \in 1 .. n - 1 /\ TurnsAway(v, M, y) = TurnsAway(v, M, p) - 1
  <2>1. Index(v, M) # p
    BY IndexIsOwn
  <2> QED
    BY <2>1, LineMovesUp
<1>4. s[u] = t[u] + 1 /\ \A v \in M \ {u} : s[v] = t[v]
  OBVIOUS
<1>5. \A v, w \in M : TurnsAway(v, M, p) < TurnsAway(w, M, p) => t[v] <= t[w] /\ t[w] <= t[v] + 1
  BY DEF Even
<1>6. \A v \in M : t[v] \in Nat
  OBVIOUS
<1> HIDE DEF n, p, y, s
<1>7. ASSUME NEW v \in M, NEW w \in M, TurnsAway(v, M, y) < TurnsAway(w, M, y)
      PROVE  s[v] <= s[w] /\ s[w] <= s[v] + 1
  <2>1. v # u
    <3>1. ASSUME v = u PROVE FALSE
      <4>1. w # u /\ w \in M \ {u}
        BY <1>1, <1>2, <1>7, <3>1
      <4>2. TurnsAway(w, M, p) <= n - 1 /\ TurnsAway(w, M, y) = TurnsAway(w, M, p) - 1 /\ TurnsAway(w, M, p) \in Int
        BY <1>1, <1>3, <4>1
      <4> QED
        BY <1>1, <1>2, <1>7, <3>1, <4>2
    <3> QED
      BY <3>1
  <2>2. CASE w = u
    <3>1. TurnsAway(u, M, p) < TurnsAway(v, M, p)
      BY <1>1, <1>2, <1>3, <2>1
    <3>2. t[u] <= t[v] /\ t[v] <= t[u] + 1
      BY <1>5, <3>1
    <3> QED
      BY <1>4, <1>6, <2>1, <2>2, <3>2
  <2>3. CASE w # u
    <3>1. TurnsAway(v, M, p) < TurnsAway(w, M, p)
      BY <1>1, <1>3, <1>7, <2>1, <2>3
    <3>2. t[v] <= t[w] /\ t[w] <= t[v] + 1
      BY <1>5, <3>1
    <3> QED
      BY <1>4, <2>1, <2>3, <3>2
  <2> QED
    BY <2>2, <2>3
<1>8. Even(M, y, s)
  BY <1>7 DEF Even
<1> QED
  BY <1>8 DEF n, y, s

\* Even members are at most one turn apart.
LEMMA EvenIsClose ==
  ASSUME NEW M \in SUBSET Account, IsFiniteSet(M), NEW i \in Nat, NEW t \in [Account -> Nat],
         Even(M, i % Cardinality(M), t), NEW u \in M, NEW v \in M
  PROVE  t[u] <= t[v] + 1
<1> DEFINE n == Cardinality(M)
           p == i % n
<1>1. n \in Nat
  BY FS_CardinalityType
<1>2. CASE u = v
  BY <1>2
<1>3. CASE u # v
  <2>1. Index(u, M) \in 0 .. n - 1 /\ Index(v, M) \in 0 .. n - 1 /\ Index(u, M) # Index(v, M) /\ n \in Nat \ {0}
    BY <1>3, IndexInList, IndexIsOwn
  <2>2. p \in 0 .. n - 1
    BY <2>1, NextIndex
  <2>3. TurnsAway(u, M, p) < TurnsAway(v, M, p) \/ TurnsAway(v, M, p) < TurnsAway(u, M, p)
    <3> HIDE DEF p
    <3>1. CASE Index(u, M) >= p /\ Index(v, M) >= p
      BY <2>1, <2>2, <3>1 DEF TurnsAway
    <3>2. CASE Index(u, M) >= p /\ ~(Index(v, M) >= p)
      BY <2>1, <2>2, <3>2 DEF TurnsAway
    <3>3. CASE ~(Index(u, M) >= p) /\ Index(v, M) >= p
      BY <2>1, <2>2, <3>3 DEF TurnsAway
    <3>4. CASE ~(Index(u, M) >= p) /\ ~(Index(v, M) >= p)
      BY <2>1, <2>2, <3>4 DEF TurnsAway
    <3> QED
      BY <3>1, <3>2, <3>3, <3>4
  <2> QED
    BY <2>3 DEF Even
<1> QED
  BY <1>2, <1>3

\* The number of leads of an account, and of those on their way to it.
LEMMA LoadType ==
  ASSUME lead \in Seq(Account), NEW u
  PROVE  Load(u) \in Nat /\ IsFiniteSet({i \in DOMAIN lead : lead[i] = u})
<1> DEFINE n == Len(lead)
<1>1. n \in Nat /\ DOMAIN lead = 1 .. n
  OBVIOUS
<1> HIDE DEF n
<1>2. IsFiniteSet(DOMAIN lead)
  BY <1>1, FS_Interval
<1>3. IsFiniteSet({i \in DOMAIN lead : lead[i] = u})
  BY <1>2, FS_Subset
<1> QED
  BY <1>3, FS_CardinalityType DEF Load

\* Among some members there is one with the fewest leads.
LEMMA LeastLoadIs ==
  ASSUME lead \in Seq(Account), NEW M \in SUBSET Account, M # {}
  PROVE  LeastLoad(M) \in M /\ \A v \in M : Load(LeastLoad(M)) <= Load(v)
<1> DEFINE S == {Load(v) : v \in M}
<1>1. S \in SUBSET Nat /\ S # {}
  <2>1. \A v \in M : Load(v) \in Nat
    BY LoadType
  <2> QED
    BY <2>1
<1>2. PICK x \in S : \A y \in S : x <= y
  BY <1>1, LeastNumber
<1>3. PICK w \in M : x = Load(w)
  BY <1>2
<1>4. w \in Least(M)
  BY <1>2, <1>3 DEF Least
<1> DEFINE T == {UserOrder[v] : v \in Least(M)}
<1>5. T \in SUBSET Nat /\ T # {} /\ Least(M) \subseteq M
  BY <1>4 DEF Least
<1>6. PICK z \in T : \A y \in T : z <= y
  BY <1>5, LeastNumber
<1>7. \E u \in Least(M) : \A v \in Least(M) : UserOrder[u] <= UserOrder[v]
  BY <1>6
<1>8. LeastLoad(M) \in Least(M)
  BY <1>7 DEF LeastLoad
<1> QED
  BY <1>8 DEF Least

-----------------------------------------------------------------------------
(* The inductive invariant of load balancing.  What a request holds is of  *)
(* the shape its phase tells, and every stored configuration is on, for no *)
(* statement stores one that is off.                                       *)

ActiveConfig == [algorithm : Algorithm, last : Nat, active : {TRUE}]
FoundGroup == [group : Group, cfg : ActiveConfig]
Crew == {M \in SUBSET Account : IsFiniteSet(M) /\ M # {}}
BalFormReq == [phase : {"peers", "find"}, group : Group, alg : BalanceForm, on : BOOLEAN]
PeersReq == [phase : {"configs"}, group : Group, alg : BalanceForm, on : BOOLEAN, peers : SUBSET Group]
SaveReq == [phase : {"save"}, group : Group, on : BOOLEAN, cfg : Config]
PickingReq == [phase : {"picking"}, left : SUBSET Group, on : SUBSET FoundGroup]
ChosenReq == [phase : {"members"}, group : Group, cfg : ActiveConfig]
TurnReq == [phase : {"turn"}, group : Group, cfg : ActiveConfig, members : Crew]
PickedReq == [phase : {"picked"}, user : Account]
BalReq ==
  {BalIdle} \cup BalFormReq \cup PeersReq \cup SaveReq \cup PickingReq \cup ChosenReq \cup TurnReq \cup PickedReq

BalanceTyped ==
  /\ config \in [Group -> ActiveConfig \cup {NoRow}]
  /\ lead \in Seq(Account)
  /\ balReq \in [BalRequest -> BalReq]
  /\ turns \in [Group -> [Account -> Nat]]
  /\ beside \in [Account -> SUBSET Account]
  /\ unchecked \subseteq Group
  /\ IsFiniteSet(userGroup)

\* Of two open forms, one was not looked at alone, nor was one that switches off.
FormsApart ==
  /\ \A r, s \in FormsOpen : r # s => balReq[r].group \in unchecked \/ balReq[s].group \in unchecked
  /\ \A r \in FormsOpen : ~balReq[r].on => balReq[r].group \in unchecked

\* A form that is looked at knows every group on the same columns, and past
\* the look none of them has a configuration.
Sharing(g, h) == covers[g] # NoRow /\ covers[h] # NoRow /\ columnsOverlap(covers[g], covers[h])
Rivals(g) == {h \in Group \ (unchecked \cup {g}) : g \notin unchecked /\ Sharing(g, h)}
PeersKnown == \A r \in BalRequest : At(r, "configs") => Rivals(balReq[r].group) \subseteq balReq[r].peers
RivalsOff ==
  \A r \in BalRequest : balReq[r].phase \in {"find", "save"} =>
    \A h \in Rivals(balReq[r].group) : config[h] = NoRow

\* The members of a group are even, counted from the one whose turn it is.
TurnsEven ==
  \A g \in Group :
    \/ turns[g] = NoTurns[g]
    \/ /\ config[g] # NoRow /\ Team(g) # {}
       /\ Even(Team(g), config[g].last % Cardinality(Team(g)), turns[g])

BalanceInvariant ==
  /\ BalanceTyped /\ FormsApart /\ PeersKnown /\ RivalsOff /\ OneActiveGroup
  /\ TurnsEven /\ LoadsStayClose

-----------------------------------------------------------------------------
\* A request is of the shape its phase tells.
LEMMA ShapeOfBalReq ==
  ASSUME NEW q \in BalReq
  PROVE  /\ q.phase \in BalPhase
         /\ q.phase \in {"peers", "find"} => q \in BalFormReq
         /\ q.phase = "configs" => q \in PeersReq
         /\ q.phase = "save" => q \in SaveReq
         /\ q.phase = "picking" => q \in PickingReq
         /\ q.phase = "members" => q \in ChosenReq
         /\ q.phase = "turn" => q \in TurnReq
         /\ q.phase = "picked" => q \in PickedReq
BY DEF BalReq, BalIdle, BalFormReq, PeersReq, SaveReq, PickingReq, ChosenReq, TurnReq, PickedReq, BalPhase

LEMMA ShapeAt ==
  ASSUME BalanceTyped, NEW r \in BalRequest
  PROVE  /\ balReq[r].phase \in BalPhase
         /\ At(r, "peers") \/ At(r, "find") => balReq[r] \in BalFormReq
         /\ At(r, "configs") => balReq[r] \in PeersReq
         /\ At(r, "save") => balReq[r] \in SaveReq
         /\ At(r, "picking") => balReq[r] \in PickingReq
         /\ At(r, "members") => balReq[r] \in ChosenReq
         /\ At(r, "turn") => balReq[r] \in TurnReq
         /\ At(r, "picked") => balReq[r] \in PickedReq
BY ShapeOfBalReq DEF BalanceTyped, At

\* A request takes up another record, and the others stay as they are.
LEMMA BalStepHolds ==
  ASSUME BalanceTyped, NEW r \in BalRequest, NEW q \in BalReq, BalStep(r, q)
  PROVE  /\ balReq' \in [BalRequest -> BalReq]
         /\ balReq'[r] = q
         /\ \A s \in BalRequest \ {r} : balReq'[s] = balReq[s]
BY DEF BalanceTyped, BalStep

\* Whoever is picked was no more than another name.
LEMMA PickedHolds ==
  ASSUME BalanceTyped, NEW r \in BalRequest, NEW u \in Account, NEW among, Picked(r, u, among)
  PROVE  balReq' \in [BalRequest -> BalReq] /\ beside' \in [Account -> SUBSET Account]
<1>1. [phase |-> "picked", user |-> u] \in BalReq
  BY DEF BalReq, PickedReq
<1>2. balReq' \in [BalRequest -> BalReq]
  BY <1>1, BalStepHolds DEF Picked
<1>3. beside' \in [Account -> SUBSET Account]
  BY DEF Picked, BalanceTyped
<1> QED
  BY <1>2, <1>3

\* The configuration with the next index, and one more turn of a member.
LEMMA NextConfig ==
  ASSUME NEW cfg \in ActiveConfig
  PROVE  IncrementIndex(cfg) \in ActiveConfig /\ IncrementIndex(cfg).last = cfg.last + 1
<1>1. cfg.last \in Nat /\ cfg.last + 1 \in Nat
  BY DEF ActiveConfig
<1> DEFINE n == cfg.last + 1
<1>2. IncrementIndex(cfg) = [cfg EXCEPT !.last = n]
  BY DEF IncrementIndex
<1> HIDE DEF n
<1>3. [cfg EXCEPT !.last = n] \in ActiveConfig /\ [cfg EXCEPT !.last = n].last = n
  BY <1>1 DEF ActiveConfig, n
<1> QED
  BY <1>2, <1>3 DEF n

LEMMA OneMoreTurn ==
  ASSUME BalanceTyped, NEW g \in Group, NEW u \in Account
  PROVE  [turns EXCEPT ![g][u] = @ + 1] \in [Group -> [Account -> Nat]]
<1> DEFINE t == [turns[g] EXCEPT ![u] = @ + 1]
<1>1. turns[g] \in [Account -> Nat] /\ turns[g][u] \in Nat
  BY DEF BalanceTyped
<1>2. t \in [Account -> Nat]
  BY <1>1
<1>3. [turns EXCEPT ![g][u] = @ + 1] = [turns EXCEPT ![g] = t]
  OBVIOUS
<1> HIDE DEF t
<1> QED
  BY <1>2, <1>3 DEF BalanceTyped

LEMMA OwnerIs == Owner[Firm] \in Account
BY MemberAssumption, GroupAssumption

\* Of a finite number of members, those of a group are finitely many.
LEMMA TeamIsFinite ==
  ASSUME IsFiniteSet(userGroup), NEW g
  PROVE  IsFiniteSet(Team(g)) /\ Team(g) \in SUBSET Account
<1> DEFINE rows == {x \in userGroup : x[2] = g}
           users == {x[1] : x \in rows}
           first == [x \in rows |-> x[1]]
<1>1. IsFiniteSet(rows)
  BY FS_Subset
<1>2. IsFiniteSet(users)
  <2>1. first \in Surjection(rows, users)
    BY DEF Surjection
  <2> HIDE DEF rows, users, first
  <2> QED
    BY <1>1, <2>1, FS_Surjection
<1>3. Team(g) \in SUBSET users
  BY DEF Team, GroupMembers, InGroup
<1>4. Team(g) \in SUBSET Account
  BY DEF Team, GroupMembers
<1> QED
  BY <1>2, <1>3, <1>4, FS_Subset

\* What the groups do to the rows of load balancing: a deleted group takes its
\* rows with it, and a member comes or goes.
LEMMA GroupsTakeTheirRows ==
  ASSUME RightsInvariant, BalanceTyped, NEW r \in GroupRequest, RightsChange(r)
  PROVE  /\ config' = config \/ \E g \in Group : config' = Without(config, g)
         /\ covers' = covers \/ \E g \in Group : covers' = Without(covers, g)
         /\ IsFiniteSet(userGroup')
<1>1. CASE UNCHANGED <<userGroup, covers, config>>
  BY <1>1 DEF BalanceTyped
<1>2. CASE DeleteGroup(r)
  <2>1. groupReq[r].group \in Group
    BY <1>2, ShapeOfGroupReq DEF DeleteGroup, RightsInvariant, GroupsTyped, FoundReq
  <2>2. IsFiniteSet(userGroup')
    BY <1>2, FS_Subset DEF DeleteGroup, BalanceTyped
  <2> QED
    BY <1>2, <2>1, <2>2 DEF DeleteGroup
<1>3. CASE CreateUserGroup(r)
  <2>1. IsFiniteSet(userGroup')
    BY <1>3, FS_AddElement DEF CreateUserGroup, BalanceTyped
  <2> QED
    BY <1>3, <2>1 DEF CreateUserGroup
<1>4. ASSUME NEW u \in Account, NEW g \in Group, RemoveMember(r, u, g)
      PROVE UNCHANGED <<covers, config>> /\ IsFiniteSet(userGroup')
  BY <1>4, FS_Subset DEF RemoveMember, BalanceTyped
<1>5. GroupsChange(r) => UNCHANGED <<userGroup, covers, config>> \/ DeleteGroup(r)
  BY DEF GroupsChange, CreateGroup, FindGroup, SaveGroup, groupRows
<1>6. MembersChange(r) =>
        \/ UNCHANGED <<userGroup, covers, config>> \/ CreateUserGroup(r)
        \/ \E u \in Account, g \in Group : RemoveMember(r, u, g)
  BY DEF MembersChange, AddMember, groupRows
<1>7. PermissionsChange(r) \/ ProfilesChange(r) => UNCHANGED <<userGroup, covers, config>>
  BY DEF PermissionsChange, SetGroupPermissions, SetUserPermissions, SetPermissions, DeleteByResource, CreatePermission,
     ProfilesChange, SetViewProfile, SaveViewProfile, groupRows
<1>8. Questions(r) \/ GroupFails(r) => UNCHANGED <<userGroup, covers, config>>
  BY DEF Questions, HasPermission, AskOwner, AskUser, AskGroups, AskGroupGrants, GroupFails, Fails, groupRows
<1> QED
  BY <1>1, <1>2, <1>3, <1>4, <1>5, <1>6, <1>7, <1>8 DEF RightsChange

-----------------------------------------------------------------------------
(* The types.                                                              *)

\* Steps of others take configurations away and forget turns.
LEMMA OthersKeepTypes ==
  ASSUME BalanceTyped, OthersChange, IsFiniteSet(userGroup'),
         config' = config \/ \E g \in Group : config' = Without(config, g)
  PROVE  BalanceTyped'
<1>1. config' \in [Group -> ActiveConfig \cup {NoRow}]
  BY DEF BalanceTyped, Without
<1>2. turns' \in [Group -> [Account -> Nat]]
  BY DEF BalanceTyped, OthersChange, TurnsRestart, NoTurns
<1> QED
  BY <1>1, <1>2 DEF BalanceTyped, OthersChange

LEMMA FormsKeepTypes ==
  ASSUME BalanceTyped, NEW r \in BalRequest, Forms(r)
  PROVE  BalanceTyped'
<1>0. UNCHANGED userGroup
  BY DEF Forms, SetByGroup, FindPeers, PeersOff, FindConfig, SaveConfig, SameRows
<1>1. ASSUME UNCHANGED <<config, lead, turns, beside>>, unchecked' \subseteq Group,
             NEW q \in BalReq, BalStep(r, q)
      PROVE  BalanceTyped'
  BY <1>0, <1>1, BalStepHolds DEF BalanceTyped
<1>2. BalIdle \in BalReq
  BY DEF BalReq
<1>3. ASSUME NEW g \in Group, NEW alg \in BalanceForm, NEW on \in BOOLEAN, SetByGroup(r, g, alg, on)
      PROVE  BalanceTyped'
  <2>1. [phase |-> IF on THEN "peers" ELSE "find", group |-> g, alg |-> alg, on |-> on] \in BalReq
    BY DEF BalReq, BalFormReq
  <2> QED
    BY <1>1, <1>3, <2>1 DEF SetByGroup, BalanceTyped
<1> DEFINE q == balReq[r]
<1>4. ASSUME FindPeers(r) PROVE BalanceTyped'
  <2>1. q \in BalFormReq
    BY <1>4, ShapeAt DEF FindPeers
  <2> DEFINE peers == {h \in Group \ {q.group} :
                         covers[q.group] # NoRow /\ covers[h] # NoRow
                         /\ columnsOverlap(covers[q.group], covers[h])}
             n == [phase |-> "configs", group |-> q.group, alg |-> q.alg, on |-> q.on, peers |-> peers]
  <2>2. peers \in SUBSET Group
    OBVIOUS
  <2>3. BalStep(r, n) /\ UNCHANGED <<config, lead, turns, beside, unchecked>>
    BY <1>4 DEF FindPeers
  <2> HIDE DEF peers
  <2>4. n \in BalReq
    BY <2>1, <2>2 DEF BalReq, BalFormReq, PeersReq
  <2> HIDE DEF n, q
  <2> QED
    BY <1>1, <2>3, <2>4 DEF BalanceTyped
<1>5. ASSUME PeersOff(r) PROVE BalanceTyped'
  <2>1. q \in PeersReq
    BY <1>5, ShapeAt DEF PeersOff
  <2>2. [phase |-> "find", group |-> q.group, alg |-> q.alg, on |-> q.on] \in BalReq
    BY <2>1 DEF BalReq, PeersReq, BalFormReq
  <2> QED
    BY <1>1, <1>2, <1>5, <2>2 DEF PeersOff, BalanceTyped
<1>6. ASSUME FindConfig(r) PROVE BalanceTyped'
  <2>1. q \in BalFormReq
    BY <1>6, ShapeAt DEF FindConfig
  <2> DEFINE cfg == [ConfigOf(q.group, q.alg) EXCEPT !.active = q.on]
  <2>2. ValidateAlgorithm(q.alg) => cfg \in Config
    <3>1. config[q.group] # NoRow => config[q.group] \in ActiveConfig
      BY <2>1 DEF BalanceTyped, BalFormReq
    <3>2. ValidateAlgorithm(q.alg) => ConfigOf(q.group, q.alg) \in ActiveConfig
      BY <3>1 DEF ConfigOf, ValidateAlgorithm, NewLoadBalanceConfig, ActiveConfig
    <3> QED
      BY <2>1, <3>2 DEF Config, ActiveConfig, BalFormReq
  <2> HIDE DEF cfg
  <2>3. ValidateAlgorithm(q.alg) => [phase |-> "save", group |-> q.group, on |-> q.on, cfg |-> cfg] \in BalReq
    BY <2>1, <2>2 DEF BalReq, BalFormReq, SaveReq
  <2>4. UNCHANGED <<config, lead, turns, beside, unchecked>>
    BY <1>6 DEF FindConfig
  <2>5. BalStep(r, BalIdle) \/
        (ValidateAlgorithm(q.alg) /\ BalStep(r, [phase |-> "save", group |-> q.group, on |-> q.on, cfg |-> cfg]))
    BY <1>6 DEF FindConfig, cfg
  <2> HIDE DEF q
  <2> QED
    BY <1>1, <1>2, <2>3, <2>4, <2>5 DEF BalanceTyped
<1>7. ASSUME SaveConfig(r) PROVE BalanceTyped'
  <2>1. q \in SaveReq
    BY <1>7, ShapeAt DEF SaveConfig
  <2>2. InsertedConfig(q.cfg) \in ActiveConfig
    BY <2>1 DEF SaveReq, InsertedConfig, DefaultTrue, Config, ActiveConfig
  <2>3. config' \in [Group -> ActiveConfig \cup {NoRow}]
    BY <1>7, <2>1, <2>2 DEF SaveConfig, BalanceTyped, SaveReq
  <2>4. turns' \in [Group -> [Account -> Nat]]
    BY <1>7, <2>1 DEF SaveConfig, Forgets, NoTurns, BalanceTyped, SaveReq
  <2> QED
    BY <1>0, <1>2, <1>7, <2>3, <2>4, BalStepHolds DEF SaveConfig, BalanceTyped
<1> QED
  BY <1>3, <1>4, <1>5, <1>6, <1>7 DEF Forms

\* Round robin picks a member.
LEMMA PickedByTurn ==
  ASSUME BalanceTyped, NEW r \in BalRequest, RoundRobin(r)
  PROVE  AtIndex(balReq[r].cfg.last % Cardinality(balReq[r].members), balReq[r].members) \in Account
<1> DEFINE M == balReq[r].members
           i == balReq[r].cfg.last
<1>1. balReq[r] \in TurnReq
  BY ShapeAt DEF RoundRobin
<1>2. M \in SUBSET Account /\ IsFiniteSet(M) /\ M # {} /\ i \in Nat
  BY <1>1 DEF TurnReq, Crew, ActiveConfig
<1>3. Cardinality(M) \in Nat \ {0}
  BY <1>2, IndexInList
<1>4. i % Cardinality(M) \in 0 .. Cardinality(M) - 1
  BY <1>2, <1>3, NextIndex
<1> QED
  BY <1>2, <1>4, AtIndexIs

LEMMA PicksKeepTypes ==
  ASSUME BalanceTyped, NEW r \in BalRequest, Picks(r)
  PROVE  BalanceTyped'
<1>0. UNCHANGED userGroup
  BY DEF Picks, PickForFunnel, FindActive, ChooseGroup, FindMembers, RoundRobin, LeastLoaded, Random, PickFails,
     CreateLeadFor, SameRows
<1>1. ASSUME UNCHANGED <<config, lead, turns, beside, unchecked>>, NEW q \in BalReq, BalStep(r, q)
      PROVE  BalanceTyped'
  BY <1>0, <1>1, BalStepHolds DEF BalanceTyped
<1>2. ASSUME UNCHANGED <<config, lead, turns, unchecked>>, NEW u \in Account, NEW among, Picked(r, u, among)
      PROVE  BalanceTyped'
  BY <1>0, <1>2, PickedHolds DEF BalanceTyped
<1>3. ASSUME UNCHANGED <<config, lead, turns, unchecked>>, FallbackToOwner(r) PROVE BalanceTyped'
  BY <1>2, <1>3, OwnerIs DEF FallbackToOwner
<1> DEFINE q == balReq[r]
<1>4. ASSUME NEW c \in Column, PickForFunnel(r, c) PROVE BalanceTyped'
  <2> DEFINE n == [phase |-> "picking", left |-> {g \in Group : CoversColumn(g, c)}, on |-> {}]
  <2>1. n \in BalReq
    BY DEF BalReq, PickingReq
  <2> HIDE DEF n
  <2>2. BalStep(r, n) /\ UNCHANGED <<config, lead, turns, beside, unchecked>>
    BY <1>4 DEF PickForFunnel, n
  <2> QED
    BY <1>1, <2>1, <2>2
<1>5. ASSUME NEW g \in Group, FindActive(r, g) PROVE BalanceTyped'
  <2>1. q \in PickingReq
    BY <1>5, ShapeAt DEF FindActive
  <2> DEFINE found == IF config[g] # NoRow /\ config[g].active THEN {[group |-> g, cfg |-> config[g]]} ELSE {}
             n == [q EXCEPT !.left = @ \ {g}, !.on = @ \cup found]
  <2>2. found \in SUBSET FoundGroup
    BY DEF FoundGroup, BalanceTyped
  <2>3. BalStep(r, n) /\ UNCHANGED <<config, lead, turns, beside, unchecked>>
    BY <1>5 DEF FindActive
  <2> HIDE DEF found
  <2>4. n \in BalReq
    BY <2>1, <2>2 DEF BalReq, PickingReq
  <2> HIDE DEF n
  <2> QED
    BY <1>1, <2>3, <2>4
<1>6. ASSUME ChooseGroup(r) PROVE BalanceTyped'
  <2>1. q \in PickingReq
    BY <1>6, ShapeAt DEF ChooseGroup
  <2>2. \A a \in q.on : [phase |-> "members", group |-> a.group, cfg |-> a.cfg] \in BalReq
    BY <2>1 DEF PickingReq, FoundGroup, BalReq, ChosenReq
  <2>3. UNCHANGED <<config, lead, turns, unchecked>>
    BY <1>6 DEF ChooseGroup
  <2>4. \/ FallbackToOwner(r)
        \/ /\ \E a \in q.on : BalStep(r, [phase |-> "members", group |-> a.group, cfg |-> a.cfg])
           /\ UNCHANGED beside
    BY <1>6 DEF ChooseGroup
  <2> QED
    BY <1>1, <1>3, <2>2, <2>3, <2>4
<1>7. ASSUME FindMembers(r) PROVE BalanceTyped'
  <2>1. q \in ChosenReq
    BY <1>7, ShapeAt DEF FindMembers
  <2>2. IsFiniteSet(Team(q.group)) /\ Team(q.group) \in SUBSET Account
    BY TeamIsFinite DEF BalanceTyped
  <2> DEFINE n == [phase |-> "turn", group |-> q.group, cfg |-> q.cfg, members |-> Team(q.group)]
  <2>3. Team(q.group) # {} => n \in BalReq
    BY <2>1, <2>2 DEF BalReq, ChosenReq, TurnReq, Crew
  <2>4. UNCHANGED <<config, lead, turns, unchecked>>
    BY <1>7 DEF FindMembers
  <2>5. FallbackToOwner(r) \/ (Team(q.group) # {} /\ BalStep(r, n) /\ UNCHANGED beside)
    BY <1>7 DEF FindMembers
  <2> HIDE DEF n, q
  <2> QED
    BY <1>1, <1>3, <2>3, <2>4, <2>5
<1>8. ASSUME RoundRobin(r) PROVE BalanceTyped'
  <2>1. q \in TurnReq
    BY <1>8, ShapeAt DEF RoundRobin
  <2>2. CASE ~group[q.group]
    BY <1>3, <1>8, <2>2 DEF RoundRobin
  <2>3. CASE group[q.group]
    <3> DEFINE i == q.cfg.last % Cardinality(q.members)
               u == AtIndex(i, q.members)
    <3>1. u \in Account
      BY <1>8, PickedByTurn
    <3>2. /\ config' = [config EXCEPT ![q.group] = IncrementIndex(q.cfg)]
          /\ turns' = [turns EXCEPT ![q.group][u] = @ + 1] \/ Forgets(q.group)
          /\ unchecked' = unchecked \/ unchecked' = unchecked \cup {q.group}
          /\ Picked(r, u, {}) /\ UNCHANGED lead
      BY <1>8, <2>3 DEF RoundRobin
    <3>3. IncrementIndex(q.cfg) \in ActiveConfig /\ q.group \in Group
      <4>1. q.cfg \in ActiveConfig /\ q.group \in Group
        BY <2>1 DEF TurnReq
      <4> QED
        BY <4>1, NextConfig
    <3> HIDE DEF u, q
    <3>4. config' \in [Group -> ActiveConfig \cup {NoRow}]
      BY <3>2, <3>3 DEF BalanceTyped
    <3>5. turns' \in [Group -> [Account -> Nat]]
      <4>1. [turns EXCEPT ![q.group][u] = @ + 1] \in [Group -> [Account -> Nat]]
        BY <3>1, <3>3, OneMoreTurn
      <4>2. Forgets(q.group) => turns' \in [Group -> [Account -> Nat]]
        BY <3>3 DEF BalanceTyped, Forgets, NoTurns
      <4> QED
        BY <3>2, <4>1, <4>2
    <3>6. balReq' \in [BalRequest -> BalReq] /\ beside' \in [Account -> SUBSET Account]
      BY <3>1, <3>2, PickedHolds
    <3> QED
      BY <1>0, <3>2, <3>3, <3>4, <3>5, <3>6 DEF BalanceTyped
  <2> QED
    BY <2>2, <2>3
<1>9. ASSUME LeastLoaded(r) PROVE BalanceTyped'
  <2>1. q \in TurnReq
    BY <1>9, ShapeAt DEF LeastLoaded
  <2>2. LeastLoad(q.members) \in Account
    BY <2>1, LeastLoadIs DEF TurnReq, Crew, BalanceTyped
  <2> QED
    BY <1>2, <1>9, <2>2 DEF LeastLoaded
<1>10. ASSUME Random(r) PROVE BalanceTyped'
  <2>1. q \in TurnReq
    BY <1>10, ShapeAt DEF Random
  <2>2. q.members \subseteq Account
    BY <2>1 DEF TurnReq, Crew
  <2> QED
    BY <1>2, <1>10, <2>2 DEF Random
<1>11. ASSUME PickFails(r) PROVE BalanceTyped'
  BY <1>3, <1>11 DEF PickFails
<1>12. ASSUME CreateLeadFor(r) PROVE BalanceTyped'
  <2>1. q \in PickedReq /\ q.user \in Account
    BY <1>12, ShapeAt DEF CreateLeadFor, PickedReq
  <2>2. lead' \in Seq(Account)
    BY <1>12, <2>1 DEF CreateLeadFor, BalanceTyped
  <2>3. balReq' \in [BalRequest -> BalReq]
    BY <1>12, BalStepHolds DEF CreateLeadFor, BalReq
  <2> QED
    BY <1>0, <1>12, <2>2, <2>3 DEF CreateLeadFor, BalanceTyped
<1> QED
  BY <1>4, <1>5, <1>6, <1>7, <1>8, <1>9, <1>10, <1>11, <1>12 DEF Picks

\* Every step of a firm keeps the types.
LEMMA BalanceTypedNext == RightsInvariant /\ BalanceTyped /\ [FirmNext]_firmVars => BalanceTyped'
<1> SUFFICES ASSUME RightsInvariant, BalanceTyped, [FirmNext]_firmVars PROVE BalanceTyped'
  OBVIOUS
<1>1. CASE UNCHANGED firmVars
  BY <1>1 DEF firmVars, balVars, groupVars, groupRows, BalanceTyped
<1>2. CASE MemberNext /\ UNCHANGED groupVars /\ OthersChange
  BY <1>2, OthersKeepTypes DEF groupVars, groupRows, BalanceTyped
<1>3. ASSUME NEW r \in GroupRequest, RightsChange(r), OthersChange PROVE BalanceTyped'
  BY <1>3, GroupsTakeTheirRows, OthersKeepTypes
<1>4. ASSUME NEW g \in Group, NEW cs, AssignColumns(g, cs) PROVE BalanceTyped'
  BY <1>4 DEF AssignColumns, SetGroupFunnel, BalanceTyped
<1> QED
  BY <1>1, <1>2, <1>3, <1>4, FormsKeepTypes, PicksKeepTypes DEF FirmNext, Assignments, SetGroupFunnelsHTML

-----------------------------------------------------------------------------
(* One group for a column.                                                 *)

FormsInvariant == BalanceTyped /\ FormsApart /\ PeersKnown /\ RivalsOff /\ OneActiveGroup

\* Groups that both answer for a column share it.
LEMMA SharingIs ==
  ASSUME NEW g \in Group, NEW h \in Group, NEW c \in Column, CoversColumn(g, c), CoversColumn(h, c)
  PROVE  Sharing(g, h)
BY DEF CoversColumn, Sharing, columnsOverlap

\* A step that leaves the forms alone, covers no further column, and stores a
\* first configuration only of a group that was not looked at.
LEMMA QuietKeepsForms ==
  ASSUME FormsInvariant, BalanceTyped', unchecked \subseteq unchecked', FormsOpen' = FormsOpen,
         \A r \in FormsOpen : balReq'[r] = balReq[r],
         \A h \in Group : covers'[h] = covers[h] \/ covers'[h] = NoRow,
         \A h \in Group : config'[h] = NoRow \/ config[h] # NoRow \/ h \in unchecked'
  PROVE  FormsInvariant'
<1> USE DEF FormsInvariant
<1>1. FormsApart'
  BY DEF FormsApart
<1>2. \A g, h \in Group : Sharing(g, h)' => Sharing(g, h)
  BY DEF Sharing
<1>3. \A g \in Group : Rivals(g)' \subseteq Rivals(g)
  BY <1>2 DEF Rivals
<1>4. \A r \in BalRequest : balReq'[r].phase \in {"configs", "find", "save"} =>
        /\ r \in FormsOpen /\ balReq'[r] = balReq[r] /\ balReq[r].group \in Group
  <2>1. SUFFICES ASSUME NEW r \in BalRequest, balReq'[r].phase \in {"configs", "find", "save"}
                 PROVE  r \in FormsOpen /\ balReq'[r] = balReq[r] /\ balReq[r].group \in Group
    OBVIOUS
  <2>2. r \in FormsOpen'
    BY <2>1 DEF FormsOpen
  <2>3. r \in FormsOpen /\ balReq'[r] = balReq[r]
    BY <2>2
  <2> QED
    BY <2>1, <2>3, ShapeAt DEF At, PeersReq, BalFormReq, SaveReq
<1>5. PeersKnown'
  BY <1>3, <1>4 DEF PeersKnown, At
<1>6. RivalsOff'
  <2>1. SUFFICES ASSUME NEW r \in BalRequest, balReq'[r].phase \in {"find", "save"},
                        NEW h \in Rivals(balReq[r].group)'
                 PROVE  config'[h] = NoRow
    BY DEF RivalsOff
  <2>2. balReq'[r] = balReq[r] /\ balReq[r].group \in Group
    BY <1>4, <2>1
  <2> DEFINE g == balReq[r].group
  <2>3. Rivals(balReq[r].group)' = Rivals(g)'
    BY <2>2 DEF Rivals, Sharing
  <2>4. h \in Rivals(g) /\ h \in Group \ unchecked'
    <3> HIDE DEF g
    <3> QED
      BY <1>2, <2>1, <2>2, <2>3 DEF Rivals, g
  <2>5. config[h] = NoRow
    BY <2>1, <2>2, <2>4 DEF RivalsOff
  <2> QED
    BY <2>4, <2>5
<1>7. OneActiveGroup'
  <2>1. SUFFICES ASSUME NEW g \in Group \ unchecked', NEW h \in Group \ unchecked', g # h,
                        config'[g] # NoRow, config'[h] # NoRow, NEW c \in Column,
                        CoversColumn(g, c)', CoversColumn(h, c)'
                 PROVE  FALSE
    BY DEF OneActiveGroup
  <2>2. g \in Group \ unchecked /\ h \in Group \ unchecked /\ config[g] # NoRow /\ config[h] # NoRow
    BY <2>1
  <2>3. config[g].active /\ config[h].active
    BY <2>2 DEF BalanceTyped, ActiveConfig
  <2>4. CoversColumn(g, c) /\ CoversColumn(h, c)
    BY <2>1 DEF CoversColumn
  <2> QED
    BY <2>1, <2>2, <2>3, <2>4 DEF OneActiveGroup
<1> QED
  BY <1>1, <1>5, <1>6, <1>7

\* A pick is no form, before and after.
LEMMA PickIsNoForm ==
  ASSUME BalanceTyped, NEW r \in BalRequest, r \notin FormsOpen, NEW q \in BalReq, BalStep(r, q),
         q.phase \notin {"peers", "configs", "find", "save"}
  PROVE  FormsOpen' = FormsOpen /\ \A s \in FormsOpen : balReq'[s] = balReq[s]
BY BalStepHolds DEF FormsOpen

LEMMA PicksKeepForms ==
  ASSUME FormsInvariant, BalanceTyped', NEW r \in BalRequest, Picks(r)
  PROVE  FormsInvariant'
<1>1. BalanceTyped
  BY DEF FormsInvariant
<1>2. r \notin FormsOpen
  <2>1. (\E c \in Column : PickForFunnel(r, c)) => balReq[r].phase = "none"
    BY DEF PickForFunnel, Waits, BalIdle
  <2>2. (\E g \in Group : FindActive(r, g)) \/ ChooseGroup(r) => balReq[r].phase = "picking"
    BY DEF FindActive, ChooseGroup, At
  <2>3. FindMembers(r) => balReq[r].phase = "members"
    BY DEF FindMembers, At
  <2>4. RoundRobin(r) \/ LeastLoaded(r) \/ Random(r) => balReq[r].phase = "turn"
    BY DEF RoundRobin, LeastLoaded, Random, At
  <2>5. PickFails(r) => balReq[r].phase \in {"picking", "members", "turn"}
    BY DEF PickFails
  <2>6. CreateLeadFor(r) => balReq[r].phase = "picked"
    BY DEF CreateLeadFor, At
  <2>7. balReq[r].phase \in {"none", "picking", "members", "turn", "picked"}
    BY <2>1, <2>2, <2>3, <2>4, <2>5, <2>6 DEF Picks
  <2> QED
    BY <2>7 DEF FormsOpen
<1>3. covers' = covers
  BY DEF Picks, PickForFunnel, FindActive, ChooseGroup, FindMembers, RoundRobin, LeastLoaded, Random, PickFails,
     CreateLeadFor, SameRows
<1>4. \E q : BalStep(r, q) /\ q.phase \notin {"peers", "configs", "find", "save"}
  <2>1. \A u, among : Picked(r, u, among) => \E q : BalStep(r, q) /\ q.phase = "picked"
    BY DEF Picked
  <2>2. FallbackToOwner(r) => \E q : BalStep(r, q) /\ q.phase = "picked"
    BY <2>1 DEF FallbackToOwner
  <2>3. ASSUME NEW c \in Column, PickForFunnel(r, c) PROVE \E q : BalStep(r, q) /\ q.phase = "picking"
    BY <2>3 DEF PickForFunnel
  <2>4. ASSUME NEW g \in Group, FindActive(r, g) PROVE \E q : BalStep(r, q) /\ q.phase = "picking"
    <3>1. balReq[r] \in PickingReq
      BY <1>1, <2>4, ShapeAt DEF FindActive
    <3>2. PICK found : BalStep(r, [balReq[r] EXCEPT !.left = @ \ {g}, !.on = @ \cup found])
      BY <2>4 DEF FindActive
    <3>3. [balReq[r] EXCEPT !.left = @ \ {g}, !.on = @ \cup found].phase = "picking"
      BY <3>1 DEF PickingReq
    <3> QED
      BY <3>2, <3>3, Zenon
  <2>5. ASSUME ChooseGroup(r) PROVE \E q : BalStep(r, q) /\ q.phase \in {"members", "picked"}
    <3>1. FallbackToOwner(r) \/
          \E a \in balReq[r].on : BalStep(r, [phase |-> "members", group |-> a.group, cfg |-> a.cfg])
      BY <2>5 DEF ChooseGroup
    <3>2. \A g, cfg : [phase |-> "members", group |-> g, cfg |-> cfg].phase = "members"
      OBVIOUS
    <3> QED
      BY <2>2, <3>1, <3>2
  <2>6. ASSUME FindMembers(r) PROVE \E q : BalStep(r, q) /\ q.phase \in {"turn", "picked"}
    BY <2>2, <2>6 DEF FindMembers
  <2>7. ASSUME RoundRobin(r) \/ LeastLoaded(r) \/ Random(r) \/ PickFails(r)
        PROVE  \E q : BalStep(r, q) /\ q.phase = "picked"
    BY <2>1, <2>2, <2>7 DEF RoundRobin, LeastLoaded, Random, PickFails
  <2>8. ASSUME CreateLeadFor(r) PROVE \E q : BalStep(r, q) /\ q.phase = "none"
    BY <2>8 DEF CreateLeadFor, BalIdle
  <2> QED
    BY <2>3, <2>4, <2>5, <2>6, <2>7, <2>8 DEF Picks
<1>5. FormsOpen' = FormsOpen /\ \A s \in FormsOpen : balReq'[s] = balReq[s]
  <2>1. PICK q : BalStep(r, q) /\ q.phase \notin {"peers", "configs", "find", "save"}
    BY <1>4
  <2>2. q = balReq'[r] /\ balReq'[r] \in BalReq
    BY <1>1, <2>1 DEF BalStep, BalanceTyped
  <2> QED
    BY <1>1, <1>2, <2>1, <2>2, PickIsNoForm
<1>6. ASSUME RoundRobin(r)
      PROVE  /\ unchecked \subseteq unchecked'
             /\ \A h \in Group : config'[h] = NoRow \/ config[h] # NoRow \/ h \in unchecked'
  <2>1. \/ UNCHANGED <<config, unchecked>>
        \/ /\ config' = [config EXCEPT ![balReq[r].group] = IncrementIndex(balReq[r].cfg)]
           /\ unchecked' = IF config[balReq[r].group] = NoRow
                           THEN unchecked \cup {balReq[r].group} ELSE unchecked
    BY <1>6 DEF RoundRobin
  <2> QED
    BY <1>1, <2>1 DEF BalanceTyped
<1>7. ~RoundRobin(r) => UNCHANGED <<config, unchecked>>
  BY DEF Picks, PickForFunnel, FindActive, ChooseGroup, FindMembers, LeastLoaded, Random, PickFails, CreateLeadFor
<1> QED
  BY <1>3, <1>5, <1>6, <1>7, QuietKeepsForms

\* New columns of a group: it was not looked at, or no form is open and it is off.
LEMMA ColumnsKeepForms ==
  ASSUME RightsInvariant, FormsInvariant, BalanceTyped', NEW g \in Group, NEW cs, AssignColumns(g, cs)
  PROVE  FormsInvariant'
<1> USE DEF FormsInvariant
<1>1. /\ UNCHANGED <<config, balReq>> /\ covers' = [covers EXCEPT ![g] = cs]
      /\ unchecked' = IF config[g] # NoRow \/ FormsOpen # {} THEN unchecked \cup {g} ELSE unchecked
  BY DEF AssignColumns, SetGroupFunnel
<1>2. \A h \in Group \ {g} : covers'[h] = covers[h]
  BY <1>1 DEF RightsInvariant, GroupsTyped
<1>3. FormsOpen' = FormsOpen
  BY <1>1 DEF FormsOpen
<1>4. FormsApart'
  BY <1>1, <1>3 DEF FormsApart
<1>5. FormsOpen # {} => \A f \in Group : Rivals(f)' \subseteq Rivals(f)
  BY <1>1, <1>2 DEF Rivals, Sharing
<1>6. \A r \in BalRequest : balReq[r].phase \in {"configs", "find", "save"} => FormsOpen # {} /\ balReq[r].group \in Group
  BY ShapeAt DEF FormsOpen, At, PeersReq, BalFormReq, SaveReq
<1>7. PeersKnown' /\ RivalsOff'
  BY <1>1, <1>5, <1>6 DEF PeersKnown, RivalsOff, At
<1>8. OneActiveGroup'
  BY <1>1, <1>2 DEF OneActiveGroup, CoversColumn
<1> QED
  BY <1>4, <1>7, <1>8

\* A form that goes on, or is over.
LEMMA FormGoesOn ==
  ASSUME FormsInvariant, BalanceTyped', NEW r \in FormsOpen, NEW q \in BalReq, BalStep(r, q),
         UNCHANGED <<covers, config, unchecked>>,
         q.phase \in {"none", "configs", "find", "save"},
         q.phase # "none" => q.group = balReq[r].group /\ q.on = balReq[r].on,
         q.phase = "configs" => Rivals(q.group) \subseteq q.peers,
         q.phase \in {"find", "save"} => \A h \in Rivals(q.group) : config[h] = NoRow
  PROVE  FormsInvariant'
<1> USE DEF FormsInvariant
<1>1. r \in BalRequest /\ balReq'[r] = q /\ \A s \in BalRequest \ {r} : balReq'[s] = balReq[s]
  BY BalStepHolds DEF FormsOpen
<1>2. \A g : Rivals(g)' = Rivals(g)
  BY DEF Rivals, Sharing
<1>3. FormsOpen' \subseteq FormsOpen /\ (r \in FormsOpen' => q.phase # "none")
  BY <1>1 DEF FormsOpen
<1>4. \A s \in FormsOpen' : balReq'[s].group = balReq[s].group /\ balReq'[s].on = balReq[s].on
  <2>1. FormsOpen' \subseteq BalRequest
    BY DEF FormsOpen
  <2> QED
    BY <1>1, <1>3, <2>1
<1>5. FormsApart'
  BY <1>3, <1>4 DEF FormsApart
<1>6. PeersKnown'
  <2>1. SUFFICES ASSUME NEW s \in BalRequest, balReq'[s].phase = "configs", NEW h \in Rivals(balReq'[s].group)
                 PROVE  h \in balReq'[s].peers
    BY <1>2 DEF PeersKnown, At, Rivals, Sharing
  <2> QED
    BY <1>1, <2>1 DEF PeersKnown, At
<1>7. RivalsOff'
  <2>1. SUFFICES ASSUME NEW s \in BalRequest, balReq'[s].phase \in {"find", "save"}, NEW h \in Rivals(balReq'[s].group)
                 PROVE  config[h] = NoRow
    BY <1>2 DEF RivalsOff, Rivals, Sharing
  <2> QED
    BY <1>1, <2>1 DEF RivalsOff
<1>8. OneActiveGroup'
  BY DEF OneActiveGroup, CoversColumn
<1> QED
  BY <1>5, <1>6, <1>7, <1>8

\* A new form: it is looked at if it switches on and is alone.
LEMMA NewFormKeeps ==
  ASSUME FormsInvariant, BalanceTyped', NEW r \in BalRequest, NEW g \in Group, NEW alg \in BalanceForm,
         NEW on \in BOOLEAN, SetByGroup(r, g, alg, on)
  PROVE  FormsInvariant'
<1> USE DEF FormsInvariant
<1> DEFINE q == [phase |-> IF on THEN "peers" ELSE "find", group |-> g, alg |-> alg, on |-> on]
<1>1. /\ r \notin FormsOpen /\ BalStep(r, q) /\ UNCHANGED <<covers, config>>
      /\ unchecked' = IF ~on \/ FormsOpen # {} THEN unchecked \cup {g} ELSE unchecked
  BY DEF SetByGroup, Waits, BalIdle, FormsOpen, SameRows
<1>2. balReq'[r] = q /\ \A s \in BalRequest \ {r} : balReq'[s] = balReq[s]
  <2>1. q \in BalReq
    BY DEF BalReq, BalFormReq
  <2> QED
    BY <1>1, <2>1, BalStepHolds
<1>3. FormsOpen' = FormsOpen \cup {r}
  BY <1>2 DEF FormsOpen
<1>4. \A s \in FormsOpen : balReq'[s] = balReq[s]
  <2>1. FormsOpen \subseteq BalRequest \ {r}
    BY <1>1 DEF FormsOpen
  <2> QED
    BY <1>2, <2>1
<1>5. FormsApart'
  <2>1. \A s, t \in FormsOpen : s # t => balReq'[s].group \in unchecked' \/ balReq'[t].group \in unchecked'
    BY <1>1, <1>4 DEF FormsApart
  <2>2. \A s \in FormsOpen : balReq'[r].group \in unchecked'
    BY <1>1, <1>2
  <2>3. \A s \in FormsOpen' : ~balReq'[s].on => balReq'[s].group \in unchecked'
    BY <1>1, <1>2, <1>3, <1>4 DEF FormsApart
  <2> QED
    BY <1>3, <2>1, <2>2, <2>3 DEF FormsApart
<1>6. \A f : Rivals(f)' \subseteq Rivals(f)
  BY <1>1 DEF Rivals, Sharing
<1>7. PeersKnown'
  <2>1. SUFFICES ASSUME NEW s \in BalRequest, balReq'[s].phase = "configs"
                 PROVE  s # r /\ balReq'[s] = balReq[s]
    BY <1>1, <1>6 DEF PeersKnown, At, Rivals, Sharing
  <2> QED
    BY <1>2, <2>1
<1>8. RivalsOff'
  <2>1. SUFFICES ASSUME NEW s \in BalRequest, balReq'[s].phase \in {"find", "save"}, NEW h \in Rivals(balReq[s].group),
                        balReq'[s].group \notin unchecked', s # r
                 PROVE  config[h] = NoRow
    BY <1>1, <1>2 DEF RivalsOff, Rivals, Sharing
  <2> QED
    BY <1>2, <2>1 DEF RivalsOff
<1>9. OneActiveGroup'
  BY <1>1 DEF OneActiveGroup, CoversColumn
<1> QED
  BY <1>5, <1>7, <1>8, <1>9

\* What a form stores: no other one that is looked at is open, and the groups
\* on the same columns have no configuration.
LEMMA SaveKeepsForms ==
  ASSUME FormsInvariant, BalanceTyped', NEW r \in BalRequest, SaveConfig(r)
  PROVE  FormsInvariant'
<1> USE DEF FormsInvariant
<1> DEFINE g == balReq[r].group
<1>1. /\ r \in FormsOpen /\ g \in Group /\ balReq[r].phase \in {"find", "save"}
      /\ BalStep(r, BalIdle) /\ UNCHANGED <<covers, unchecked>>
      /\ \A h \in Group \ {g} : config'[h] = config[h]
  <2>1. balReq[r] \in SaveReq
    BY ShapeAt DEF SaveConfig
  <2> QED
    BY <2>1 DEF SaveConfig, At, FormsOpen, SaveReq, SameRows, BalanceTyped
<1>2. balReq'[r] = BalIdle /\ \A s \in BalRequest \ {r} : balReq'[s] = balReq[s]
  BY <1>1, BalStepHolds DEF BalReq
<1>3. FormsOpen' = FormsOpen \ {r}
  BY <1>2 DEF FormsOpen, BalIdle
<1>4. \A s \in FormsOpen' : s \in BalRequest /\ s # r /\ balReq'[s] = balReq[s]
  BY <1>2, <1>3 DEF FormsOpen
<1>5. FormsApart'
  BY <1>1, <1>3, <1>4 DEF FormsApart
<1> HIDE DEF g
<1>6. ASSUME NEW s \in BalRequest, balReq'[s].phase \in {"configs", "find", "save"}
      PROVE  s \in FormsOpen /\ s # r /\ balReq'[s] = balReq[s]
  BY <1>2, <1>6 DEF FormsOpen, BalIdle
<1>7. PeersKnown'
  <2>1. SUFFICES ASSUME NEW s \in BalRequest, balReq'[s].phase = "configs"
                 PROVE  balReq'[s] = balReq[s]
    BY <1>1 DEF PeersKnown, At, Rivals, Sharing
  <2> QED
    BY <1>6, <2>1
<1>8. RivalsOff'
  <2>1. SUFFICES ASSUME NEW s \in BalRequest, balReq'[s].phase \in {"find", "save"}, NEW h \in Rivals(balReq'[s].group)
                 PROVE  config'[h] = NoRow
    BY <1>1 DEF RivalsOff, Rivals, Sharing
  <2>2. s \in FormsOpen /\ s # r /\ balReq'[s] = balReq[s]
    BY <1>6, <2>1
  <2>3. config[h] = NoRow /\ h \in Group \ unchecked /\ balReq[s].group \notin unchecked
    BY <2>1, <2>2 DEF RivalsOff, Rivals
  <2>4. h # g
    BY <1>1, <2>2, <2>3 DEF FormsApart, g
  <2> QED
    BY <1>1, <2>3, <2>4
<1>9. OneActiveGroup'
  <2>1. SUFFICES ASSUME NEW a \in Group \ unchecked, NEW b \in Group \ unchecked, a # b,
                        config'[a] # NoRow, config'[b] # NoRow, NEW c \in Column,
                        CoversColumn(a, c), CoversColumn(b, c)
                 PROVE  FALSE
    BY <1>1 DEF OneActiveGroup, CoversColumn
  <2>2. ASSUME NEW h \in Group \ unchecked, h # g, g \notin unchecked, config'[h] # NoRow,
               CoversColumn(g, c), CoversColumn(h, c)
        PROVE  FALSE
    <3>1. h \in Rivals(g)
      BY <1>1, <2>2, SharingIs DEF Rivals
    <3>2. config[h] = NoRow
      BY <1>1, <3>1 DEF RivalsOff, g
    <3> QED
      BY <1>1, <2>2, <3>2
  <2>3. CASE a # g /\ b # g
    <3>1. config[a] # NoRow /\ config[b] # NoRow
      BY <1>1, <2>1, <2>3
    <3>2. config[a].active /\ config[b].active
      BY <3>1 DEF BalanceTyped, ActiveConfig
    <3> QED
      BY <2>1, <3>1, <3>2 DEF OneActiveGroup
  <2> QED
    BY <2>1, <2>2, <2>3
<1> QED
  BY <1>5, <1>7, <1>8, <1>9

LEMMA FormsKeepForms ==
  ASSUME FormsInvariant, BalanceTyped', NEW r \in BalRequest, Forms(r)
  PROVE  FormsInvariant'
<1> DEFINE q == balReq[r]
<1>1. BalanceTyped
  BY DEF FormsInvariant
<1>2. BalIdle \in BalReq /\ BalIdle.phase = "none"
  BY DEF BalReq, BalIdle
<1>3. ASSUME FindPeers(r) PROVE FormsInvariant'
  <2>1. q \in BalFormReq /\ r \in FormsOpen
    BY <1>1, <1>3, ShapeAt DEF FindPeers, At, FormsOpen
  <2> DEFINE peers == {h \in Group \ {q.group} :
                         covers[q.group] # NoRow /\ covers[h] # NoRow
                         /\ columnsOverlap(covers[q.group], covers[h])}
             n == [phase |-> "configs", group |-> q.group, alg |-> q.alg, on |-> q.on, peers |-> peers]
  <2>2. BalStep(r, n) /\ UNCHANGED <<covers, config, unchecked>>
    BY <1>3 DEF FindPeers, SameRows
  <2>3. Rivals(q.group) \subseteq peers /\ peers \in SUBSET Group
    BY DEF Rivals, Sharing
  <2> HIDE DEF peers
  <2>4. n \in BalReq
    BY <2>1, <2>3 DEF BalReq, BalFormReq, PeersReq
  <2>5. n.phase = "configs" /\ n.group = q.group /\ n.on = q.on /\ n.peers = peers
    OBVIOUS
  <2> HIDE DEF n
  <2> QED
    BY <2>1, <2>2, <2>3, <2>4, <2>5, FormGoesOn
<1>4. ASSUME PeersOff(r) PROVE FormsInvariant'
  <2>1. q \in PeersReq /\ r \in FormsOpen
    BY <1>1, <1>4, ShapeAt DEF PeersOff, At, FormsOpen
  <2> DEFINE n == [phase |-> "find", group |-> q.group, alg |-> q.alg, on |-> q.on]
  <2>2. UNCHANGED <<covers, config, unchecked>>
    BY <1>4 DEF PeersOff, SameRows
  <2>3. CASE BalStep(r, BalIdle)
    BY <1>2, <2>1, <2>2, <2>3, FormGoesOn
  <2>4. CASE BalStep(r, n) /\ ~\E h \in q.peers : config[h] # NoRow /\ config[h].active
    <3>1. n \in BalReq /\ n.phase = "find" /\ n.group = q.group /\ n.on = q.on
      BY <2>1 DEF BalReq, PeersReq, BalFormReq
    <3>2. \A h \in Rivals(q.group) : config[h] = NoRow
      <4>1. Rivals(q.group) \subseteq q.peers /\ Rivals(q.group) \subseteq Group
        BY <1>4 DEF FormsInvariant, PeersKnown, PeersOff, Rivals
      <4>2. \A h \in Group : config[h] # NoRow => config[h].active
        BY <1>1 DEF BalanceTyped, ActiveConfig
      <4> QED
        BY <2>4, <4>1, <4>2
    <3> HIDE DEF n
    <3> QED
      BY <2>1, <2>2, <2>4, <3>1, <3>2, FormGoesOn
  <2> QED
    BY <1>4, <2>3, <2>4 DEF PeersOff
<1>5. ASSUME FindConfig(r) PROVE FormsInvariant'
  <2>1. q \in BalFormReq /\ r \in FormsOpen /\ q.phase \in {"find", "save"}
    BY <1>1, <1>5, ShapeAt DEF FindConfig, At, FormsOpen
  <2> DEFINE n(cfg) == [phase |-> "save", group |-> q.group, on |-> q.on, cfg |-> cfg]
  <2>2. UNCHANGED <<covers, config, unchecked>>
    BY <1>5 DEF FindConfig, SameRows
  <2>3. CASE BalStep(r, BalIdle)
    BY <1>2, <2>1, <2>2, <2>3, FormGoesOn
  <2>4. ASSUME NEW cfg, BalStep(r, n(cfg)) PROVE FormsInvariant'
    <3>1. n(cfg).phase = "save" /\ n(cfg).group = q.group /\ n(cfg).on = q.on
      OBVIOUS
    <3>2. n(cfg) \in BalReq
      BY <1>1, <2>4 DEF BalStep, BalanceTyped
    <3>3. \A h \in Rivals(q.group) : config[h] = NoRow
      BY <2>1 DEF FormsInvariant, RivalsOff
    <3> HIDE DEF n
    <3> QED
      BY <2>1, <2>2, <2>4, <3>1, <3>2, <3>3, FormGoesOn
  <2> QED
    BY <1>5, <2>3, <2>4 DEF FindConfig
<1> QED
  BY <1>3, <1>4, <1>5, NewFormKeeps, SaveKeepsForms DEF Forms

\* Every step of a firm keeps one group for a column.
LEMMA FormsNext ==
  RightsInvariant /\ FormsInvariant /\ BalanceTyped' /\ [FirmNext]_firmVars => FormsInvariant'
<1> SUFFICES ASSUME RightsInvariant, FormsInvariant, BalanceTyped', [FirmNext]_firmVars PROVE FormsInvariant'
  OBVIOUS
<1>0. BalanceTyped
  BY DEF FormsInvariant
<1>1. ASSUME UNCHANGED <<balReq, unchecked>>,
             \A h \in Group : covers'[h] = covers[h] \/ covers'[h] = NoRow,
             \A h \in Group : config'[h] = config[h] \/ config'[h] = NoRow
      PROVE  FormsInvariant'
  <2>1. FormsOpen' = FormsOpen
    BY <1>1 DEF FormsOpen
  <2> QED
    BY <1>1, <2>1, QuietKeepsForms
<1>2. CASE UNCHANGED <<balReq, unchecked, covers, config>>
  BY <1>1, <1>2
<1>3. ASSUME NEW r \in GroupRequest, RightsChange(r), OthersChange PROVE FormsInvariant'
  <2>1. /\ config' = config \/ \E g \in Group : config' = Without(config, g)
        /\ covers' = covers \/ \E g \in Group : covers' = Without(covers, g)
    BY <1>0, <1>3, GroupsTakeTheirRows
  <2>2. DOMAIN config = Group /\ DOMAIN covers = Group
    BY DEF RightsInvariant, GroupsTyped
  <2>3. \A h \in Group : config'[h] = config[h] \/ config'[h] = NoRow
    BY <2>1, <2>2 DEF Without
  <2>4. \A h \in Group : covers'[h] = covers[h] \/ covers'[h] = NoRow
    BY <2>1, <2>2 DEF Without
  <2>5. UNCHANGED <<balReq, unchecked>>
    BY <1>3 DEF OthersChange
  <2> QED
    BY <1>1, <2>3, <2>4, <2>5
<1>4. UNCHANGED firmVars \/ (MemberNext /\ UNCHANGED groupVars /\ OthersChange) =>
        UNCHANGED <<balReq, unchecked, covers, config>>
  BY DEF firmVars, balVars, groupVars, groupRows, OthersChange
<1> QED
  BY <1>0, <1>2, <1>3, <1>4, ColumnsKeepForms, PicksKeepForms, FormsKeepForms
  DEF FirmNext, Assignments, SetGroupFunnelsHTML

-----------------------------------------------------------------------------
(* Turns are even.                                                         *)

\* The turns of a group are even, unless nobody had one.
EvenIn(g) ==
  \/ turns[g] = NoTurns[g]
  \/ /\ config[g] # NoRow /\ Team(g) # {}
     /\ Even(Team(g), config[g].last % Cardinality(Team(g)), turns[g])

\* No step of others, and none that leaves members, configurations and turns.
LEMMA TurnsStayEven ==
  ASSUME TurnsEven, NEW g \in Group, turns'[g] = NoTurns[g] \/ UNCHANGED <<turns[g], config[g], Team(g)>>
  PROVE  EvenIn(g)'
<1>1. CASE turns'[g] = NoTurns[g]
  BY <1>1 DEF EvenIn, NoTurns
<1>2. CASE UNCHANGED <<turns[g], config[g], Team(g)>>
  <2>1. EvenIn(g)
    BY DEF TurnsEven, EvenIn
  <2>2. Cardinality(Team(g))' = Cardinality(Team(g))
    BY <1>2
  <2>3. \A u, p : TurnsAway(u, Team(g), p)' = TurnsAway(u, Team(g), p)
    BY <1>2, <2>2 DEF TurnsAway, Index
  <2>4. \A p : Even(Team(g), p, turns[g])' <=> Even(Team(g), p, turns[g])
    BY <1>2, <2>3 DEF Even
  <2> QED
    BY <1>2, <2>1, <2>2, <2>4 DEF EvenIn, NoTurns
<1> QED
  BY <1>1, <1>2

LEMMA NoTurnsAreEven ==
  ASSUME NEW M \in SUBSET Account, NEW p
  PROVE  Even(M, p, [u \in Account |-> 0])
BY DEF Even

\* A turn of the member whose turn it is.
LEMMA TurnKeepsEven ==
  ASSUME BalanceTyped, TurnsEven, NEW r \in BalRequest, RoundRobin(r), NEW g \in Group, UNCHANGED Team(g)
  PROVE  EvenIn(g)'
<1> DEFINE q == balReq[r]
           M == q.members
           i == q.cfg.last
           n == Cardinality(M)
           u == AtIndex(i % n, M)
<1>1. q \in TurnReq
  BY ShapeAt DEF RoundRobin
<1>2. /\ q.group \in Group /\ q.cfg \in ActiveConfig /\ i \in Nat
      /\ M \in SUBSET Account /\ IsFiniteSet(M) /\ M # {}
  BY <1>1 DEF TurnReq, Crew, ActiveConfig
<1>3. CASE turns'[g] = NoTurns[g] \/ UNCHANGED <<turns[g], config[g]>>
  BY <1>3, TurnsStayEven
<1>4. CASE turns'[g] # NoTurns[g] /\ ~UNCHANGED <<turns[g], config[g]>>
  <2>1. g = q.group /\ group[g]
    BY <1>2, <1>4 DEF RoundRobin, Forgets, BalanceTyped
  <2>2. /\ q.cfg = config[g] /\ M = Team(g)
        /\ turns' = [turns EXCEPT ![g][u] = @ + 1]
        /\ config' = [config EXCEPT ![g] = IncrementIndex(q.cfg)]
    <3>1. ~Forgets(g)
      BY <1>2, <1>4 DEF Forgets, BalanceTyped
    <3> QED
      BY <2>1, <3>1 DEF RoundRobin
  <2> DEFINE t == [turns[g] EXCEPT ![u] = @ + 1]
  <2>3. n \in Nat \ {0} /\ i % n \in 0 .. n - 1
    BY <1>2, IndexInList, NextIndex
  <2>4. u \in M /\ Index(u, M) = i % n
    BY <1>2, <2>3, AtIndexIs
  <2>5. turns[g] \in [Account -> Nat]
    BY DEF BalanceTyped
  <2>6. Even(M, i % n, turns[g])
    <3>1. EvenIn(g)
      BY DEF TurnsEven, EvenIn
    <3>2. CASE turns[g] = NoTurns[g]
      BY <1>2, <3>2, NoTurnsAreEven DEF NoTurns
    <3>3. CASE turns[g] # NoTurns[g]
      BY <2>2, <3>1, <3>3 DEF EvenIn
    <3> QED
      BY <3>2, <3>3
  <2>7. Even(M, (i + 1) % n, t)
    BY <1>2, <2>4, <2>5, <2>6, EvenAfterTurn
  <2>8. turns'[g] = t /\ config'[g] = IncrementIndex(q.cfg)
    BY <2>2 DEF BalanceTyped
  <2>9. config'[g].last = i + 1 /\ config'[g] \in ActiveConfig
    BY <1>2, <2>8, NextConfig
  <2>10. config'[g] # NoRow
    BY <2>9 DEF ActiveConfig, Config
  <2>11. Team(g)' = M
    BY <2>2
  <2> HIDE DEF M, t, i, u
  <2>12. Team(g)' # {} /\ Even(Team(g)', config'[g].last % Cardinality(Team(g)'), turns'[g])
    BY <1>2, <2>7, <2>8, <2>9, <2>11
  <2> QED
    BY <2>10, <2>12 DEF EvenIn, Even, TurnsAway, Index
<1> QED
  BY <1>3, <1>4

\* Every step of a firm keeps the turns even.
LEMMA TurnsNext == RightsInvariant /\ BalanceTyped /\ TurnsEven /\ [FirmNext]_firmVars => TurnsEven'
<1> SUFFICES ASSUME RightsInvariant, BalanceTyped, TurnsEven, [FirmNext]_firmVars, NEW g \in Group
             PROVE  EvenIn(g)'
  BY DEF TurnsEven, EvenIn
<1>1. CASE OthersChange
  <2>1. turns'[g] = NoTurns[g] \/ UNCHANGED <<turns[g], config[g], Team(g)>>
    BY <1>1 DEF OthersChange, TurnsRestart
  <2> QED
    BY <2>1, TurnsStayEven
<1>2. ASSUME UNCHANGED <<memberVars, userGroup>> PROVE UNCHANGED Team(g)
  BY <1>2 DEF memberVars, memberRows, Team, GroupMembers, InGroup, BelongsToFirm, ListTenantUsers
<1>3. CASE UNCHANGED firmVars
  BY <1>2, <1>3, TurnsStayEven DEF firmVars, groupVars, groupRows, balVars
<1>4. ASSUME UNCHANGED memberVars, NEW h \in Group, NEW cs, AssignColumns(h, cs) PROVE EvenIn(g)'
  BY <1>2, <1>4, TurnsStayEven DEF AssignColumns, SetGroupFunnel
<1>5. ASSUME UNCHANGED memberVars, NEW r \in BalRequest, Forms(r) \/ Picks(r) PROVE EvenIn(g)'
  <2>1. UNCHANGED Team(g)
    BY <1>2, <1>5 DEF Forms, SetByGroup, FindPeers, PeersOff, FindConfig, SaveConfig, Picks, PickForFunnel, FindActive,
       ChooseGroup, FindMembers, RoundRobin, LeastLoaded, Random, PickFails, CreateLeadFor, SameRows
  <2>2. CASE RoundRobin(r)
    BY <2>1, <2>2, TurnKeepsEven, TurnsStayEven
  <2>3. CASE SaveConfig(r)
    <3>1. balReq[r].group \in Group
      BY <2>3, ShapeAt DEF SaveConfig, SaveReq
    <3>2. turns'[g] = NoTurns[g] \/ UNCHANGED <<turns[g], config[g]>>
      BY <2>3, <3>1 DEF SaveConfig, Forgets, BalanceTyped
    <3> QED
      BY <2>1, <3>2, TurnsStayEven
  <2>4. CASE ~RoundRobin(r) /\ ~SaveConfig(r)
    <3>1. UNCHANGED <<turns, config>>
      BY <1>5, <2>4 DEF Forms, SetByGroup, FindPeers, PeersOff, FindConfig, Picks, PickForFunnel, FindActive,
         ChooseGroup, FindMembers, LeastLoaded, Random, PickFails, CreateLeadFor
    <3> QED
      BY <2>1, <3>1, TurnsStayEven
  <2> QED
    BY <2>2, <2>3, <2>4
<1> QED
  BY <1>1, <1>3, <1>4, <1>5 DEF FirmNext, Assignments, SetGroupFunnelsHTML

-----------------------------------------------------------------------------
(* Loads stay close.                                                       *)

LEMMA ComingType ==
  ASSUME NEW u
  PROVE  /\ Coming(u) \in Nat /\ Coming(u) <= Cardinality(BalRequest) /\ Cardinality(BalRequest) \in Nat
         /\ IsFiniteSet({r \in BalRequest : At(r, "picked") /\ balReq[r].user = u})
<1> DEFINE S == {r \in BalRequest : At(r, "picked") /\ balReq[r].user = u}
<1>1. IsFiniteSet(BalRequest) /\ S \in SUBSET BalRequest
  OBVIOUS
<1>2. IsFiniteSet(S) /\ Cardinality(S) <= Cardinality(BalRequest)
  BY <1>1, FS_Subset
<1>3. Cardinality(S) \in Nat /\ Cardinality(BalRequest) \in Nat
  BY <1>1, <1>2, FS_CardinalityType
<1> QED
  BY <1>2, <1>3 DEF Coming

\* Nobody was picked, or the one picked had no more than the others then.
LEMMA PickKeepsClose ==
  ASSUME BalanceTyped, BalanceTyped', LoadsStayClose, UNCHANGED lead,
         NEW r \in BalRequest, ~At(r, "picked"), \A s \in BalRequest \ {r} : balReq'[s] = balReq[s],
         \/ balReq'[r].phase # "picked" /\ UNCHANGED beside
         \/ \E w \in Account : \E among :
              /\ balReq'[r].user = w /\ beside' = [beside EXCEPT ![w] = @ \cap among]
              /\ \A v \in among : Load(w) <= Load(v)
  PROVE  LoadsStayClose'
<1> SUFFICES ASSUME NEW u \in Account, NEW v \in beside'[u]
             PROVE  (Load(u) + Coming(u) <= Load(v) + Cardinality(BalRequest))'
  BY DEF LoadsStayClose
<1>1. \A w : Load(w)' = Load(w)
  BY DEF Load
<1>2. beside \in [Account -> SUBSET Account] /\ beside' \in [Account -> SUBSET Account]
  BY DEF BalanceTyped
<1>3. v \in Account /\ v \in beside[u]
  <2>1. beside' = beside \/ \E w, among : beside' = [beside EXCEPT ![w] = @ \cap among]
    OBVIOUS
  <2> QED
    BY <1>2, <2>1
<1>4. /\ Load(u) \in Nat /\ Load(v) \in Nat
      /\ Coming(u) \in Nat /\ Coming(u)' \in Nat /\ Coming(u)' <= Cardinality(BalRequest)
      /\ Cardinality(BalRequest) \in Nat
  <2>1. Load(u) \in Nat /\ Load(v) \in Nat
    BY LoadType DEF BalanceTyped
  <2>2. Coming(u) \in Nat /\ Cardinality(BalRequest) \in Nat
    BY ComingType
  <2>3. (Coming(u) \in Nat /\ Coming(u) <= Cardinality(BalRequest))'
    BY ComingType, PTL
  <2> QED
    BY <2>1, <2>2, <2>3
<1>5. CASE balReq'[r].phase = "picked" /\ balReq'[r].user = u
  <2>1. PICK among : beside' = [beside EXCEPT ![u] = @ \cap among] /\ \A w \in among : Load(u) <= Load(w)
    BY <1>5
  <2>2. v \in among
    BY <1>2, <2>1
  <2> QED
    BY <1>1, <1>4, <2>1, <2>2
<1>6. CASE ~(balReq'[r].phase = "picked" /\ balReq'[r].user = u)
  <2> DEFINE S == {s \in BalRequest : At(s, "picked") /\ balReq[s].user = u}
  <2>1. S' = S
    BY <1>6 DEF At
  <2>2. Coming(u)' = Coming(u)
    BY <2>1 DEF Coming
  <2>3. Load(u) + Coming(u) <= Load(v) + Cardinality(BalRequest)
    BY <1>3 DEF LoadsStayClose
  <2> QED
    BY <1>1, <2>2, <2>3
<1> QED
  BY <1>5, <1>6

\* One more lead of an account is one less on its way.
LEMMA LeadKeepsClose ==
  ASSUME BalanceTyped, BalanceTyped', LoadsStayClose, NEW r \in BalRequest, CreateLeadFor(r)
  PROVE  LoadsStayClose'
<1> DEFINE w == balReq[r].user
<1>1. /\ At(r, "picked") /\ BalStep(r, BalIdle) /\ UNCHANGED beside
      /\ lead' = lead \/ lead' = Append(lead, w)
  BY DEF CreateLeadFor
<1>2. balReq'[r] = BalIdle /\ \A s \in BalRequest \ {r} : balReq'[s] = balReq[s]
  BY <1>1, BalStepHolds DEF BalReq
<1>3. \A u : u # w => Coming(u)' = Coming(u)
  <2>1. SUFFICES ASSUME NEW u, u # w
                 PROVE  {s \in BalRequest : At(s, "picked") /\ balReq[s].user = u}'
                        = {s \in BalRequest : At(s, "picked") /\ balReq[s].user = u}
    BY DEF Coming
  <2> QED
    BY <1>2, <2>1 DEF At, BalIdle
<1>4. ASSUME NEW u, u = w PROVE Coming(u)' = Coming(u) - 1
  <2> DEFINE S == {s \in BalRequest : At(s, "picked") /\ balReq[s].user = u}
  <2>1. S' = S \ {r} /\ r \in S
    BY <1>1, <1>2, <1>4 DEF At, BalIdle
  <2>2. IsFiniteSet(S)
    BY ComingType
  <2>3. Cardinality(S \ {r}) = Cardinality(S) - 1
    BY <2>1, <2>2, FS_RemoveElement
  <2> QED
    BY <2>1, <2>3 DEF Coming
<1>5. lead \in Seq(Account) /\ w \in Account
  BY <1>1, ShapeAt DEF BalanceTyped, PickedReq
<1>6. ASSUME NEW u PROVE Load(u)' = Load(u) \/ (u = w /\ Load(u)' = Load(u) + 1)
  <2> DEFINE S == {i \in DOMAIN lead : lead[i] = u}
             n == Len(lead) + 1
  <2>1. IsFiniteSet(S) /\ Load(u) = Cardinality(S)
    BY <1>5, LoadType DEF Load
  <2>2. CASE lead' = lead
    BY <2>2 DEF Load
  <2>3. CASE lead' = Append(lead, w)
    <3>1. n \notin S /\ S' = IF u = w THEN S \cup {n} ELSE S
      BY <1>5, <2>3
    <3>2. Cardinality(S \cup {n}) = Cardinality(S) + 1
      BY <2>1, <3>1, FS_AddElement
    <3>3. Load(u)' = Cardinality(S')
      BY DEF Load
    <3> HIDE DEF S, n
    <3> QED
      BY <2>1, <3>1, <3>2, <3>3
  <2> QED
    BY <1>1, <2>2, <2>3
<1>7. SUFFICES ASSUME NEW u \in Account, NEW v \in beside[u]
               PROVE  (Load(u) + Coming(u) <= Load(v) + Cardinality(BalRequest))'
  BY <1>1 DEF LoadsStayClose
<1>8. v \in Account
  BY DEF BalanceTyped
<1>9. Load(u) \in Nat /\ Load(v) \in Nat /\ Coming(u) \in Nat /\ Cardinality(BalRequest) \in Nat
  BY <1>5, LoadType, ComingType
<1>10. Load(u) + Coming(u) <= Load(v) + Cardinality(BalRequest)
  BY <1>7 DEF LoadsStayClose
<1>11. Load(u)' + Coming(u)' <= Load(u) + Coming(u) /\ Load(v)' >= Load(v)
  <2>1. Load(v)' >= Load(v)
    BY <1>6, <1>9
  <2>2. CASE u = w
    <3>1. Coming(u)' = Coming(u) - 1
      BY <1>4, <2>2
    <3>2. Load(u)' = Load(u) \/ Load(u)' = Load(u) + 1
      BY <1>6
    <3> QED
      BY <1>9, <2>1, <3>1, <3>2
  <2>3. CASE u # w
    BY <1>3, <1>6, <1>9, <2>1, <2>3
  <2> QED
    BY <2>2, <2>3
<1>12. Load(u)' \in Int /\ Load(v)' \in Int /\ Coming(u)' \in Int
  <2>1. Load(u)' \in Int /\ Load(v)' \in Int
    BY <1>6, <1>9
  <2>2. Coming(u)' \in Int
    BY <1>3, <1>4, <1>9
  <2> QED
    BY <2>1, <2>2
<1> QED
  BY <1>9, <1>10, <1>11, <1>12

\* Every step of a firm keeps the loads close.
LEMMA LoadsNext ==
  BalanceTyped /\ BalanceTyped' /\ LoadsStayClose /\ [FirmNext]_firmVars => LoadsStayClose'
<1> SUFFICES ASSUME BalanceTyped, BalanceTyped', LoadsStayClose, [FirmNext]_firmVars PROVE LoadsStayClose'
  OBVIOUS
<1>1. CASE UNCHANGED <<lead, balReq, beside>>
  BY <1>1 DEF LoadsStayClose, Load, Coming, At
<1>2. ASSUME NEW r \in BalRequest, NEW u \in Account, NEW among, Picked(r, u, among), UNCHANGED lead, ~At(r, "picked"),
             \A v \in among : Load(u) <= Load(v)
      PROVE  LoadsStayClose'
  <2>1. [phase |-> "picked", user |-> u] \in BalReq
    BY DEF BalReq, PickedReq
  <2>2. balReq'[r].user = u /\ \A s \in BalRequest \ {r} : balReq'[s] = balReq[s]
    BY <1>2, <2>1, BalStepHolds DEF Picked
  <2>3. beside' = [beside EXCEPT ![u] = @ \cap among]
    BY <1>2 DEF Picked
  <2> QED
    BY <1>2, <2>2, <2>3, PickKeepsClose
<1>3. ASSUME NEW r \in BalRequest, FallbackToOwner(r), UNCHANGED lead, ~At(r, "picked") PROVE LoadsStayClose'
  BY <1>2, <1>3, OwnerIs DEF FallbackToOwner
<1>4. ASSUME NEW r \in BalRequest, NEW q, BalStep(r, q), q.phase # "picked", UNCHANGED <<lead, beside>>, ~At(r, "picked")
      PROVE  LoadsStayClose'
  <2>1. balReq'[r] = q /\ \A s \in BalRequest \ {r} : balReq'[s] = balReq[s]
    BY <1>4 DEF BalStep, BalanceTyped
  <2> QED
    BY <1>4, <2>1, PickKeepsClose
<1>5. ASSUME NEW r \in BalRequest, Forms(r) PROVE LoadsStayClose'
  <2>1. UNCHANGED <<lead, beside>> /\ ~At(r, "picked")
    <3>1. UNCHANGED <<lead, beside>>
      BY <1>5 DEF Forms, SetByGroup, FindPeers, PeersOff, FindConfig, SaveConfig
    <3>2. ASSUME NEW g \in Group, NEW alg \in BalanceForm, NEW on \in BOOLEAN, SetByGroup(r, g, alg, on)
          PROVE  balReq[r].phase = "none"
      BY <3>2 DEF SetByGroup, Waits, BalIdle
    <3>3. FindPeers(r) \/ PeersOff(r) \/ FindConfig(r) \/ SaveConfig(r) => balReq[r].phase # "picked"
      BY DEF FindPeers, PeersOff, FindConfig, SaveConfig, At
    <3> QED
      BY <1>5, <3>1, <3>2, <3>3 DEF At, Forms
  <2>2. \E q : BalStep(r, q) /\ q.phase # "picked"
    <3>1. BalIdle.phase = "none"
      BY DEF BalIdle
    <3>2. ASSUME NEW g \in Group, NEW alg \in BalanceForm, NEW on \in BOOLEAN, SetByGroup(r, g, alg, on)
          PROVE  \E q : BalStep(r, q) /\ q.phase # "picked"
      BY <3>2 DEF SetByGroup
    <3>3. FindPeers(r) => \E q : BalStep(r, q) /\ q.phase # "picked"
      BY DEF FindPeers
    <3>4. PeersOff(r) => \E q : BalStep(r, q) /\ q.phase # "picked"
      BY <3>1 DEF PeersOff
    <3>5. FindConfig(r) => \E q : BalStep(r, q) /\ q.phase # "picked"
      BY <3>1 DEF FindConfig
    <3>6. SaveConfig(r) => \E q : BalStep(r, q) /\ q.phase # "picked"
      BY <3>1 DEF SaveConfig
    <3> QED
      BY <1>5, <3>2, <3>3, <3>4, <3>5, <3>6 DEF Forms
  <2> QED
    BY <1>4, <2>1, <2>2
<1>6. ASSUME NEW r \in BalRequest, Picks(r) PROVE LoadsStayClose'
  <2>1. ASSUME NEW c \in Column, PickForFunnel(r, c) PROVE LoadsStayClose'
    <3> DEFINE q == [phase |-> "picking", left |-> {g \in Group : CoversColumn(g, c)}, on |-> {}]
    <3>1. q.phase # "picked"
      OBVIOUS
    <3>2. BalStep(r, q) /\ UNCHANGED <<lead, beside>> /\ ~At(r, "picked")
      BY <2>1 DEF PickForFunnel, Waits, At, BalIdle
    <3> HIDE DEF q
    <3> QED
      BY <1>4, <3>1, <3>2
  <2>2. ASSUME NEW g \in Group, FindActive(r, g) PROVE LoadsStayClose'
    <3>1. balReq[r] \in PickingReq /\ balReq[r].phase = "picking"
      BY <2>2, ShapeAt DEF FindActive, At
    <3>2. PICK found : BalStep(r, [balReq[r] EXCEPT !.left = @ \ {g}, !.on = @ \cup found])
      BY <2>2 DEF FindActive
    <3>3. [balReq[r] EXCEPT !.left = @ \ {g}, !.on = @ \cup found].phase = "picking"
      BY <3>1 DEF PickingReq
    <3>4. UNCHANGED <<lead, beside>> /\ ~At(r, "picked")
      BY <2>2, <3>1 DEF FindActive, At
    <3> DEFINE q == [balReq[r] EXCEPT !.left = @ \ {g}, !.on = @ \cup found]
    <3>5. BalStep(r, q) /\ q.phase # "picked"
      BY <3>2, <3>3
    <3> HIDE DEF q
    <3> QED
      BY <1>4, <3>4, <3>5
  <2>3. ASSUME ChooseGroup(r) PROVE LoadsStayClose'
    <3>1. UNCHANGED lead /\ ~At(r, "picked")
      BY <2>3 DEF ChooseGroup, At
    <3>2. CASE FallbackToOwner(r)
      BY <1>3, <3>1, <3>2
    <3>3. CASE ~FallbackToOwner(r)
      <4>1. PICK g, cfg : BalStep(r, [phase |-> "members", group |-> g, cfg |-> cfg]) /\ UNCHANGED beside
        BY <2>3, <3>3 DEF ChooseGroup
      <4>2. [phase |-> "members", group |-> g, cfg |-> cfg].phase # "picked"
        OBVIOUS
      <4> QED
        BY <1>4, <3>1, <4>1, <4>2
    <3> QED
      BY <3>2, <3>3
  <2>4. ASSUME FindMembers(r) PROVE LoadsStayClose'
    <3>1. UNCHANGED lead /\ ~At(r, "picked")
      BY <2>4 DEF FindMembers, At
    <3>2. CASE FallbackToOwner(r)
      BY <1>3, <3>1, <3>2
    <3>3. CASE ~FallbackToOwner(r)
      <4>1. PICK g, cfg, M :
              BalStep(r, [phase |-> "turn", group |-> g, cfg |-> cfg, members |-> M]) /\ UNCHANGED beside
        BY <2>4, <3>3 DEF FindMembers
      <4>2. [phase |-> "turn", group |-> g, cfg |-> cfg, members |-> M].phase # "picked"
        OBVIOUS
      <4> QED
        BY <1>4, <3>1, <4>1, <4>2
    <3> QED
      BY <3>2, <3>3
  <2>5. ASSUME RoundRobin(r) PROVE LoadsStayClose'
    <3> DEFINE u == AtIndex(balReq[r].cfg.last % Cardinality(balReq[r].members), balReq[r].members)
    <3>1. UNCHANGED lead /\ ~At(r, "picked")
      BY <2>5 DEF RoundRobin, At
    <3>2. FallbackToOwner(r) \/ Picked(r, u, {})
      BY <2>5 DEF RoundRobin
    <3>3. u \in Account
      BY <2>5, PickedByTurn
    <3> HIDE DEF u
    <3> QED
      BY <1>2, <1>3, <3>1, <3>2, <3>3
  <2>6. ASSUME LeastLoaded(r) PROVE LoadsStayClose'
    <3> DEFINE M == balReq[r].members
    <3>1. UNCHANGED lead /\ ~At(r, "picked") /\ Picked(r, LeastLoad(M), M)
      BY <2>6 DEF LeastLoaded, At
    <3>2. M \in SUBSET Account /\ M # {}
      BY <2>6, ShapeAt DEF LeastLoaded, TurnReq, Crew
    <3>3. LeastLoad(M) \in Account /\ \A v \in M : Load(LeastLoad(M)) <= Load(v)
      BY <3>2, LeastLoadIs DEF BalanceTyped
    <3> QED
      BY <1>2, <3>1, <3>3
  <2>7. ASSUME Random(r) PROVE LoadsStayClose'
    <3>1. balReq[r].members \subseteq Account
      BY <2>7, ShapeAt DEF Random, TurnReq, Crew
    <3>2. UNCHANGED lead /\ ~At(r, "picked") /\ \E u \in balReq[r].members : Picked(r, u, {})
      BY <2>7 DEF Random, At
    <3> QED
      BY <1>2, <3>1, <3>2
  <2>8. ASSUME PickFails(r) PROVE LoadsStayClose'
    BY <1>3, <2>8 DEF PickFails, At
  <2> QED
    BY <1>6, <2>1, <2>2, <2>3, <2>4, <2>5, <2>6, <2>7, <2>8, LeadKeepsClose DEF Picks
<1>7. ASSUME NEW g \in Group, NEW cs, AssignColumns(g, cs) PROVE LoadsStayClose'
  BY <1>1, <1>7 DEF AssignColumns, SetGroupFunnel
<1>8. CASE OthersChange \/ UNCHANGED firmVars
  BY <1>1, <1>8 DEF OthersChange, firmVars, balVars
<1> QED
  BY <1>5, <1>6, <1>7, <1>8 DEF FirmNext, Assignments, SetGroupFunnelsHTML

-----------------------------------------------------------------------------
\* Round robin stays even and least load close, and no column has two groups
\* on, for any number of accounts, groups, columns and overlapping requests,
\* while members come and go.
THEOREM BalanceStaysSound == FirmSpec => []BalanceIsSound
<1>1. GroupInit /\ BalanceInit => RightsInvariant
  BY DEF GroupInit, BalanceInit, RightsInvariant, GroupsTyped, GroupRow, GroupReq, GroupIdle, QuestionsHold, Noted,
     SeesNow, FairAnswer, Asking, NothingOfDeletedGroups
<1>2. GroupInit /\ BalanceInit => BalanceInvariant
  <2> SUFFICES ASSUME GroupInit, BalanceInit PROVE BalanceInvariant
    OBVIOUS
  <2>1. BalanceTyped
    BY FS_EmptySet DEF GroupInit, BalanceInit, BalanceTyped, NoTurns, BalReq
  <2>2. FormsOpen = {} /\ \A r \in BalRequest : balReq[r].phase = "none"
    BY DEF BalanceInit, BalIdle, FormsOpen
  <2>3. FormsApart /\ PeersKnown /\ RivalsOff /\ OneActiveGroup
    BY <2>2 DEF FormsApart, PeersKnown, RivalsOff, OneActiveGroup, At, BalanceInit
  <2>4. TurnsEven
    BY DEF BalanceInit, TurnsEven
  <2>5. LoadsStayClose
    <3>1. ASSUME NEW u \in Account PROVE Load(u) + Coming(u) <= Cardinality(BalRequest) /\ Load(u) = 0
      <4>1. {i \in DOMAIN lead : lead[i] = u} = {}
        BY DEF BalanceInit
      <4>2. Load(u) = 0
        BY <4>1, FS_EmptySet DEF Load
      <4>3. Coming(u) \in Nat /\ Coming(u) <= Cardinality(BalRequest)
        BY ComingType
      <4> QED
        BY <4>2, <4>3
    <3>2. Cardinality(BalRequest) \in Nat /\ \A u \in Account : beside[u] \subseteq Account
      BY ComingType, <2>1 DEF BalanceTyped
    <3> QED
      BY <3>1, <3>2 DEF LoadsStayClose
  <2> QED
    BY <2>1, <2>3, <2>4, <2>5 DEF BalanceInvariant
<1>3. RightsInvariant /\ BalanceInvariant /\ [FirmNext]_firmVars => BalanceInvariant'
  <2> SUFFICES ASSUME RightsInvariant, BalanceInvariant, [FirmNext]_firmVars PROVE BalanceInvariant'
    OBVIOUS
  <2>1. BalanceTyped'
    BY BalanceTypedNext DEF BalanceInvariant
  <2>2. FormsInvariant'
    BY <2>1, FormsNext DEF BalanceInvariant, FormsInvariant
  <2>3. TurnsEven' /\ LoadsStayClose'
    BY <2>1, TurnsNext, LoadsNext DEF BalanceInvariant
  <2> QED
    BY <2>2, <2>3 DEF BalanceInvariant, FormsInvariant
<1>4. BalanceInvariant => BalanceIsSound
  <2> SUFFICES ASSUME BalanceInvariant PROVE BalanceIsSound
    OBVIOUS
  <2>1. BalanceTypeOK
    BY ShapeAt DEF BalanceInvariant, BalanceTyped, BalanceTypeOK, ActiveConfig, Config
  <2>2. TurnsAlternate
    <3>1. SUFFICES ASSUME NEW g \in Group, NEW u \in Team(g), NEW v \in Team(g)
                   PROVE  turns[g][u] <= turns[g][v] + 1
      BY DEF TurnsAlternate
    <3>2. u \in Account /\ v \in Account /\ turns[g] \in [Account -> Nat]
      BY DEF BalanceInvariant, BalanceTyped, Team, GroupMembers
    <3>3. CASE turns[g] = NoTurns[g]
      BY <3>2, <3>3 DEF NoTurns
    <3>4. CASE turns[g] # NoTurns[g]
      <4>1. config[g] # NoRow /\ Even(Team(g), config[g].last % Cardinality(Team(g)), turns[g])
        BY <3>4 DEF BalanceInvariant, TurnsEven
      <4>2. config[g].last \in Nat
        BY <4>1 DEF BalanceInvariant, BalanceTyped, ActiveConfig
      <4>3. IsFiniteSet(Team(g)) /\ Team(g) \in SUBSET Account
        BY TeamIsFinite DEF BalanceInvariant, BalanceTyped
      <4> QED
        BY <3>2, <4>1, <4>2, <4>3, EvenIsClose
    <3> QED
      BY <3>3, <3>4
  <2> QED
    BY <2>1, <2>2 DEF BalanceInvariant, BalanceIsSound
<1> QED
  BY <1>1, <1>2, <1>3, <1>4, RightsInductive, PTL DEF FirmSpec

=================================================================================

-------------------------------- MODULE MCAccess --------------------------------
(***************************************************************************)
(* Accounts, groups and load balancing on small instances; part says which *)
(* question a behaviour asks.                                              *)
(***************************************************************************)
EXTENDS LoadBalance, TLC

CONSTANTS adm, own, u1, u2, o1, o2, g1, g2, p1, c1, c2, q1, s1

VARIABLE part
accessVars == <<memberVars, groupVars, balVars, part>>

Owners == [o \in {o1, o2} |-> own]
InOrder == (own :> 1) @@ (u1 :> 2) @@ (u2 :> 3) @@ (adm :> 4)
SetForms == {<<p1>>, <<p1, p1>>, <<None>>}

\* q1 and s1 are told apart.
Symmetry ==
  Permutations(MemberRequest) \cup Permutations(GroupRequest \ {s1}) \cup Permutations(BalRequest \ {q1})

\* u1 and u2 are in g1 and, with part, in the firm; alg balances it.
Teams(alg, cols) ==
  /\ group = [g \in Group |-> TRUE]
  /\ userGroup = {u1, u2} \X {g1}
  /\ covers = [g \in Group |-> IF g = g1 THEN cols ELSE NoRow]
  /\ config = [g \in Group |-> IF g = g1 /\ alg # None THEN NewLoadBalanceConfig(alg) ELSE NoRow]

Parts == {"invites", "sessions", "groups", "permissions", "overlap", "turns", "loads"}

MCInit ==
  /\ part \in Parts
  /\ account = [a \in Account |-> IF part = "invites" /\ a \in {u1, u2} THEN NoRow ELSE "active"]
  /\ office = [o \in Office |-> TRUE]
  /\ membership = {own} \X Office \cup (IF part \in {"turns", "loads"} THEN {u1, u2} \X {o1} ELSE
                                        IF part = "sessions" THEN {<<u1, o1>>} ELSE {})
  /\ invite = [i \in Invite |-> NoRow] /\ session = {}
  /\ memberReq = [r \in MemberRequest |-> MemberIdle]
  /\ everMember = membership /\ admitted = {} /\ revoked = {} /\ acceptRaced = {}
  /\ grant = {} /\ profile = [g \in Group |-> NoRow]
  /\ groupReq = [r \in GroupRequest |-> GroupIdle]
  /\ lead = <<>> /\ balReq = [r \in BalRequest |-> BalIdle] /\ turns = NoTurns /\ unchecked = {}
  /\ beside = [u \in Account |-> Account]
  /\ \/ /\ part \in {"invites", "sessions", "groups", "permissions"}
        /\ group = [g \in Group |-> FALSE] /\ userGroup = {}
        /\ covers = [g \in Group |-> NoRow] /\ config = covers
     \/ part = "overlap" /\ Teams(None, NoRow)
     \/ part = "turns" /\ Teams("round_robin", {})
     \/ part = "loads" /\ Teams("least_load", {c1})

InvitesPart ==
  /\ \/ \E i \in Invite : RevokeInvite(i) \/ IsExpired(i) \/ GenerateInvite(i, o1)
     \/ \E r \in MemberRequest :
          \/ \E i \in Invite, a \in {own, u1, u2} : AcceptInvite(r, i, a)
          \/ ExistsByEmail(r) \/ CreateUser(r) \/ FindMembership(r) \/ Associate(r) \/ SaveInvite(r)
          \/ MemberFails(r)
  /\ UNCHANGED <<groupVars, balVars, part>>
SessionsPart ==
  /\ \/ \E r \in MemberRequest :
          Login(r, u1) \/ AdminLogin(r, adm) \/ FindTenants(r) \/ Selections(r) \/ Removals(r)
     \/ \E s \in {"active", "inactive"} : account[u1] # s /\ changeAdminStatus(u1, s)
     \/ \E o \in Office : BlockOffice(o)
     \/ \E t \in session : Expire(t)
  /\ UNCHANGED <<groupVars, balVars, part>>
\* What changes a group and what is in it.
Changes(r) ==
  \/ GroupsChange(r) \/ GroupFails(r)
  \/ (\E g \in Group : AddMember(r, u1, g) \/ RemoveMember(r, u1, g)) \/ CreateUserGroup(r)
  \/ \E form \in PermissionForm : \E g \in Group : SetGroupPermissions(r, g, form)
  \/ DeleteByResource(r) \/ CreatePermission(r)
GroupsPart ==
  /\ \/ \E r \in GroupRequest : Changes(r) \/ SetViewProfile(r, g1, {c1}) \/ SaveViewProfile(r)
  /\ UNCHANGED <<memberVars, balVars, part>>
\* One request asks, the other one changes what it is asked about.
PermissionsPart ==
  /\ \/ \E u \in {own, u1}, p \in Pair : HasPermission(s1, u, p)
     \/ AskOwner(s1) \/ AskUser(s1) \/ AskGroups(s1) \/ AskGroupGrants(s1)
     \/ \E r \in GroupRequest \ {s1} :
          Changes(r) \/ \E form \in PermissionForm : SetUserPermissions(r, u1, form)
  /\ UNCHANGED <<memberVars, balVars, part>>
OverlapPart ==
  \/ Assignments
  \/ \E r \in BalRequest \ {q1} :
       \/ \E g \in Group, on \in BOOLEAN : SetByGroup(r, g, "random", on)
       \/ FindPeers(r) \/ PeersOff(r) \/ FindConfig(r) \/ SaveConfig(r)
\* One form and two leads, while a member leaves and comes back.
TurnsPart ==
  \/ \E alg \in BalanceForm : SetByGroup(q1, g1, alg, TRUE)
  \/ FindPeers(q1) \/ PeersOff(q1) \/ FindConfig(q1) \/ SaveConfig(q1)
  \/ \E r \in BalRequest \ {q1} : Picks(r)
  \/ /\ RemoveMember(s1, u2, g1) \/ AddMember(s1, u2, g1) \/ CreateUserGroup(s1)
     /\ OthersChange
LoadsPart == \E r \in BalRequest : Picks(r)

MCNext ==
  \/ part = "invites" /\ InvitesPart
  \/ part = "sessions" /\ SessionsPart
  \/ part = "groups" /\ GroupsPart
  \/ part = "permissions" /\ PermissionsPart
  \/ part = "overlap" /\ UNCHANGED <<memberVars, part>> /\ OverlapPart
  \/ part = "turns" /\ UNCHANGED <<memberVars, part>> /\ TurnsPart
  \/ part = "loads" /\ UNCHANGED <<memberVars, part>> /\ LoadsPart
=============================================================================

--------------------------------- MODULE Groups ---------------------------------
(***************************************************************************)
(* The permission groups of one law firm and the question every protected  *)
(* route asks (src/internal/permission).                                   *)
(*                                                                         *)
(* The question is answered from up to four statements, and setting the    *)
(* permissions of a group or of a user is one statement per permission, so *)
(* both interleave with each other and with the changes of the groups.     *)
(***************************************************************************)
EXTENDS Members, FiniteSetsExt, SequencesExt

CONSTANTS
  Group,          \* permission groups
  Firm,           \* the law firm they belong to
  Pair,           \* the resource and action pairs of ValidPermissions
  PermissionForm, \* what a form may send: sequences of pairs
  Column,         \* columns of one funnel
  GroupRequest    \* requests in flight

ASSUME GroupAssumption ==
  /\ Firm \in Office
  /\ \A form \in PermissionForm : form \in Seq(ToSet(form))

VARIABLES
  group,     \* whether the row of permission_groups is there
  userGroup, \* rows of user_groups
  grant,     \* rows of permissions, of a user or of a group
  profile,   \* view_profiles: the columns shown, or NoRow
  covers,    \* group_funnels: the columns assigned, {} for all, or NoRow
  config,    \* load_balance_configs, see LoadBalance
  groupReq   \* requests in flight, and the answers of those that asked

groupRows == <<group, userGroup, grant, profile, covers, config>>
groupVars == <<groupRows, groupReq>>

Subject == Account \cup Group
GroupRow == BOOLEAN
UserGroupRow == Account \X Group
PermissionRow == Subject \X Pair
ViewProfileRow == SUBSET Column
GroupFunnelRow == SUBSET Column
GroupIdle == [phase |-> "none"]
Asking == {"owner", "individual", "groups", "groupGrants"}
GroupPhase ==
  Asking \cup {"none", "answered", "set", "rename", "delete", "join", "clear", "create", "profile"}

GroupTypeOK ==
  /\ group \in [Group -> GroupRow]
  /\ userGroup \subseteq UserGroupRow
  /\ grant \subseteq PermissionRow
  /\ profile \in [Group -> ViewProfileRow \cup {NoRow}]
  /\ covers \in [Group -> GroupFunnelRow \cup {NoRow}]
  /\ \A r \in GroupRequest : groupReq[r].phase \in GroupPhase

GroupInit ==
  /\ group = [g \in Group |-> FALSE]
  /\ userGroup = {} /\ grant = {}
  /\ profile = [g \in Group |-> NoRow]
  /\ covers = [g \in Group |-> NoRow]
  /\ groupReq = [r \in GroupRequest |-> GroupIdle]

-----------------------------------------------------------------------------
\* The subjects that let user u do p.
Sources(grants, members, u, p) ==
  {s \in Subject : <<s, p>> \in grants /\ (s = u \/ (s \in Group /\ <<u, s>> \in members))}
GroupsOf(members, u) == {g \in Group : <<u, g>> \in members}

\* History of the requests that ask: the sources there were at some moment
\* (seen), the ones there were at every moment (steady), and whether the
\* user's groups changed meanwhile.
Watched(q) ==
  IF q.phase \in Asking
  THEN LET now == Sources(grant', userGroup', q.user, q.pair) IN
       [q EXCEPT !.seen = @ \cup now, !.steady = @ \cap now,
                 !.regrouped = @ \/ GroupsOf(userGroup', q.user) # GroupsOf(userGroup, q.user)]
  ELSE q
Becomes(r, q) == groupReq' = [s \in GroupRequest |-> Watched(IF s = r THEN q ELSE groupReq[s])]
Ready(r) == groupReq[r].phase \in {"none", "answered", "set"}
Fails(r) == UNCHANGED groupRows /\ Becomes(r, GroupIdle)

\* A statement fails: the handler returns its error.
GroupFails(r) == "db" \in MemberFaults /\ ~Ready(r) /\ Fails(r)

-----------------------------------------------------------------------------
(* Groups and their members. *)

CreateGroup(r, g) ==
  /\ Ready(r)
  /\ ~group[g]
  /\ group' = [group EXCEPT ![g] = TRUE]
  /\ UNCHANGED <<userGroup, grant, profile, covers, config>>
  /\ Becomes(r, GroupIdle)

\* FindByIDAndTenantID, of an update or of a delete.
FindGroup(r, g, phase) ==
  /\ Ready(r)
  /\ group[g]
  /\ UNCHANGED groupRows
  /\ Becomes(r, [phase |-> phase, group |-> g])

\* Save writes the row again when it was deleted meanwhile.
SaveGroup(r) ==
  /\ groupReq[r].phase = "rename"
  /\ group' = [group EXCEPT ![groupReq[r].group] = TRUE]
  /\ UNCHANGED <<userGroup, grant, profile, covers, config>>
  /\ Becomes(r, GroupIdle)

\* The foreign keys take what hangs on a deleted group with it.
Without(rows, g) == [rows EXCEPT ![g] = NoRow]
GrantsWithout(g) == {x \in grant : x[1] # g}

DeleteGroup(r) ==
  LET g == groupReq[r].group IN
  /\ groupReq[r].phase = "delete"
  /\ group' = [group EXCEPT ![g] = FALSE]
  /\ userGroup' = {x \in userGroup : x[2] # g}
  /\ grant' = GrantsWithout(g)
  /\ profile' = Without(profile, g) /\ covers' = Without(covers, g) /\ config' = Without(config, g)
  /\ Becomes(r, GroupIdle)

\* The group is there and the user is not in it yet.
InGroup(u, g) == <<u, g>> \in userGroup
AddMember(r, u, g) ==
  /\ Ready(r)
  /\ group[g]
  /\ ~InGroup(u, g)
  /\ UNCHANGED groupRows
  /\ Becomes(r, [phase |-> "join", user |-> u, group |-> g])

\* The unique key stops the second of two, the foreign key what has no group.
CreateUserGroup(r) ==
  LET q == groupReq[r] IN
  /\ q.phase = "join"
  /\ userGroup' = IF group[q.group] THEN userGroup \cup {<<q.user, q.group>>} ELSE userGroup
  /\ UNCHANGED <<group, grant, profile, covers, config>>
  /\ Becomes(r, GroupIdle)

\* One delete, which finds nothing wrong with no row.
RemoveMember(r, u, g) ==
  /\ Ready(r)
  /\ userGroup' = userGroup \ {<<u, g>>}
  /\ UNCHANGED <<group, grant, profile, covers, config>>
  /\ Becomes(r, GroupIdle)

-----------------------------------------------------------------------------
(* Permissions. *)

NewPermission(p) == p \in Pair
ValidSubject(s) == s \in Group => group[s]

\* NewPermission for every pair of the form, before any change.
SetPermissions(r, s, form) ==
  /\ Ready(r)
  /\ \A i \in DOMAIN form : NewPermission(form[i])
  /\ UNCHANGED groupRows
  /\ Becomes(r, [phase |-> "clear", subject |-> s, form |-> form, left |-> ToSet(form), rest |-> form])

SetGroupPermissions(r, g, form) == g \in Group /\ SetPermissions(r, g, form)
SetUserPermissions(r, u, form) == u \in Account /\ SetPermissions(r, u, form)

\* The pairs of the form that were there are deleted, one by one.
DeleteByResource(r) ==
  LET q == groupReq[r] IN
  /\ q.phase = "clear"
  /\ UNCHANGED <<group, userGroup, profile, covers, config>>
  /\ \E p \in q.left :
       /\ grant' = grant \ {<<q.subject, p>>}
       /\ Becomes(r, [q EXCEPT !.left = @ \ {p}])

\* Then each is created; a duplicate, or a group that is gone, ends it there.
CreatePermission(r) ==
  LET q == groupReq[r]
      x == <<q.subject, Head(q.rest)>>
  IN /\ q.phase = "clear" /\ q.left = {}
     /\ UNCHANGED <<group, userGroup, profile, covers, config>>
     /\ \/ /\ q.rest = <<>>
           /\ UNCHANGED grant
           /\ Becomes(r, [phase |-> "set", subject |-> q.subject, form |-> q.form])
        \/ /\ q.rest # <<>> /\ x \notin grant /\ ValidSubject(q.subject)
           /\ grant' = grant \cup {x}
           /\ Becomes(r, [q EXCEPT !.rest = Tail(@)])
        \/ /\ q.rest # <<>> /\ (x \in grant \/ ~ValidSubject(q.subject))
           /\ UNCHANGED grant
           /\ Becomes(r, GroupIdle)

-----------------------------------------------------------------------------
(* The columns a group sees and the columns it answers for. *)

\* SetViewProfile finds the row and then writes it or a new one; the unique
\* key makes the second insert an update.
SetViewProfile(r, g, columns) ==
  /\ Ready(r)
  /\ UNCHANGED groupRows
  /\ Becomes(r, [phase |-> "profile", group |-> g, columns |-> columns])
SaveViewProfile(r) ==
  LET q == groupReq[r] IN
  /\ q.phase = "profile"
  /\ profile' = IF group[q.group] THEN [profile EXCEPT ![q.group] = q.columns] ELSE profile
  /\ UNCHANGED <<group, userGroup, grant, covers, config>>
  /\ Becomes(r, GroupIdle)

SetGroupFunnel(g, columns) ==
  /\ group[g]
  /\ covers' = [covers EXCEPT ![g] = columns]
  /\ UNCHANGED <<group, userGroup, grant, profile, config, groupReq>>

-----------------------------------------------------------------------------
(* May user u do p? *)

HasPermission(r, u, p) ==
  /\ Ready(r)
  /\ UNCHANGED groupRows
  /\ Becomes(r, [phase |-> "owner", user |-> u, pair |-> p, groups |-> {}, regrouped |-> FALSE,
                 seen |-> {}, steady |-> Sources(grant, userGroup, u, p)])

Answer(r, may) == Becomes(r, [groupReq[r] EXCEPT !.phase = "answered", !.pair = may])
Asks(r, phase) == groupReq[r].phase = phase

\* Owners and admins may do everything.
IsOwner(u) == u = Owner[Firm]
IsAdmin(u) == u \in Admins
AskOwner(r) ==
  LET q == groupReq[r] IN
  /\ Asks(r, "owner")
  /\ UNCHANGED groupRows
  /\ Becomes(r, IF IsOwner(q.user) \/ IsAdmin(q.user) THEN GroupIdle ELSE [q EXCEPT !.phase = "individual"])

AskUser(r) ==
  LET q == groupReq[r] IN
  /\ Asks(r, "individual")
  /\ UNCHANGED groupRows
  /\ IF <<q.user, q.pair>> \in grant
     THEN Answer(r, TRUE)
     ELSE Becomes(r, [q EXCEPT !.phase = "groups"])

AskGroups(r) ==
  LET q == groupReq[r] IN
  /\ Asks(r, "groups")
  /\ UNCHANGED groupRows
  /\ IF GroupsOf(userGroup, q.user) = {}
     THEN Answer(r, FALSE)
     ELSE Becomes(r, [q EXCEPT !.phase = "groupGrants", !.groups = GroupsOf(userGroup, q.user)])

\* Mutant: the groups are asked for all of the firm.
AllOfThem(gs, p) == \E g \in Group : <<g, p>> \in grant
AnyOfThem(gs, p) == \E g \in gs : <<g, p>> \in grant

AskGroupGrants(r) ==
  LET q == groupReq[r] IN
  /\ Asks(r, "groupGrants")
  /\ UNCHANGED groupRows
  /\ Answer(r, AnyOfThem(q.groups, q.pair))

-----------------------------------------------------------------------------
GroupsChange(r) ==
  \/ \E g \in Group : CreateGroup(r, g) \/ FindGroup(r, g, "rename") \/ FindGroup(r, g, "delete")
  \/ SaveGroup(r) \/ DeleteGroup(r)
MembersChange(r) ==
  \/ \E u \in Account, g \in Group : AddMember(r, u, g) \/ RemoveMember(r, u, g)
  \/ CreateUserGroup(r)
PermissionsChange(r) ==
  \/ \E form \in PermissionForm :
       \/ \E g \in Group : SetGroupPermissions(r, g, form)
       \/ \E u \in Account : SetUserPermissions(r, u, form)
  \/ DeleteByResource(r) \/ CreatePermission(r)
ProfilesChange(r) ==
  (\E g \in Group, cs \in SUBSET Column : SetViewProfile(r, g, cs)) \/ SaveViewProfile(r)
Questions(r) ==
  \/ \E u \in Account, p \in Pair : HasPermission(r, u, p)
  \/ AskOwner(r) \/ AskUser(r) \/ AskGroups(r) \/ AskGroupGrants(r)

-----------------------------------------------------------------------------
Answered(r, may) == groupReq[r].phase = "answered" /\ groupReq[r].pair = may

\* Whoever is let in held the permission at some moment of the question; only
\* somebody moved between groups meanwhile may be let in by a group left and
\* a permission that came later (resolve_permission.go:80, 93).
GrantedWasHeld ==
  \A r \in GroupRequest : Answered(r, TRUE) => groupReq[r].seen # {} \/ groupReq[r].regrouped

\* Whoever is turned away had no source of the permission that stood all
\* along; saving a form again is such a gap (manage_permissions.go:92-105).
DeniedLackedIt == \A r \in GroupRequest : Answered(r, FALSE) => groupReq[r].steady = {}

\* A deleted group leaves nothing behind for a later one: an update under way
\* brings the row back (gorm_permission_group_repository.go:49), empty.
NothingOfDeletedGroups ==
  \A g \in Group : ~group[g] =>
    /\ \A u \in Account : <<u, g>> \notin userGroup
    /\ \A p \in Pair : <<g, p>> \notin grant
    /\ profile[g] = NoRow /\ covers[g] = NoRow /\ config[g] = NoRow

\* What a permission check says is what the rows said at some moment of it,
\* and groups that are gone leave nothing behind.
RightsAreSound == GroupTypeOK /\ GrantedWasHeld /\ DeniedLackedIt /\ NothingOfDeletedGroups
=============================================================================

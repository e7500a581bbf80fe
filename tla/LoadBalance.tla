------------------------------- MODULE LoadBalance -------------------------------
(***************************************************************************)
(* Who answers for a new lead: the load balancing of the groups that cover *)
(* its column (src/internal/auth), read and written back statement by      *)
(* statement, with the owner of the firm as the way out.                   *)
(***************************************************************************)
EXTENDS Groups

CONSTANTS
  UserOrder,   \* where the ID of an account comes in the order of all
  BalanceForm, \* algorithms a form may ask for, valid or not
  BalRequest,  \* requests in flight: forms, and leads that are being created
  MaxLeads     \* bound on the leads

VARIABLES
  lead,     \* who answers for each lead, in the order they were created
  balReq,   \* requests in flight
  turns,    \* history: picks by round robin since a group's configuration or members
            \* changed, or one was picked from a stale copy of them
  beside,   \* history: who was a candidate, too, each time an account was picked, all
            \* of them by least load
  unchecked \* history: groups whose overlap with others was not looked at

balVars == <<lead, balReq, turns, beside, unchecked>>

Algorithm == {"round_robin", "least_load", "random"}
Config == [algorithm : Algorithm, last : Nat, active : BOOLEAN]

ASSUME BalanceAssumption ==
  /\ UserOrder \in [Account -> Nat]
  /\ \A u, v \in Account : UserOrder[u] = UserOrder[v] => u = v
  /\ IsFiniteSet(BalRequest) /\ MaxLeads \in Nat /\ NoRow \notin Config

BalIdle == [phase |-> "none"]
BalPhase ==
  {"none", "peers", "configs", "find", "save", "picking", "members", "turn", "picked"}

BalanceTypeOK ==
  /\ config \in [Group -> Config \cup {NoRow}]
  /\ lead \in Seq(Account)
  /\ \A r \in BalRequest : balReq[r].phase \in BalPhase
  /\ unchecked \subseteq Group

NoTurns == [g \in Group |-> [u \in Account |-> 0]]

BalanceInit ==
  /\ config = [g \in Group |-> NoRow]
  /\ lead = <<>>
  /\ balReq = [r \in BalRequest |-> BalIdle]
  /\ turns = NoTurns /\ unchecked = {}
  /\ beside = [u \in Account |-> Account]

-----------------------------------------------------------------------------
Waits(r) == balReq[r] = BalIdle
BalStep(r, q) == balReq' = [balReq EXCEPT ![r] = q]
At(r, phase) == balReq[r].phase = phase
SameRows == UNCHANGED <<group, userGroup, grant, profile, covers, groupReq>>
Forgets(g) == turns' = [turns EXCEPT ![g] = NoTurns[g]]

\* CoversColumn, and the overlap of two assignments: none means all.
CoversColumn(g, c) == covers[g] # NoRow /\ (covers[g] = {} \/ c \in covers[g])
\* Mutant: an empty assignment is taken for no column.
SharesOne(a, b) == a \cap b # {}
columnsOverlap(a, b) == a = {} \/ b = {} \/ a \cap b # {}

ValidateAlgorithm(alg) == alg \in Algorithm

NewLoadBalanceConfig(alg) == [algorithm |-> alg, last |-> 0, active |-> TRUE]

\* GORM writes a column's default for the zero value of a field on Create, so
\* that switching a group off inserts, or updates to, TRUE.
DefaultTrue(on) == TRUE
InsertedConfig(cfg) == [cfg EXCEPT !.active = DefaultTrue(@)]

-----------------------------------------------------------------------------
(* The form of a group. *)

FormsOpen == {r \in BalRequest : balReq[r].phase \in {"peers", "configs", "find", "save"}}

BelongsToTenant(g) == group[g]

\* BelongsToTenant; the overlap is looked at for a form that switches it on.
SetByGroup(r, g, alg, on) ==
  /\ Waits(r)
  /\ BelongsToTenant(g)
  /\ BalStep(r, [phase |-> IF on THEN "peers" ELSE "find", group |-> g, alg |-> alg, on |-> on])
  /\ unchecked' =
       IF ~on \/ FormsOpen # {}
       THEN unchecked \cup {g} ELSE unchecked
  /\ SameRows /\ UNCHANGED <<config, lead, turns, beside>>

\* HasActiveOverlap: the groups on the same columns, and then whether one of
\* them is on.
FindPeers(r) ==
  LET q == balReq[r] IN
  /\ At(r, "peers")
  /\ BalStep(r, [phase |-> "configs", group |-> q.group, alg |-> q.alg, on |-> q.on,
                 peers |-> {h \in Group \ {q.group} :
                              covers[q.group] # NoRow /\ covers[h] # NoRow
                              /\ columnsOverlap(covers[q.group], covers[h])}])
  /\ SameRows /\ UNCHANGED <<config, lead, turns, beside, unchecked>>
PeersOff(r) ==
  LET q == balReq[r] IN
  /\ At(r, "configs")
  /\ BalStep(r, IF \E h \in q.peers : config[h] # NoRow /\ config[h].active THEN BalIdle
                ELSE [phase |-> "find", group |-> q.group, alg |-> q.alg, on |-> q.on])
  /\ SameRows /\ UNCHANGED <<config, lead, turns, beside, unchecked>>

\* The row to write: a new one, or the old one with what the form says.
ConfigOf(g, alg) ==
  IF config[g] = NoRow THEN NewLoadBalanceConfig(alg) ELSE [config[g] EXCEPT !.algorithm = alg]
FindConfig(r) ==
  LET q == balReq[r] IN
  /\ At(r, "find")
  /\ BalStep(r, IF ValidateAlgorithm(q.alg)
                THEN [phase |-> "save", group |-> q.group, on |-> q.on,
                      cfg |-> [ConfigOf(q.group, q.alg) EXCEPT !.active = q.on]]
                ELSE BalIdle)
  /\ SameRows /\ UNCHANGED <<config, lead, turns, beside, unchecked>>

SaveConfig(r) ==
  LET q == balReq[r] IN
  /\ At(r, "save")
  /\ IF group[q.group]
     THEN config' = [config EXCEPT ![q.group] = InsertedConfig(q.cfg)]
     ELSE UNCHANGED config
  /\ BalStep(r, BalIdle)
  /\ Forgets(q.group)
  /\ SameRows /\ UNCHANGED <<lead, beside, unchecked>>

\* SetGroupFunnel asks nobody.
AssignColumns(g, columns) ==
  /\ SetGroupFunnel(g, columns)
  /\ unchecked' = IF config[g] # NoRow \/ FormsOpen # {} THEN unchecked \cup {g} ELSE unchecked
  /\ UNCHANGED <<lead, balReq, turns, beside>>

-----------------------------------------------------------------------------
(* A new lead in column c. *)

PickForFunnel(r, c) ==
  /\ Waits(r)
  /\ Len(lead) < MaxLeads
  /\ BalStep(r, [phase |-> "picking", left |-> {g \in Group : CoversColumn(g, c)}, on |-> {}])
  /\ SameRows /\ UNCHANGED <<config, lead, turns, beside, unchecked>>

\* The configuration of each covering group, one statement each.
FindActive(r, g) ==
  LET q == balReq[r] IN
  /\ At(r, "picking")
  /\ g \in q.left
  /\ BalStep(r, [q EXCEPT !.left = @ \ {g},
                          !.on = @ \cup (IF config[g] # NoRow /\ config[g].active
                                         THEN {[group |-> g, cfg |-> config[g]]} ELSE {})])
  /\ SameRows /\ UNCHANGED <<config, lead, turns, beside, unchecked>>

\* u is picked, among these by least load.
Picked(r, u, among) ==
  /\ BalStep(r, [phase |-> "picked", user |-> u])
  /\ beside' = [beside EXCEPT ![u] = @ \cap among]
FallbackToOwner(r) == Picked(r, Owner[Firm], {})

\* Exactly one group on, or the owner.
ChooseGroup(r) ==
  LET q == balReq[r] IN
  /\ At(r, "picking") /\ q.left = {}
  /\ IF Cardinality(q.on) = 1
     THEN /\ \E a \in q.on : BalStep(r, [phase |-> "members", group |-> a.group, cfg |-> a.cfg])
          /\ UNCHANGED beside
     ELSE FallbackToOwner(r)
  /\ SameRows /\ UNCHANGED <<config, lead, turns, unchecked>>

\* The members of the group that still belong to the firm.
GroupMembers(g) == {u \in Account : InGroup(u, g)}
BelongsToFirm(u) == u \in ListTenantUsers(Firm)
Team(g) == {u \in GroupMembers(g) : BelongsToFirm(u)}
FindMembers(r) ==
  LET q == balReq[r] IN
  /\ At(r, "members")
  /\ \/ Team(q.group) = {} /\ FallbackToOwner(r)
     \/ /\ Team(q.group) # {} /\ UNCHANGED beside
        /\ BalStep(r, [phase |-> "turn", group |-> q.group, cfg |-> q.cfg, members |-> Team(q.group)])
  /\ SameRows /\ UNCHANGED <<config, lead, turns, unchecked>>

\* The members are sorted by their IDs: u's index is the number of those before it.
Index(u, members) == Cardinality({v \in members : UserOrder[v] < UserOrder[u]})
AtIndex(i, members) == CHOOSE u \in members : Index(u, members) = i

\* Round robin: the index is used and written back with the whole row.
IncrementIndex(cfg) == [cfg EXCEPT !.last = @ + 1]

RoundRobin(r) ==
  LET q == balReq[r]
      u == AtIndex(q.cfg.last % Cardinality(q.members), q.members)
  IN /\ At(r, "turn") /\ q.cfg.algorithm = "round_robin"
     /\ IF group[q.group]
        THEN /\ config' = [config EXCEPT ![q.group] = IncrementIndex(q.cfg)]
             /\ IF q.cfg = config[q.group] /\ q.members = Team(q.group)
                THEN turns' = [turns EXCEPT ![q.group][u] = @ + 1]
                ELSE Forgets(q.group)
             /\ unchecked' = IF config[q.group] = NoRow THEN unchecked \cup {q.group} ELSE unchecked
             /\ Picked(r, u, {})
        ELSE FallbackToOwner(r) /\ UNCHANGED <<config, turns, unchecked>>
     /\ SameRows /\ UNCHANGED lead

Load(u) == Cardinality({i \in DOMAIN lead : lead[i] = u})

\* Least load: the first of the members with the fewest active leads.
Least(members) == {u \in members : \A v \in members : Load(u) <= Load(v)}
LeastLoad(members) == CHOOSE u \in Least(members) : \A v \in Least(members) : UserOrder[u] <= UserOrder[v]

LeastLoaded(r) ==
  LET members == balReq[r].members IN
  /\ At(r, "turn") /\ balReq[r].cfg.algorithm = "least_load"
  /\ Picked(r, LeastLoad(members), members)
  /\ SameRows /\ UNCHANGED <<config, lead, turns, unchecked>>

Random(r) ==
  /\ At(r, "turn") /\ balReq[r].cfg.algorithm = "random"
  /\ \E u \in balReq[r].members : Picked(r, u, {})
  /\ SameRows /\ UNCHANGED <<config, lead, turns, unchecked>>

\* Any statement of a pick may fail: the owner.
PickFails(r) ==
  /\ "db" \in MemberFaults
  /\ balReq[r].phase \in {"picking", "members", "turn"}
  /\ FallbackToOwner(r)
  /\ SameRows /\ UNCHANGED <<config, lead, turns, unchecked>>

\* The caller creates the lead.
CreateLeadFor(r) ==
  /\ At(r, "picked")
  /\ lead' = IF Len(lead) < MaxLeads THEN Append(lead, balReq[r].user) ELSE lead
  /\ BalStep(r, BalIdle)
  /\ SameRows /\ UNCHANGED <<config, turns, beside, unchecked>>

-----------------------------------------------------------------------------
Forms(r) ==
  \/ \E g \in Group, alg \in BalanceForm, on \in BOOLEAN : SetByGroup(r, g, alg, on)
  \/ FindPeers(r) \/ PeersOff(r) \/ FindConfig(r) \/ SaveConfig(r)
\* The form of the funnels section carries no columns.
SetGroupFunnelsHTML(g) == AssignColumns(g, {})
Assignments == \E g \in Group : SetGroupFunnelsHTML(g) \/ \E cs \in SUBSET Column : AssignColumns(g, cs)
Picks(r) ==
  \/ \E c \in Column : PickForFunnel(r, c)
  \/ \E g \in Group : FindActive(r, g)
  \/ ChooseGroup(r) \/ FindMembers(r)
  \/ RoundRobin(r) \/ LeastLoaded(r) \/ Random(r)
  \/ PickFails(r) \/ CreateLeadFor(r)

RightsChange(r) ==
  GroupsChange(r) \/ MembersChange(r) \/ PermissionsChange(r) \/ ProfilesChange(r) \/ Questions(r) \/ GroupFails(r)

\* A firm's accounts, groups and load balancing beside each other.
firmVars == <<memberVars, groupVars, balVars>>
\* History: what the members or the configuration of a group were is forgotten.
TurnsRestart ==
  turns' = [g \in Group |-> IF Team(g)' = Team(g) /\ config'[g] = config[g] THEN turns[g] ELSE NoTurns[g]]
OthersChange == TurnsRestart /\ UNCHANGED <<lead, balReq, beside, unchecked>>
FirmNext ==
  \/ MemberNext /\ UNCHANGED groupVars /\ OthersChange
  \/ (\E r \in GroupRequest : RightsChange(r)) /\ UNCHANGED memberVars /\ OthersChange
  \/ UNCHANGED memberVars /\ (Assignments \/ \E r \in BalRequest : Forms(r) \/ Picks(r))
FirmSpec == MemberInit /\ GroupInit /\ BalanceInit /\ [][FirmNext]_firmVars

-----------------------------------------------------------------------------
\* Round robin is even: no member is two picks ahead of another, but for a pick
\* on an index another one used meanwhile, or on members that have changed: both
\* are read long before the index is written (load_balance_picker.go:116, 145, 201).
TurnsAlternate ==
  \A g \in Group : \A u, v \in Team(g) : turns[g][u] <= turns[g][v] + 1

\* Least load keeps the members within as many leads of each other as there
\* are requests, those on their way included: each may pick on a count the others
\* are about to change (load_balance_picker.go:209).
Coming(u) == Cardinality({r \in BalRequest : At(r, "picked") /\ balReq[r].user = u})
LoadsStayClose ==
  \A u \in Account : \A v \in beside[u] : Load(u) + Coming(u) <= Load(v) + Cardinality(BalRequest)

\* No column has two groups on, which would send its leads to the owner; but
\* only a form that switches a group on, alone, with its columns assigned
\* before, is looked at (manage_load_balance.go:87), and not an index that comes
\* back to a group whose configuration is gone.
OneActiveGroup ==
  \A g, h \in Group \ unchecked :
    g # h /\ config[g] # NoRow /\ config[h] # NoRow /\ config[g].active /\ config[h].active
    => ~\E c \in Column : CoversColumn(g, c) /\ CoversColumn(h, c)

\* Leads are shared out fairly, and by one group for a column.
BalanceIsSound == BalanceTypeOK /\ TurnsAlternate /\ LoadsStayClose /\ OneActiveGroup
=============================================================================

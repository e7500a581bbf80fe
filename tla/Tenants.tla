-------------------------------- MODULE Tenants --------------------------------
(***************************************************************************)
(* Law firms and their life cycle (src/internal/tenant), with the audit    *)
(* entries their administration leaves (src/internal/audit).               *)
(*                                                                         *)
(* A request of the admin panel finds the whole row, changes it in memory  *)
(* and saves it whole; blocking and unblocking then write a history entry, *)
(* and every change ends in a best-effort audit entry.  None of that is a  *)
(* transaction and none of it is locked.                                   *)
(***************************************************************************)
EXTENDS Integers, FiniteSets, Sequences

CONSTANTS
  Tenant,         \* tenant IDs
  NoTenant,       \* no row
  Document,       \* CPF or CNPJ, unique
  BillingForm,    \* billing configurations the edit form can carry
  TenantRequest,  \* requests of the admin panel
  TenantFaults    \* subset of {"db", "audit"}

NoDate == -1

\* pagamentos/domain: the columns of a billing configuration.
Plan == {"mensal", "annual", "vitalicio", "externo"}
Recurring(c) == c.plan \in {"mensal", "annual"}
BillingColumns ==
  [plan : Plan, priced : BOOLEAN, day : 0 .. 28, start : Int, shown : BOOLEAN]

\* NewBillingConfig: what it accepts, and what it keeps of the form.
CompleteConfig(c) == c.priced /\ c.day \in 1 .. 28 /\ c.start # NoDate
ValidConfig(c) == c.plan \in Plan /\ (Recurring(c) => CompleteConfig(c))
NewBillingConfig(c) ==
  IF Recurring(c) THEN c ELSE [c EXCEPT !.priced = FALSE, !.day = 0, !.start = NoDate]

VARIABLES
  tenant,         \* rows of tenants
  blockHistory,   \* tenant_block_history, oldest first
  tenantReq,      \* requests in flight
  trail,          \* audit_logs, as <<action, tenant, request>>
  tenantClobbered \* history: tenants whose row was saved from a stale copy

tenantVars == <<tenant, blockHistory, tenantReq, trail, tenantClobbered>>

TenantStatus == {"active", "blocked", "inactive"}
TenantRow == [doc : Document, status : TenantStatus, reason : BOOLEAN, billing : BillingColumns]
ASSUME TenantAssumption ==
  /\ NoTenant \notin TenantRow
  /\ BillingForm \subseteq [plan : STRING, priced : BOOLEAN, day : Int, start : Int, shown : BOOLEAN]

TenantOp == {"update", "deactivate", "block", "unblock"}
AuditAction == [update |-> "tenant.updated", deactivate |-> "tenant.deactivated",
                block |-> "tenant.blocked", unblock |-> "tenant.unblocked", create |-> "tenant.created"]

Idle == [phase |-> "new"]
Done == [phase |-> "done"]

TenantTypeOK ==
  /\ tenant \in [Tenant -> TenantRow \cup {NoTenant}]
  /\ blockHistory \in [Tenant -> Seq({"block", "unblock"})]
  /\ \A r \in TenantRequest :
       \/ tenantReq[r] \in {Idle, Done}
       \/ /\ tenantReq[r].phase \in {"found", "history", "audit"}
          /\ tenantReq[r].op \in TenantOp \cup {"create"}
          /\ tenantReq[r].id \in Tenant
          /\ tenantReq[r].phase = "found" => {tenantReq[r].seen, tenantReq[r].copy} \subseteq TenantRow
  /\ tenantClobbered \subseteq Tenant

\* NewTenant.
NewTenant(d) ==
  [doc |-> d, status |-> "active", reason |-> FALSE,
   billing |-> [plan |-> "mensal", priced |-> FALSE, day |-> 0, start |-> NoDate, shown |-> TRUE]]

TenantInit ==
  /\ tenant = [t \in Tenant |-> NoTenant]
  /\ blockHistory = [t \in Tenant |-> <<>>]
  /\ tenantReq = [r \in TenantRequest |-> Idle]
  /\ trail = {}
  /\ tenantClobbered = {}

-----------------------------------------------------------------------------
(* The entity: the rows each operation may make of a row, none on an error. *)

Unblock(row) == IF row.status = "blocked" THEN {[row EXCEPT !.status = "active", !.reason = FALSE]} ELSE {}

Block(row) == IF row.status = "active" THEN {[row EXCEPT !.status = "blocked", !.reason = TRUE]} ELSE {}

Deactivate(row) == IF row.status # "inactive" THEN {[row EXCEPT !.status = "inactive"]} ELSE {}

\* Update with a new document, and SetBillingConfig when the form carries a plan.
Update(row) ==
  {[row EXCEPT !.doc = d] : d \in Document}
    \cup {[row EXCEPT !.doc = d, !.billing = NewBillingConfig(c)] :
            d \in Document, c \in {b \in BillingForm : ValidConfig(b)}}

-----------------------------------------------------------------------------
(* Requests.                                                               *)

\* The unique index on the document.
DocumentFree(t, d) == \A u \in Tenant \ {t} : tenant[u] # NoTenant => tenant[u].doc # d

\* One insert.
CreateTenant(r, t, d) ==
  /\ tenantReq[r] = Idle
  /\ tenant[t] = NoTenant
  /\ \/ /\ DocumentFree(t, d)
        /\ tenant' = [tenant EXCEPT ![t] = NewTenant(d)]
        /\ tenantReq' = [tenantReq EXCEPT ![r] = [phase |-> "audit", op |-> "create", id |-> t]]
     \/ /\ ~DocumentFree(t, d) \/ "db" \in TenantFaults
        /\ tenantReq' = [tenantReq EXCEPT ![r] = Done]
        /\ UNCHANGED tenant
  /\ UNCHANGED <<blockHistory, trail, tenantClobbered>>

\* FindByID and the change in memory, which may be refused.
FindAndChange(r, op, t, rows) ==
  /\ tenantReq[r] = Idle
  /\ tenant[t] # NoTenant
  /\ \/ \E c \in rows :
          tenantReq' = [tenantReq EXCEPT ![r] =
            [phase |-> "found", op |-> op, id |-> t, seen |-> tenant[t], copy |-> c]]
     \/ /\ rows = {} \/ "db" \in TenantFaults
        /\ tenantReq' = [tenantReq EXCEPT ![r] = Done]
  /\ UNCHANGED <<tenant, blockHistory, trail, tenantClobbered>>

UpdateTenant(r, t) == FindAndChange(r, "update", t, Update(tenant[t]))
DeactivateTenant(r, t) == FindAndChange(r, "deactivate", t, Deactivate(tenant[t]))
BlockTenant(r, t) == FindAndChange(r, "block", t, Block(tenant[t]))
UnblockTenant(r, t) == FindAndChange(r, "unblock", t, Unblock(tenant[t]))

\* snapshotTenant: the columns an update is audited for, the first due date is
\* not one of them.
Snapshot(row) == [row EXCEPT !.billing.start = NoDate]
\* Blocking and unblocking write their history next; an update that changed
\* nothing of the snapshot is not audited.
\* Mutant: the history entry is left for later.
AuditFirst(q) == [phase |-> "audit", op |-> q.op, id |-> q.id]
AfterSave(q) ==
  IF q.op = "update" /\ Snapshot(q.copy) = Snapshot(q.seen) THEN Done
  ELSE [phase |-> IF q.op \in {"block", "unblock"} THEN "history" ELSE "audit", op |-> q.op, id |-> q.id]

\* repo.Update: Save writes every column of the copy.
SaveTenant(r) ==
  LET q == tenantReq[r] IN
  /\ q.phase = "found"
  /\ \/ /\ DocumentFree(q.id, q.copy.doc)
        /\ tenant' = [tenant EXCEPT ![q.id] = q.copy]
        /\ tenantClobbered' = IF tenant[q.id] = q.seen THEN tenantClobbered ELSE tenantClobbered \cup {q.id}
        /\ tenantReq' = [tenantReq EXCEPT ![r] = AfterSave(q)]
     \/ /\ ~DocumentFree(q.id, q.copy.doc) \/ "db" \in TenantFaults
        /\ tenantReq' = [tenantReq EXCEPT ![r] = Done]
        /\ UNCHANGED <<tenant, tenantClobbered>>
  /\ UNCHANGED <<blockHistory, trail>>

\* historyRepo.Save; on an error the status stays changed and nothing is audited.
SaveHistory(r) ==
  LET q == tenantReq[r] IN
  /\ q.phase = "history"
  /\ \/ /\ blockHistory' = [blockHistory EXCEPT ![q.id] = Append(@, q.op)]
        /\ tenantReq' = [tenantReq EXCEPT ![r].phase = "audit"]
        /\ UNCHANGED tenantClobbered
     \/ /\ "db" \in TenantFaults
        /\ tenantReq' = [tenantReq EXCEPT ![r] = Done]
        /\ tenantClobbered' = tenantClobbered \cup {q.id}
        /\ UNCHANGED blockHistory
  /\ UNCHANGED <<tenant, trail>>

\* publish*: the publisher swallows the error of the audit entry.
PublishAudit(r) ==
  LET q == tenantReq[r] IN
  /\ q.phase = "audit"
  /\ \/ trail' = trail \cup {<<AuditAction[q.op], q.id, r>>}
     \/ "audit" \in TenantFaults /\ UNCHANGED trail
  /\ tenantReq' = [tenantReq EXCEPT ![r] = Done]
  /\ UNCHANGED <<tenant, blockHistory, tenantClobbered>>

TenantNext ==
  \E r \in TenantRequest :
    \/ \E t \in Tenant, d \in Document : CreateTenant(r, t, d)
    \/ \E t \in Tenant :
         UpdateTenant(r, t) \/ DeactivateTenant(r, t) \/ BlockTenant(r, t) \/ UnblockTenant(r, t)
    \/ SaveTenant(r)
    \/ SaveHistory(r)
    \/ PublishAudit(r)

TenantSpec == TenantInit /\ [][TenantNext]_tenantVars

-----------------------------------------------------------------------------
\* No two firms share a document, whatever the order of two saves
\* (gorm_repository.go:96 and 146 rely on the index alone).
DocumentsUnique ==
  \A t, u \in Tenant :
    t # u /\ tenant[t] # NoTenant /\ tenant[u] # NoTenant => tenant[t].doc # tenant[u].doc

\* A blocked firm has its reason and an active one has none, whichever
\* stale copies were saved: a copy is always one consistent row.
ReasonWithStatus ==
  \A t \in Tenant : tenant[t] # NoTenant =>
    /\ tenant[t].status = "blocked" => tenant[t].reason
    /\ tenant[t].status = "active" => ~tenant[t].reason

Times(t, op) == Cardinality({i \in DOMAIN blockHistory[t] : blockHistory[t][i] = op})

\* The history a firm's page shows accounts for its status: a blocked firm was
\* blocked once more than it was unblocked.  Only a save from a stale copy or
\* a failed history write breaks that, and the writes of two overlapping
\* requests may come in either order.
HistoryExplainsStatus ==
  \A t \in Tenant :
    /\ tenant[t] # NoTenant /\ t \notin tenantClobbered /\ tenant[t].status # "inactive"
    /\ \A r \in TenantRequest : tenantReq[r].phase = "history" => tenantReq[r].id # t
    => Times(t, "block") = Times(t, "unblock") + (IF tenant[t].status = "blocked" THEN 1 ELSE 0)

\* Whoever blocks a firm in the audit trail is in its history too: the
\* entry is published only after the history was written.
TrailFollowsHistory ==
  \A e \in trail :
    e[1] = "tenant.blocked" => "block" \in {blockHistory[e[2]][i] : i \in DOMAIN blockHistory[e[2]]}

\* A deactivated firm stays so, but for a save from a stale copy.
InactiveIsFinal ==
  [][\A t \in Tenant :
       tenant[t] # NoTenant /\ tenant[t].status = "inactive" /\ tenant'[t].status # "inactive"
       => t \in tenantClobbered']_tenantVars

\* What the administration of law firms keeps, in whatever order the finds and
\* saves of its requests come and whichever of them fail.
TenantsAreSound ==
  TenantTypeOK /\ DocumentsUnique /\ ReasonWithStatus /\ HistoryExplainsStatus /\ TrailFollowsHistory
=============================================================================

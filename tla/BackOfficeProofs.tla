----------------------------- MODULE BackOfficeProofs -----------------------------
(***************************************************************************)
(* Proofs about law firms and their payments, for any number of firms,     *)
(* documents, requests and days.                                           *)
(***************************************************************************)
EXTENDS Billing, FiniteSetTheorems, WellFoundedInduction, TLAPS

-----------------------------------------------------------------------------
(* The invariant of the firms.                                             *)

\* What an operation of the panel may make of a row.
Changed(op, row) ==
  CASE op = "update" -> Update(row)
    [] op = "deactivate" -> Deactivate(row)
    [] op = "block" -> Block(row)
    [] op = "unblock" -> Unblock(row)

FoundRequest == [phase : {"found"}, op : TenantOp, id : Tenant, seen : TenantRow, copy : TenantRow]
HistoryRequest == [phase : {"history"}, op : {"block", "unblock"}, id : Tenant]
AuditRequest == [phase : {"audit"}, op : TenantOp \cup {"create"}, id : Tenant]
InFlight(q) == q.phase \in {"found", "history", "audit"}

TenantsTyped ==
  /\ tenant \in [Tenant -> TenantRow \cup {NoTenant}]
  /\ blockHistory \in [Tenant -> Seq({"block", "unblock"})]
  /\ tenantReq \in [TenantRequest -> {Idle, Done} \cup FoundRequest \cup HistoryRequest \cup AuditRequest]
  /\ tenantClobbered \subseteq Tenant

\* A row is consistent, and so is every copy of one.
Consistent(row) == (row.status = "blocked" => row.reason) /\ (row.status = "active" => ~row.reason)
CopiesConsistent ==
  \A r \in TenantRequest : tenantReq[r].phase = "found" =>
    /\ Consistent(tenantReq[r].seen)
    /\ tenantReq[r].copy \in Changed(tenantReq[r].op, tenantReq[r].seen)

\* Requests work on firms that there are, and a firm begins without a past.
FirmsBegin ==
  /\ \A r \in TenantRequest : InFlight(tenantReq[r]) => tenant[tenantReq[r].id] # NoTenant
  /\ \A t \in Tenant : tenant[t] = NoTenant => blockHistory[t] = <<>>

\* Who still has to write a history entry of a firm.
Owing(t, op) ==
  {r \in TenantRequest : tenantReq[r].phase = "history" /\ tenantReq[r].op = op /\ tenantReq[r].id = t}

Balance(t) ==
  Times(t, "block") + Cardinality(Owing(t, "block")) =
    Times(t, "unblock") + Cardinality(Owing(t, "unblock")) + (IF tenant[t].status = "blocked" THEN 1 ELSE 0)

\* Entries that are owed count as written.
HistoryBalances ==
  /\ \A t \in Tenant, op \in {"block", "unblock"} : IsFiniteSet(Owing(t, op))
  /\ \A t \in Tenant :
       tenant[t] # NoTenant /\ t \notin tenantClobbered /\ tenant[t].status # "inactive" => Balance(t)

\* Whoever is about to be audited for a block has written its entry.
WasBlocked(t) == "block" \in {blockHistory[t][i] : i \in DOMAIN blockHistory[t]}
AuditFollows ==
  \A r \in TenantRequest :
    tenantReq[r].phase = "audit" /\ tenantReq[r].op = "block" => WasBlocked(tenantReq[r].id)

TenantInvariant ==
  /\ TenantsTyped /\ DocumentsUnique /\ ReasonWithStatus /\ CopiesConsistent
  /\ FirmsBegin /\ HistoryBalances /\ AuditFollows /\ TrailFollowsHistory

-----------------------------------------------------------------------------
(* The operations on a row.                                                *)

\* What a form makes of the billing columns.
LEMMA BillingOfForm ==
  ASSUME NEW c \in BillingForm, ValidConfig(c)
  PROVE  NewBillingConfig(c) \in BillingColumns
<1>1. c \in [plan : STRING, priced : BOOLEAN, day : Int, start : Int, shown : BOOLEAN]
  BY TenantAssumption
<1>2. /\ c = [plan |-> c.plan, priced |-> c.priced, day |-> c.day, start |-> c.start, shown |-> c.shown]
      /\ c.priced \in BOOLEAN /\ c.day \in Int /\ c.start \in Int /\ c.shown \in BOOLEAN
  BY <1>1
<1>3. c.plan \in Plan
  BY DEF ValidConfig
<1>4. CASE Recurring(c)
  BY <1>2, <1>3, <1>4 DEF ValidConfig, NewBillingConfig, BillingColumns, CompleteConfig
<1>5. CASE ~Recurring(c)
  <2> DEFINE Whole == [plan : Plan, priced : BOOLEAN, day : Int, start : Int, shown : BOOLEAN]
             c1 == [c EXCEPT !.priced = FALSE]
             c2 == [c1 EXCEPT !.day = 0]
             c3 == [c2 EXCEPT !.start = NoDate]
  <2>1. NewBillingConfig(c) = c3
    BY <1>5 DEF NewBillingConfig
  <2>2. c1 \in Whole
    BY <1>2, <1>3
  <2> HIDE DEF c1
  <2>3. c2 \in Whole /\ c2.day = 0
    BY <2>2
  <2> HIDE DEF c2
  <2>4. c3 \in Whole /\ c3.day = 0
    BY <2>3 DEF NoDate
  <2> HIDE DEF c3
  <2>5. c3 \in BillingColumns
    BY <2>4 DEF BillingColumns
  <2> QED
    BY <2>1, <2>5
<1> QED
  BY <1>4, <1>5

\* An operation makes a row of a row, a consistent one of a consistent one, and
\* it says what it makes of the status: nothing takes a firm out of "inactive".
LEMMA ChangesOfRow ==
  ASSUME NEW row \in TenantRow, Consistent(row), NEW op \in TenantOp, NEW c \in Changed(op, row)
  PROVE  /\ c \in TenantRow /\ Consistent(c)
         /\ row.status = "inactive" => c.status = "inactive"
         /\ op = "update" => c.status = row.status
         /\ op = "block" => row.status = "active" /\ c.status = "blocked"
         /\ op = "unblock" => row.status = "blocked" /\ c.status = "active"
         /\ op = "deactivate" => c.status = "inactive"
<1>1. CASE op = "update"
  <2>1. c \in Update(row)
    BY <1>1 DEF Changed
  <2>2. CASE \E d \in Document : c = [row EXCEPT !.doc = d]
    BY <1>1, <2>2 DEF TenantRow, Consistent
  <2>3. CASE \E d \in Document, b \in {f \in BillingForm : ValidConfig(f)} :
               c = [row EXCEPT !.doc = d, !.billing = NewBillingConfig(b)]
    <3>1. PICK d \in Document, b \in {f \in BillingForm : ValidConfig(f)} :
               c = [row EXCEPT !.doc = d, !.billing = NewBillingConfig(b)]
      BY <2>3
    <3>2. NewBillingConfig(b) \in BillingColumns
      BY BillingOfForm
    <3> DEFINE b0 == NewBillingConfig(b)
    <3> HIDE DEF b0
    <3>3. c = [row EXCEPT !.doc = d, !.billing = b0] /\ b0 \in BillingColumns
      BY <3>1, <3>2 DEF b0
    <3>4. c \in TenantRow /\ c.status = row.status /\ c.reason = row.reason
      BY <3>3 DEF TenantRow
    <3> QED
      BY <1>1, <3>4 DEF Consistent
  <2>4. \/ \E d \in Document : c = [row EXCEPT !.doc = d]
        \/ \E d \in Document, b \in {f \in BillingForm : ValidConfig(f)} :
             c = [row EXCEPT !.doc = d, !.billing = NewBillingConfig(b)]
    <3> DEFINE Moved(d) == [row EXCEPT !.doc = d]
               Billed(d, b) == [row EXCEPT !.doc = d, !.billing = NewBillingConfig(b)]
               Forms == {f \in BillingForm : ValidConfig(f)}
    <3>1. Update(row) = {Moved(d) : d \in Document} \cup {Billed(d, b) : d \in Document, b \in Forms}
      BY DEF Update
    <3> SUFFICES \/ \E d \in Document : c = Moved(d)
                 \/ \E d \in Document, b \in Forms : c = Billed(d, b)
      OBVIOUS
    <3> HIDE DEF Moved, Billed, Forms
    <3> QED
      BY <2>1, <3>1
  <2> QED
    BY <2>2, <2>3, <2>4
<1>2. CASE op = "deactivate"
  BY <1>2 DEF Changed, Deactivate, TenantRow, Consistent, TenantStatus
<1>3. CASE op = "block"
  BY <1>3 DEF Changed, Block, TenantRow, Consistent, TenantStatus
<1>4. CASE op = "unblock"
  BY <1>4 DEF Changed, Unblock, TenantRow, Consistent, TenantStatus
<1> QED
  BY <1>1, <1>2, <1>3, <1>4 DEF TenantOp

\* A new firm.
LEMMA RowOfNewTenant ==
  ASSUME NEW d \in Document
  PROVE  /\ NewTenant(d) \in TenantRow /\ Consistent(NewTenant(d))
         /\ NewTenant(d).status = "active" /\ NewTenant(d).doc = d
BY DEF NewTenant, TenantRow, TenantStatus, BillingColumns, Plan, Consistent, NoDate

-----------------------------------------------------------------------------
(* The history and those who owe it an entry.                              *)

\* What one more entry does to the counts.
LEMMA TimesAppend ==
  ASSUME NEW s \in Seq({"block", "unblock"}), NEW e \in {"block", "unblock"}, NEW op \in {"block", "unblock"}
  PROVE  Cardinality({i \in DOMAIN Append(s, e) : Append(s, e)[i] = op}) =
           Cardinality({i \in DOMAIN s : s[i] = op}) + (IF e = op THEN 1 ELSE 0)
<1> DEFINE old == {i \in DOMAIN s : s[i] = op}
           new == {i \in DOMAIN Append(s, e) : Append(s, e)[i] = op}
<1>1. /\ DOMAIN s = 1 .. Len(s) /\ Len(s) \in Nat /\ DOMAIN Append(s, e) = 1 .. (Len(s) + 1)
      /\ \A i \in 1 .. Len(s) : Append(s, e)[i] = s[i]
      /\ Append(s, e)[Len(s) + 1] = e
  OBVIOUS
<1>2. IsFiniteSet(old) /\ Cardinality(old) \in Nat
  <2>1. IsFiniteSet(1 .. Len(s))
    BY <1>1, FS_Interval
  <2> QED
    BY <1>1, <2>1, FS_Subset, FS_CardinalityType
<1>3. CASE e = op
  <2>1. new = old \cup {Len(s) + 1} /\ Len(s) + 1 \notin old
    BY <1>1, <1>3
  <2> QED
    BY <1>2, <1>3, <2>1, FS_AddElement
<1>4. CASE e # op
  <2>1. new = old
    BY <1>1, <1>4
  <2> HIDE DEF new, old
  <2>2. Cardinality(new) = Cardinality(old) + 0
    BY <1>2, <2>1
  <2>3. (IF e = op THEN 1 ELSE 0) = 0
    BY <1>4
  <2>4. Cardinality(new) = Cardinality(old) + (IF e = op THEN 1 ELSE 0)
    BY <2>2, <2>3
  <2> QED
    BY <2>4 DEF new, old
<1> QED
  BY <1>3, <1>4

\* The counts are numbers.
LEMMA CountsAreNumbers ==
  ASSUME TenantInvariant, NEW t \in Tenant, NEW op \in {"block", "unblock"}
  PROVE  Times(t, op) \in Nat /\ IsFiniteSet(Owing(t, op)) /\ Cardinality(Owing(t, op)) \in Nat
<1>1. blockHistory[t] \in Seq({"block", "unblock"})
  BY DEF TenantInvariant, TenantsTyped
<1>2. IsFiniteSet(1 .. Len(blockHistory[t])) /\ DOMAIN blockHistory[t] = 1 .. Len(blockHistory[t])
  BY <1>1, FS_Interval
<1>3. IsFiniteSet({i \in DOMAIN blockHistory[t] : blockHistory[t][i] = op})
  BY <1>2, FS_Subset
<1> QED
  BY <1>3, FS_CardinalityType DEF Times, TenantInvariant, HistoryBalances
-----------------------------------------------------------------------------
(* Requests.                                                               *)

RequestState == {Idle, Done} \cup FoundRequest \cup HistoryRequest \cup AuditRequest

\* The fields of a request at each step.
LEMMA ShapeOfRequest ==
  ASSUME TenantsTyped, NEW r \in TenantRequest
  PROVE  /\ tenantReq[r] \in RequestState
         /\ tenantReq[r].phase \in {"new", "done", "found", "history", "audit"}
         /\ InFlight(tenantReq[r]) => tenantReq[r].id \in Tenant
         /\ tenantReq[r].phase = "found" => /\ tenantReq[r].op \in TenantOp
                                            /\ tenantReq[r].seen \in TenantRow
                                            /\ tenantReq[r].copy \in TenantRow
         /\ tenantReq[r].phase = "history" => tenantReq[r].op \in {"block", "unblock"}
         /\ tenantReq[r].phase = "audit" => tenantReq[r].op \in TenantOp \cup {"create"}
         /\ tenantReq[r].phase \notin {"found", "history", "audit"} => tenantReq[r] \in {Idle, Done}
BY DEF TenantsTyped, RequestState, FoundRequest, HistoryRequest, AuditRequest, InFlight, Idle, Done

\* One request moves, and owes no history entry before or after.
LEMMA OwingSame ==
  ASSUME TenantsTyped, NEW r \in TenantRequest, NEW q, tenantReq' = [tenantReq EXCEPT ![r] = q],
         tenantReq[r].phase # "history", q.phase # "history"
  PROVE  \A t \in Tenant, op \in {"block", "unblock"} : Owing(t, op)' = Owing(t, op)
<1>1. tenantReq'[r] = q /\ \A x \in TenantRequest \ {r} : tenantReq'[x] = tenantReq[x]
  BY DEF TenantsTyped
<1> QED
  BY <1>1 DEF Owing

\* A request comes to owe an entry.
LEMMA OwingMore ==
  ASSUME TenantsTyped, NEW r \in TenantRequest, NEW u \in Tenant, NEW o \in {"block", "unblock"},
         NEW q \in HistoryRequest, q.id = u, q.op = o,
         tenantReq' = [tenantReq EXCEPT ![r] = q], tenantReq[r].phase # "history"
  PROVE  /\ Owing(u, o)' = Owing(u, o) \cup {r} /\ r \notin Owing(u, o)
         /\ \A t \in Tenant, op \in {"block", "unblock"} : t # u \/ op # o => Owing(t, op)' = Owing(t, op)
<1>1. tenantReq'[r] = q /\ \A x \in TenantRequest \ {r} : tenantReq'[x] = tenantReq[x]
  BY DEF TenantsTyped
<1>2. q.phase = "history"
  BY DEF HistoryRequest
<1> QED
  BY <1>1, <1>2 DEF Owing

\* A request no longer owes its entry.
LEMMA OwingLess ==
  ASSUME TenantsTyped, NEW r \in TenantRequest, NEW q, tenantReq' = [tenantReq EXCEPT ![r] = q],
         tenantReq[r].phase = "history", q.phase # "history"
  PROVE  \A t \in Tenant, op \in {"block", "unblock"} :
           IF t = tenantReq[r].id /\ op = tenantReq[r].op
           THEN Owing(t, op)' = Owing(t, op) \ {r} /\ r \in Owing(t, op)
           ELSE Owing(t, op)' = Owing(t, op)
<1>1. tenantReq'[r] = q /\ \A x \in TenantRequest \ {r} : tenantReq'[x] = tenantReq[x]
  BY DEF TenantsTyped
<1> QED
  BY <1>1 DEF Owing

\* A step that leaves the rows, the history and the trail alone and gives a
\* request that owes nothing another state in which it owes nothing.
LEMMA RequestMoves ==
  ASSUME TenantInvariant, NEW r \in TenantRequest, NEW q \in RequestState,
         tenantReq' = [tenantReq EXCEPT ![r] = q], tenantReq[r].phase # "history",
         q.phase = "found" =>
           Consistent(q.seen) /\ q.copy \in Changed(q.op, q.seen) /\ tenant[q.id] # NoTenant,
         q.phase \notin {"history", "audit"},
         UNCHANGED <<tenant, blockHistory, tenantClobbered>>,
         TrailFollowsHistory'
  PROVE  TenantInvariant'
<1>1. tenantReq'[r] = q /\ \A x \in TenantRequest \ {r} : tenantReq'[x] = tenantReq[x]
  BY DEF TenantInvariant, TenantsTyped
<1>2. TenantsTyped'
  BY DEF TenantInvariant, TenantsTyped, RequestState
<1>3. DocumentsUnique' /\ ReasonWithStatus'
  BY DEF TenantInvariant, DocumentsUnique, ReasonWithStatus
<1>4. CopiesConsistent'
  <2>1. ASSUME NEW x \in TenantRequest, tenantReq'[x].phase = "found"
        PROVE  Consistent(tenantReq'[x].seen) /\ tenantReq'[x].copy \in Changed(tenantReq'[x].op, tenantReq'[x].seen)
    BY <1>1, <2>1 DEF TenantInvariant, CopiesConsistent
  <2> QED
    BY <2>1 DEF CopiesConsistent
<1>5. FirmsBegin'
  BY <1>1 DEF TenantInvariant, FirmsBegin, InFlight
<1>6. HistoryBalances'
  <2>1. \A t \in Tenant, op \in {"block", "unblock"} : Owing(t, op)' = Owing(t, op) /\ Times(t, op)' = Times(t, op)
    BY OwingSame DEF TenantInvariant, Times
  <2> QED
    BY <2>1 DEF TenantInvariant, HistoryBalances, Balance
<1>7. AuditFollows'
  BY <1>1 DEF TenantInvariant, AuditFollows, WasBlocked
<1> QED
  BY <1>2, <1>3, <1>4, <1>5, <1>6, <1>7 DEF TenantInvariant
\* What one request that has moved leaves of the others.
LEMMA OthersKeep ==
  ASSUME TenantInvariant, NEW r \in TenantRequest, NEW q \in RequestState,
         tenantReq' = [tenantReq EXCEPT ![r] = q],
         q.phase = "found" => Consistent(q.seen) /\ q.copy \in Changed(q.op, q.seen),
         \A t \in Tenant : tenant[t] # NoTenant => tenant'[t] # NoTenant,
         InFlight(q) => tenant'[q.id] # NoTenant,
         \A t \in Tenant : tenant'[t] = NoTenant => blockHistory'[t] = blockHistory[t],
         \A t \in Tenant : WasBlocked(t) => WasBlocked(t)',
         q.phase = "audit" /\ q.op = "block" => WasBlocked(q.id)'
  PROVE  CopiesConsistent' /\ FirmsBegin' /\ AuditFollows'
<1>1. tenantReq'[r] = q /\ \A x \in TenantRequest \ {r} : tenantReq'[x] = tenantReq[x]
  BY DEF TenantInvariant, TenantsTyped
<1>2. CopiesConsistent'
  <2>1. ASSUME NEW x \in TenantRequest, tenantReq'[x].phase = "found"
        PROVE  Consistent(tenantReq'[x].seen) /\ tenantReq'[x].copy \in Changed(tenantReq'[x].op, tenantReq'[x].seen)
    BY <1>1, <2>1 DEF TenantInvariant, CopiesConsistent
  <2> QED
    BY <2>1 DEF CopiesConsistent
<1>3. FirmsBegin'
  <2>1. ASSUME NEW x \in TenantRequest, InFlight(tenantReq'[x])
        PROVE  tenant'[tenantReq'[x].id] # NoTenant
    <3>1. CASE x = r
      BY <1>1, <2>1, <3>1
    <3>2. CASE x # r
      <4>1. tenantReq'[x] = tenantReq[x] /\ tenantReq[x].id \in Tenant
        BY <1>1, <2>1, <3>2, ShapeOfRequest DEF TenantInvariant
      <4> QED
        BY <2>1, <4>1 DEF TenantInvariant, FirmsBegin
    <3> QED
      BY <3>1, <3>2
  <2> QED
    BY <2>1 DEF TenantInvariant, FirmsBegin, InFlight
<1>4. AuditFollows'
  <2>1. ASSUME NEW x \in TenantRequest, tenantReq'[x].phase = "audit", tenantReq'[x].op = "block"
        PROVE  "block" \in {blockHistory'[tenantReq'[x].id][i] : i \in DOMAIN blockHistory'[tenantReq'[x].id]}
    <3>1. CASE x = r
      BY <1>1, <2>1, <3>1 DEF WasBlocked
    <3>2. CASE x # r
      <4>1. tenantReq'[x] = tenantReq[x] /\ tenantReq[x].id \in Tenant
        BY <1>1, <2>1, <3>2, ShapeOfRequest DEF TenantInvariant, InFlight
      <4>2. WasBlocked(tenantReq[x].id)
        BY <2>1, <4>1 DEF TenantInvariant, AuditFollows
      <4> QED
        BY <4>1, <4>2 DEF WasBlocked
    <3> QED
      BY <3>1, <3>2
  <2> QED
    BY <2>1 DEF AuditFollows, WasBlocked
<1> QED
  BY <1>2, <1>3, <1>4

\* A firm is registered.
LEMMA CreateKeeps ==
  ASSUME TenantInvariant, NEW r \in TenantRequest, NEW t \in Tenant, NEW d \in Document, CreateTenant(r, t, d)
  PROVE  TenantInvariant'
<1> DEFINE q == [phase |-> "audit", op |-> "create", id |-> t]
<1>0. /\ tenantReq[r] = Idle /\ tenant[t] = NoTenant
      /\ UNCHANGED <<blockHistory, trail, tenantClobbered>>
  BY DEF CreateTenant
<1>1. tenantReq[r].phase = "new"
  BY <1>0 DEF Idle
<1>2. CASE UNCHANGED tenant /\ tenantReq' = [tenantReq EXCEPT ![r] = Done]
  <2>1. Done \in RequestState /\ Done.phase = "done"
    BY DEF RequestState, Done
  <2>2. TrailFollowsHistory'
    BY <1>0 DEF TenantInvariant, TrailFollowsHistory
  <2> QED
    BY <1>0, <1>1, <1>2, <2>1, <2>2, RequestMoves
<1>3. CASE /\ DocumentFree(t, d)
           /\ tenant' = [tenant EXCEPT ![t] = NewTenant(d)]
           /\ tenantReq' = [tenantReq EXCEPT ![r] = q]
  <2>0. /\ q \in RequestState /\ q.phase = "audit" /\ q.op = "create" /\ q.id = t /\ InFlight(q)
        /\ q \in AuditRequest
    BY DEF RequestState, AuditRequest, InFlight
  <2> HIDE DEF q
  <2>1. /\ tenant \in [Tenant -> TenantRow \cup {NoTenant}]
        /\ tenant'[t] = NewTenant(d) /\ NewTenant(d) \in TenantRow
        /\ \A u \in Tenant \ {t} : tenant'[u] = tenant[u]
    BY <1>3, RowOfNewTenant DEF TenantInvariant, TenantsTyped
  <2>2. TenantsTyped'
    BY <1>0, <1>3, <2>0, <2>1 DEF TenantInvariant, TenantsTyped, RequestState
  <2>3. DocumentsUnique' /\ ReasonWithStatus'
    BY <1>3, <2>1, RowOfNewTenant DEF TenantInvariant, DocumentsUnique, ReasonWithStatus, DocumentFree, Consistent
  <2>4. tenant'[t] # NoTenant
    BY <2>1, TenantAssumption
  <2>5. CopiesConsistent' /\ FirmsBegin' /\ AuditFollows'
    <3>1. /\ \A u \in Tenant : tenant[u] # NoTenant => tenant'[u] # NoTenant
          /\ InFlight(q) => tenant'[q.id] # NoTenant
          /\ \A u \in Tenant : WasBlocked(u) => WasBlocked(u)'
      BY <1>0, <2>0, <2>1, <2>4 DEF WasBlocked
    <3>2. /\ q.phase = "found" => Consistent(q.seen) /\ q.copy \in Changed(q.op, q.seen)
          /\ q.phase = "audit" /\ q.op = "block" => WasBlocked(q.id)'
          /\ q \in RequestState /\ tenantReq' = [tenantReq EXCEPT ![r] = q]
      BY <1>3, <2>0 DEF q
    <3>3. \A u \in Tenant : tenant'[u] = NoTenant => blockHistory'[u] = blockHistory[u]
      BY <1>0
    <3> QED
      BY <3>1, <3>2, <3>3, OthersKeep
  <2>6. HistoryBalances'
    <3>1. \A u \in Tenant, op \in {"block", "unblock"} : Owing(u, op)' = Owing(u, op) /\ Times(u, op)' = Times(u, op)
      BY <1>0, <1>1, <1>3, <2>0, OwingSame DEF TenantInvariant, Times
    <3>2. \A op \in {"block", "unblock"} : Owing(t, op) = {}
      BY <1>0, ShapeOfRequest DEF TenantInvariant, FirmsBegin, InFlight, Owing
    <3>3. \A op \in {"block", "unblock"} : Times(t, op) = 0
      <4>1. blockHistory[t] = <<>>
        BY <1>0 DEF TenantInvariant, FirmsBegin
      <4>2. \A op : {i \in DOMAIN blockHistory[t] : blockHistory[t][i] = op} = {}
        BY <4>1
      <4> QED
        BY <4>2, FS_EmptySet DEF Times
    <3>4. tenant'[t].status = "active"
      BY <2>1, RowOfNewTenant
    <3>5. Balance(t)'
      BY <3>1, <3>2, <3>3, <3>4, FS_EmptySet DEF Balance
    <3>6. ASSUME NEW u \in Tenant \ {t}, tenant'[u] # NoTenant, u \notin tenantClobbered', tenant'[u].status # "inactive"
          PROVE  Balance(u)'
      <4>1. Balance(u)
        BY <1>0, <2>1, <3>6 DEF TenantInvariant, HistoryBalances
      <4> QED
        BY <2>1, <3>1, <3>6, <4>1 DEF Balance
    <3> QED
      BY <3>1, <3>5, <3>6 DEF TenantInvariant, HistoryBalances
  <2>7. TrailFollowsHistory'
    BY <1>0 DEF TenantInvariant, TrailFollowsHistory
  <2> QED
    BY <2>2, <2>3, <2>5, <2>6, <2>7 DEF TenantInvariant
<1> QED
  BY <1>2, <1>3 DEF CreateTenant

\* A request finds its firm and changes the copy.
LEMMA FindKeeps ==
  ASSUME TenantInvariant, NEW r \in TenantRequest, NEW t \in Tenant, NEW op \in TenantOp,
         FindAndChange(r, op, t, Changed(op, tenant[t]))
  PROVE  TenantInvariant'
<1>0. /\ tenantReq[r] = Idle /\ tenant[t] # NoTenant
      /\ UNCHANGED <<tenant, blockHistory, trail, tenantClobbered>>
  BY DEF FindAndChange
<1>1. tenantReq[r].phase = "new" /\ TrailFollowsHistory'
  BY <1>0 DEF Idle, TenantInvariant, TrailFollowsHistory
<1>2. CASE tenantReq' = [tenantReq EXCEPT ![r] = Done]
  <2>1. Done \in RequestState /\ Done.phase = "done"
    BY DEF RequestState, Done
  <2> QED
    BY <1>0, <1>1, <1>2, <2>1, RequestMoves
<1>3. CASE \E c \in Changed(op, tenant[t]) : tenantReq' = [tenantReq EXCEPT ![r] =
             [phase |-> "found", op |-> op, id |-> t, seen |-> tenant[t], copy |-> c]]
  <2>1. PICK c \in Changed(op, tenant[t]) : tenantReq' = [tenantReq EXCEPT ![r] =
               [phase |-> "found", op |-> op, id |-> t, seen |-> tenant[t], copy |-> c]]
    BY <1>3
  <2>2. tenant[t] \in TenantRow /\ Consistent(tenant[t])
    BY <1>0 DEF TenantInvariant, TenantsTyped, ReasonWithStatus, Consistent
  <2>3. c \in TenantRow
    BY <2>1, <2>2, ChangesOfRow
  <2> DEFINE q == [phase |-> "found", op |-> op, id |-> t, seen |-> tenant[t], copy |-> c]
  <2>4. /\ q \in RequestState /\ q.phase = "found" /\ q.op = op /\ q.id = t /\ q.seen = tenant[t] /\ q.copy = c
    BY <2>2, <2>3 DEF RequestState, FoundRequest
  <2> HIDE DEF q
  <2> QED
    BY <1>0, <1>1, <2>1, <2>2, <2>4, RequestMoves DEF q
<1> QED
  BY <1>2, <1>3 DEF FindAndChange
\* A copy is saved, over whatever the row has become.
LEMMA SaveKeeps ==
  ASSUME TenantInvariant, NEW r \in TenantRequest, SaveTenant(r)
  PROVE  TenantInvariant'
<1> DEFINE p == tenantReq[r]
           q == AfterSave(p)
<1>0. p.phase = "found" /\ UNCHANGED <<blockHistory, trail>>
  BY DEF SaveTenant
<1>a. p.op \in TenantOp /\ p.id \in Tenant
  BY <1>0, ShapeOfRequest DEF TenantInvariant, InFlight
<1>b. PICK t \in Tenant, o \in TenantOp : t = p.id /\ o = p.op
  BY <1>a
<1>1. /\ p.op \in TenantOp /\ t = p.id /\ t \in Tenant /\ p.seen \in TenantRow /\ p.copy \in TenantRow
      /\ Consistent(p.seen) /\ p.copy \in Changed(p.op, p.seen) /\ tenant[t] # NoTenant
  BY <1>0, <1>b, ShapeOfRequest DEF TenantInvariant, InFlight, CopiesConsistent, FirmsBegin
<1>2. /\ Consistent(p.copy)
      /\ p.op = "update" => p.copy.status = p.seen.status
      /\ p.op = "block" => p.seen.status = "active" /\ p.copy.status = "blocked"
      /\ p.op = "unblock" => p.seen.status = "blocked" /\ p.copy.status = "active"
      /\ p.op = "deactivate" => p.copy.status = "inactive"
      /\ p.seen.status = "inactive" => p.copy.status = "inactive"
  BY <1>1, ChangesOfRow
<1>3. TrailFollowsHistory'
  BY <1>0 DEF TenantInvariant, TrailFollowsHistory
<1>4. CASE tenantReq' = [tenantReq EXCEPT ![r] = Done] /\ UNCHANGED <<tenant, tenantClobbered>>
  <2>1. Done \in RequestState /\ Done.phase = "done"
    BY DEF RequestState, Done
  <2> QED
    BY <1>0, <1>3, <1>4, <2>1, RequestMoves
<1>5. CASE /\ DocumentFree(t, p.copy.doc)
           /\ tenant' = [tenant EXCEPT ![t] = p.copy]
           /\ tenantClobbered' = IF tenant[t] = p.seen THEN tenantClobbered ELSE tenantClobbered \cup {t}
           /\ tenantReq' = [tenantReq EXCEPT ![r] = q]
  <2>0. /\ q \in RequestState /\ q.phase # "found" /\ (q.phase = "audit" => q.op \in {"update", "deactivate"})
        /\ InFlight(q) => q.id = t
        /\ p.op \in {"block", "unblock"} => q \in HistoryRequest /\ q.phase = "history" /\ q.op = p.op /\ q.id = t
        /\ p.op \notin {"block", "unblock"} => q.phase # "history"
    <3>1. CASE p.op \in {"block", "unblock"}
      <4>1. q = [phase |-> "history", op |-> p.op, id |-> t]
        BY <1>b, <3>1 DEF AfterSave
      <4> QED
        BY <1>1, <3>1, <4>1 DEF RequestState, HistoryRequest
    <3>2. CASE p.op \notin {"block", "unblock"}
      <4>1. q = Done \/ q = [phase |-> "audit", op |-> p.op, id |-> t]
        BY <1>b, <3>2 DEF AfterSave
      <4>2. p.op \in {"update", "deactivate"}
        BY <1>1, <3>2 DEF TenantOp
      <4> QED
        BY <1>1, <3>2, <4>1, <4>2 DEF RequestState, AuditRequest, Done, InFlight, TenantOp
    <3> QED
      BY <3>1, <3>2
  <2>1. /\ tenant \in [Tenant -> TenantRow \cup {NoTenant}] /\ tenant'[t] = p.copy
        /\ \A u \in Tenant \ {t} : tenant'[u] = tenant[u]
    BY <1>1, <1>5 DEF TenantInvariant, TenantsTyped
  <2> HIDE DEF q
  <2>2. TenantsTyped'
    BY <1>0, <1>1, <1>5, <2>0, <2>1 DEF TenantInvariant, TenantsTyped, RequestState
  <2>3. DocumentsUnique' /\ ReasonWithStatus'
    BY <1>1, <1>2, <1>5, <2>1 DEF TenantInvariant, DocumentsUnique, ReasonWithStatus, DocumentFree, Consistent
  <2>4. tenant'[t] # NoTenant
    BY <1>1, <2>1, TenantAssumption
  <2>5. CopiesConsistent' /\ FirmsBegin' /\ AuditFollows'
    <3>1. /\ \A u \in Tenant : tenant[u] # NoTenant => tenant'[u] # NoTenant
          /\ InFlight(q) => tenant'[q.id] # NoTenant
          /\ \A u \in Tenant : WasBlocked(u) => WasBlocked(u)'
      BY <1>0, <2>0, <2>1, <2>4 DEF WasBlocked
    <3> QED
      BY <1>0, <1>5, <2>0, <3>1, OthersKeep
  <2>6. HistoryBalances'
    <3>1. \A u \in Tenant, op \in {"block", "unblock"} : Times(u, op)' = Times(u, op)
      BY <1>0 DEF Times
    <3>a. ASSUME p.op \in {"block", "unblock"}
          PROVE  /\ Owing(t, o)' = Owing(t, o) \cup {r} /\ r \notin Owing(t, o)
                 /\ \A u \in Tenant, op \in {"block", "unblock"} : u # t \/ op # o => Owing(u, op)' = Owing(u, op)
      <4>1. q \in HistoryRequest /\ q.id = t /\ q.op = o /\ o \in {"block", "unblock"}
        BY <1>b, <2>0, <3>a
      <4>2. tenantReq[r].phase # "history" /\ TenantsTyped
        BY <1>0 DEF TenantInvariant
      <4> QED
        BY <1>5, <4>1, <4>2, OwingMore
    <3>2. \A u \in Tenant \ {t}, op \in {"block", "unblock"} : Owing(u, op)' = Owing(u, op)
      <4>1. CASE p.op \in {"block", "unblock"}
        BY <3>a, <4>1
      <4>2. CASE p.op \notin {"block", "unblock"}
        BY <1>0, <1>5, <2>0, <4>2, OwingSame DEF TenantInvariant
      <4> QED
        BY <4>1, <4>2
    <3>3. \A op \in {"block", "unblock"} :
            IF o = op
            THEN IsFiniteSet(Owing(t, op)') /\ Cardinality(Owing(t, op)') = Cardinality(Owing(t, op)) + 1
            ELSE Owing(t, op)' = Owing(t, op)
      <4>1. CASE p.op \in {"block", "unblock"}
        <5>1. o \in {"block", "unblock"}
          BY <1>b, <4>1
        <5>2. IsFiniteSet(Owing(t, o))
          BY <5>1, CountsAreNumbers
        <5>3. IsFiniteSet(Owing(t, o)') /\ Cardinality(Owing(t, o)') = Cardinality(Owing(t, o)) + 1
          BY <3>a, <4>1, <5>2, FS_AddElement
        <5> QED
          BY <3>a, <4>1, <5>3
      <4>2. CASE p.op \notin {"block", "unblock"}
        BY <1>0, <1>b, <1>5, <2>0, <4>2, OwingSame DEF TenantInvariant
      <4> QED
        BY <4>1, <4>2
    <3>4. ASSUME t \notin tenantClobbered', tenant'[t].status # "inactive" PROVE Balance(t)'
      <4>1. tenant[t] = p.seen /\ t \notin tenantClobbered /\ tenant[t].status # "inactive"
        BY <1>2, <1>5, <2>1, <3>4
      <4>2. Balance(t)
        BY <1>1, <4>1 DEF TenantInvariant, HistoryBalances
      <4> DEFINE B == Times(t, "block")
                 U == Times(t, "unblock")
                 PB == Cardinality(Owing(t, "block"))
                 PU == Cardinality(Owing(t, "unblock"))
      <4>3. B \in Nat /\ U \in Nat /\ PB \in Nat /\ PU \in Nat
        BY CountsAreNumbers
      <4>4. B + PB = U + PU + (IF tenant[t].status = "blocked" THEN 1 ELSE 0)
        BY <4>2 DEF Balance
      <4>5. SUFFICES B + Cardinality(Owing(t, "block")') =
              U + Cardinality(Owing(t, "unblock")') + (IF tenant'[t].status = "blocked" THEN 1 ELSE 0)
        BY <3>1 DEF Balance
      <4> HIDE DEF B, U
      <4>6. Cardinality(Owing(t, "block")') = IF o = "block" THEN PB + 1 ELSE PB
        BY <3>3
      <4>7. Cardinality(Owing(t, "unblock")') = IF o = "unblock" THEN PU + 1 ELSE PU
        BY <3>3
      <4> HIDE DEF PB, PU
      <4>8. tenant'[t].status = p.copy.status /\ tenant[t].status = p.seen.status /\ o = p.op
        BY <1>b, <2>1, <4>1
      <4>n. \A b, u, pb, pu \in Nat : b + pb = u + pu + 0 => b + (pb + 1) = u + pu + 1
        OBVIOUS
      <4>m. \A b, u, pb, pu \in Nat : b + pb = u + pu + 1 => b + pb = u + (pu + 1) + 0
        OBVIOUS
      <4>9. CASE o = "block"
        <5>1. tenant[t].status # "blocked" /\ tenant'[t].status = "blocked"
          BY <1>2, <4>8, <4>9
        <5> QED
          BY <4>3, <4>4, <4>6, <4>7, <4>9, <4>n, <5>1
      <4>10. CASE o = "unblock"
        <5>1. tenant[t].status = "blocked" /\ tenant'[t].status # "blocked"
          BY <1>2, <4>8, <4>10
        <5> QED
          BY <4>3, <4>4, <4>6, <4>7, <4>10, <4>m, <5>1
      <4>11. CASE o = "update"
        <5>1. tenant[t].status = tenant'[t].status
          BY <1>2, <4>8, <4>11
        <5> QED
          BY <4>3, <4>4, <4>6, <4>7, <4>11, <5>1
      <4>12. o # "deactivate"
        BY <1>2, <3>4, <4>8
      <4> QED
        BY <4>9, <4>10, <4>11, <4>12 DEF TenantOp
    <3>5. ASSUME NEW u \in Tenant \ {t}, tenant'[u] # NoTenant, u \notin tenantClobbered', tenant'[u].status # "inactive"
          PROVE  Balance(u)'
      <4>1. Balance(u)
        BY <1>5, <2>1, <3>5 DEF TenantInvariant, HistoryBalances
      <4> QED
        BY <2>1, <3>1, <3>2, <3>5, <4>1 DEF Balance
    <3> QED
      BY <1>1, <3>2, <3>3, <3>4, <3>5 DEF TenantInvariant, HistoryBalances
  <2> QED
    BY <1>3, <2>2, <2>3, <2>5, <2>6 DEF TenantInvariant
<1> QED
  BY <1>4, <1>5, <1>b DEF SaveTenant
\* The history entry is written, or its failure leaves the firm without one.
LEMMA HistoryKeeps ==
  ASSUME TenantInvariant, NEW r \in TenantRequest, SaveHistory(r)
  PROVE  TenantInvariant'
<1> DEFINE p == tenantReq[r]
<1>0. p.phase = "history" /\ UNCHANGED <<tenant, trail>>
  BY DEF SaveHistory
<1>a. p \in HistoryRequest /\ p.id \in Tenant /\ p.op \in {"block", "unblock"}
  BY <1>0, ShapeOfRequest DEF TenantInvariant, InFlight, RequestState, Idle, Done, FoundRequest, AuditRequest
<1>b. PICK t \in Tenant, o \in {"block", "unblock"} : t = p.id /\ o = p.op
  BY <1>a
<1>1. ASSUME NEW q \in RequestState, q.phase # "history", tenantReq' = [tenantReq EXCEPT ![r] = q]
      PROVE  \A u \in Tenant, op \in {"block", "unblock"} :
               IF u = t /\ op = o THEN Owing(u, op)' = Owing(u, op) \ {r} /\ r \in Owing(u, op)
               ELSE Owing(u, op)' = Owing(u, op)
  BY <1>0, <1>b, <1>1, OwingLess DEF TenantInvariant
<1>f. ASSUME NEW q \in RequestState, q.phase # "history", tenantReq' = [tenantReq EXCEPT ![r] = q],
             NEW u \in Tenant, NEW op \in {"block", "unblock"}
      PROVE  IsFiniteSet(Owing(u, op)')
  <2>1. Owing(u, op)' \subseteq Owing(u, op)
    BY <1>1, <1>f
  <2>2. IsFiniteSet(Owing(u, op))
    BY CountsAreNumbers
  <2> QED
    BY <2>1, <2>2, FS_Subset
<1>2. tenant[t] # NoTenant
  BY <1>0, <1>b DEF TenantInvariant, FirmsBegin, InFlight
<1>3. CASE /\ tenantReq' = [tenantReq EXCEPT ![r] = Done]
           /\ tenantClobbered' = tenantClobbered \cup {t}
           /\ UNCHANGED blockHistory
  <2>1. Done \in RequestState /\ Done.phase = "done"
    BY DEF RequestState, Done
  <2>2. TenantsTyped' /\ TrailFollowsHistory' /\ DocumentsUnique' /\ ReasonWithStatus'
    BY <1>0, <1>3, <2>1 DEF TenantInvariant, TenantsTyped, TrailFollowsHistory, DocumentsUnique, ReasonWithStatus,
                            RequestState
  <2>3. CopiesConsistent' /\ FirmsBegin' /\ AuditFollows'
    BY <1>0, <1>3, <2>1, OthersKeep DEF WasBlocked, InFlight
  <2>4. HistoryBalances'
    <3>1. \A u \in Tenant, op \in {"block", "unblock"} : IsFiniteSet(Owing(u, op)')
      BY <1>f, <1>3, <2>1
    <3>2. ASSUME NEW u \in Tenant, tenant'[u] # NoTenant, u \notin tenantClobbered', tenant'[u].status # "inactive"
          PROVE  Balance(u)'
      <4>1. Balance(u) /\ u # t
        BY <1>0, <1>3, <3>2 DEF TenantInvariant, HistoryBalances
      <4>2. \A op \in {"block", "unblock"} : Owing(u, op)' = Owing(u, op) /\ Times(u, op)' = Times(u, op)
        BY <1>1, <1>3, <2>1, <4>1 DEF Times
      <4> QED
        BY <1>0, <4>1, <4>2 DEF Balance
    <3> QED
      BY <3>1, <3>2 DEF HistoryBalances
  <2> QED
    BY <2>2, <2>3, <2>4 DEF TenantInvariant
<1>4. CASE /\ blockHistory' = [blockHistory EXCEPT ![t] = Append(@, o)]
           /\ tenantReq' = [tenantReq EXCEPT ![r].phase = "audit"]
           /\ UNCHANGED tenantClobbered
  <2> DEFINE q == [phase |-> "audit", op |-> o, id |-> t]
  <2>1. tenantReq' = [tenantReq EXCEPT ![r] = q]
    <3>1. [p EXCEPT !.phase = "audit"] = q
      BY <1>a, <1>b DEF HistoryRequest
    <3> QED
      BY <1>4, <3>1
  <2>2. q \in RequestState /\ q.phase = "audit" /\ q.op = o /\ q.id = t /\ InFlight(q)
    BY DEF RequestState, AuditRequest, InFlight, TenantOp
  <2> HIDE DEF q
  <2>3. /\ blockHistory \in [Tenant -> Seq({"block", "unblock"})]
        /\ blockHistory'[t] = Append(blockHistory[t], o)
        /\ \A u \in Tenant \ {t} : blockHistory'[u] = blockHistory[u]
        /\ blockHistory' \in [Tenant -> Seq({"block", "unblock"})]
    BY <1>4 DEF TenantInvariant, TenantsTyped
  <2>4. /\ \A u \in Tenant : WasBlocked(u) => WasBlocked(u)'
        /\ o = "block" => WasBlocked(t)'
    <3>1. /\ \A i \in DOMAIN blockHistory[t] : i \in DOMAIN blockHistory'[t] /\ blockHistory'[t][i] = blockHistory[t][i]
          /\ \E i \in DOMAIN blockHistory'[t] : blockHistory'[t][i] = o
      BY <2>3
    <3>2. WasBlocked(t) => WasBlocked(t)'
      BY <3>1 DEF WasBlocked
    <3>3. o = "block" => WasBlocked(t)'
      BY <3>1 DEF WasBlocked
    <3>4. \A u \in Tenant \ {t} : WasBlocked(u) => WasBlocked(u)'
      BY <2>3 DEF WasBlocked
    <3> QED
      BY <3>2, <3>3, <3>4
  <2>5. TenantsTyped' /\ DocumentsUnique' /\ ReasonWithStatus'
    <3>0. UNCHANGED tenantClobbered
      BY <1>4
    <3>1. TenantsTyped'
      BY <1>0, <2>1, <2>2, <2>3, <3>0 DEF TenantInvariant, TenantsTyped, RequestState
    <3>2. DocumentsUnique' /\ ReasonWithStatus'
      BY <1>0 DEF TenantInvariant, DocumentsUnique, ReasonWithStatus
    <3> QED
      BY <3>1, <3>2
  <2>6. CopiesConsistent' /\ FirmsBegin' /\ AuditFollows'
    BY <1>0, <1>2, <2>1, <2>2, <2>3, <2>4, OthersKeep
  <2>7. TrailFollowsHistory'
    <3>1. ASSUME NEW e \in trail, e[1] = "tenant.blocked", WasBlocked(e[2]) PROVE WasBlocked(e[2])'
      <4>1. CASE e[2] \in Tenant
        BY <2>4, <3>1, <4>1
      <4>2. CASE e[2] \notin Tenant
        BY <1>4, <2>3, <3>1, <4>2 DEF WasBlocked
      <4> QED
        BY <4>1, <4>2
    <3> QED
      BY <1>0, <3>1 DEF TenantInvariant, TrailFollowsHistory, WasBlocked
  <2>8. HistoryBalances'
    <3>1. \A u \in Tenant, op \in {"block", "unblock"} : IsFiniteSet(Owing(u, op)')
      BY <1>f, <2>1, <2>2
    <3>2. ASSUME NEW op \in {"block", "unblock"}
          PROVE  Times(t, op)' + Cardinality(Owing(t, op)') = Times(t, op) + Cardinality(Owing(t, op))
      <4>1. Times(t, op)' = Times(t, op) + (IF o = op THEN 1 ELSE 0)
        <5>1. PICK s \in Seq({"block", "unblock"}) : s = blockHistory[t]
          BY <2>3
        <5>2. Cardinality({i \in DOMAIN Append(s, o) : Append(s, o)[i] = op}) =
                Cardinality({i \in DOMAIN s : s[i] = op}) + (IF o = op THEN 1 ELSE 0)
          BY TimesAppend
        <5>3. blockHistory[t] = s /\ blockHistory'[t] = Append(s, o)
          BY <2>3, <5>1
        <5> QED
          BY <5>2, <5>3 DEF Times
      <4>2. CASE o = op
        <5>1. Owing(t, op)' = Owing(t, op) \ {r} /\ r \in Owing(t, op)
          BY <1>1, <2>1, <2>2, <4>2
        <5>2. Cardinality(Owing(t, op)') = Cardinality(Owing(t, op)) - 1
          BY <5>1, CountsAreNumbers, FS_RemoveElement
        <5> QED
          BY <4>1, <4>2, <5>2, CountsAreNumbers
      <4>3. CASE o # op
        <5>1. Owing(t, op)' = Owing(t, op)
          BY <1>1, <2>1, <2>2, <4>3
        <5>2. Times(t, op)' = Times(t, op)
          BY <4>1, <4>3, CountsAreNumbers
        <5> QED
          BY <5>1, <5>2
      <4> QED
        BY <4>2, <4>3
    <3>3. ASSUME NEW u \in Tenant, tenant'[u] # NoTenant, u \notin tenantClobbered', tenant'[u].status # "inactive"
          PROVE  Balance(u)'
      <4>1. Balance(u)
        BY <1>0, <1>4, <3>3 DEF TenantInvariant, HistoryBalances
      <4>2. CASE u = t
        BY <1>0, <3>2, <4>1, <4>2 DEF Balance
      <4>3. CASE u # t
        <5>1. \A op \in {"block", "unblock"} : Owing(u, op)' = Owing(u, op) /\ Times(u, op)' = Times(u, op)
          BY <1>1, <2>1, <2>2, <2>3, <4>3 DEF Times
        <5> QED
          BY <1>0, <4>1, <5>1 DEF Balance
      <4> QED
        BY <4>2, <4>3
    <3> QED
      BY <3>1, <3>3 DEF HistoryBalances
  <2> QED
    BY <2>5, <2>6, <2>7, <2>8 DEF TenantInvariant
<1> QED
  BY <1>3, <1>4, <1>b DEF SaveHistory

\* The audit entry is published, or its error swallowed.
LEMMA AuditKeeps ==
  ASSUME TenantInvariant, NEW r \in TenantRequest, PublishAudit(r)
  PROVE  TenantInvariant'
<1>0. /\ tenantReq[r].phase = "audit" /\ tenantReq' = [tenantReq EXCEPT ![r] = Done]
      /\ UNCHANGED <<tenant, blockHistory, tenantClobbered>>
  BY DEF PublishAudit
<1>1. Done \in RequestState /\ Done.phase = "done"
  BY DEF RequestState, Done
<1>2. TrailFollowsHistory'
  <2>1. ASSUME NEW e \in trail', e[1] = "tenant.blocked" PROVE WasBlocked(e[2])
    <3>1. CASE e \in trail
      BY <2>1, <3>1 DEF TenantInvariant, TrailFollowsHistory, WasBlocked
    <3>2. CASE e \notin trail
      <4>1. e = <<AuditAction[tenantReq[r].op], tenantReq[r].id, r>>
        BY <2>1, <3>2 DEF PublishAudit
      <4>2. tenantReq[r].op \in TenantOp \cup {"create"}
        BY <1>0, ShapeOfRequest DEF TenantInvariant
      <4>3. tenantReq[r].op = "block"
        BY <2>1, <4>1, <4>2 DEF AuditAction, TenantOp
      <4>4. WasBlocked(tenantReq[r].id)
        BY <1>0, <4>3 DEF TenantInvariant, AuditFollows
      <4> QED
        BY <4>1, <4>4
    <3> QED
      BY <3>1, <3>2
  <2> QED
    BY <1>0, <2>1 DEF TrailFollowsHistory, WasBlocked
<1> QED
  BY <1>0, <1>1, <1>2, RequestMoves

-----------------------------------------------------------------------------
\* A step of the administration.
LEMMA TenantStep ==
  ASSUME TenantInvariant, TenantNext
  PROVE  TenantInvariant'
<1>1. PICK r \in TenantRequest :
        \/ \E t \in Tenant, d \in Document : CreateTenant(r, t, d)
        \/ \E t \in Tenant :
             UpdateTenant(r, t) \/ DeactivateTenant(r, t) \/ BlockTenant(r, t) \/ UnblockTenant(r, t)
        \/ SaveTenant(r)
        \/ SaveHistory(r)
        \/ PublishAudit(r)
  BY DEF TenantNext
<1>2. ASSUME NEW t \in Tenant,
             UpdateTenant(r, t) \/ DeactivateTenant(r, t) \/ BlockTenant(r, t) \/ UnblockTenant(r, t)
      PROVE  \E op \in TenantOp : FindAndChange(r, op, t, Changed(op, tenant[t]))
  <2>1. /\ Changed("update", tenant[t]) = Update(tenant[t])
        /\ Changed("deactivate", tenant[t]) = Deactivate(tenant[t])
        /\ Changed("block", tenant[t]) = Block(tenant[t])
        /\ Changed("unblock", tenant[t]) = Unblock(tenant[t])
    BY DEF Changed
  <2> QED
    BY <1>2, <2>1 DEF UpdateTenant, DeactivateTenant, BlockTenant, UnblockTenant, TenantOp
<1> QED
  BY <1>1, <1>2, CreateKeeps, FindKeeps, SaveKeeps, HistoryKeeps, AuditKeeps

\* A step of something else.
LEMMA TenantStutter ==
  ASSUME TenantInvariant, UNCHANGED tenantVars
  PROVE  TenantInvariant'
<1>1. TenantsTyped' /\ DocumentsUnique' /\ ReasonWithStatus' /\ FirmsBegin' /\ TrailFollowsHistory'
  BY DEF TenantInvariant, TenantsTyped, DocumentsUnique, ReasonWithStatus, FirmsBegin, TrailFollowsHistory,
         tenantVars, InFlight
<1>2. CopiesConsistent'
  BY DEF TenantInvariant, CopiesConsistent, tenantVars
<1>3. HistoryBalances' /\ AuditFollows'
  <2>1. \A t \in Tenant, op \in {"block", "unblock"} : Owing(t, op)' = Owing(t, op) /\ Times(t, op)' = Times(t, op)
    BY DEF Owing, Times, tenantVars
  <2> QED
    BY <2>1 DEF TenantInvariant, HistoryBalances, Balance, AuditFollows, WasBlocked, tenantVars
<1> QED
  BY <1>1, <1>2, <1>3 DEF TenantInvariant

\* At the start there is no firm.
LEMMA TenantsBegin ==
  ASSUME TenantInit
  PROVE  TenantInvariant
<1>1. \A r \in TenantRequest : tenantReq[r] = Idle /\ tenantReq[r].phase = "new"
  BY DEF TenantInit, Idle
<1>2. \A t \in Tenant : tenant[t] = NoTenant /\ blockHistory[t] = <<>>
  BY DEF TenantInit
<1>3. TenantsTyped
  BY DEF TenantInit, TenantsTyped
<1>4. \A t \in Tenant, op \in {"block", "unblock"} : Owing(t, op) = {}
  BY <1>1 DEF Owing
<1> QED
  BY <1>1, <1>2, <1>3, <1>4, FS_EmptySet
     DEF TenantInit, TenantInvariant, DocumentsUnique, ReasonWithStatus, CopiesConsistent, FirmsBegin, HistoryBalances,
         AuditFollows, TrailFollowsHistory, InFlight

\* The invariant says what the administration keeps.
LEMMA TenantsAreSoundHere ==
  ASSUME TenantInvariant
  PROVE  TenantsAreSound
<1>1. TenantTypeOK
  <2>1. ASSUME NEW r \in TenantRequest
        PROVE  \/ tenantReq[r] \in {Idle, Done}
               \/ /\ tenantReq[r].phase \in {"found", "history", "audit"}
                  /\ tenantReq[r].op \in TenantOp \cup {"create"}
                  /\ tenantReq[r].id \in Tenant
                  /\ tenantReq[r].phase = "found" => {tenantReq[r].seen, tenantReq[r].copy} \subseteq TenantRow
    <3> DEFINE q == tenantReq[r]
    <3>1. /\ q.phase \in {"found", "history", "audit"} \/ q \in {Idle, Done}
          /\ InFlight(q) => q.id \in Tenant
          /\ q.phase = "found" => q.op \in TenantOp /\ q.seen \in TenantRow /\ q.copy \in TenantRow
          /\ q.phase = "history" => q.op \in {"block", "unblock"}
          /\ q.phase = "audit" => q.op \in TenantOp \cup {"create"}
      BY ShapeOfRequest DEF TenantInvariant
    <3> HIDE DEF q
    <3> QED
      BY <3>1 DEF q, InFlight, TenantOp
  <2> QED
    BY <2>1 DEF TenantInvariant, TenantsTyped, TenantTypeOK
<1>2. HistoryExplainsStatus
  <2>1. ASSUME NEW t \in Tenant, tenant[t] # NoTenant, t \notin tenantClobbered, tenant[t].status # "inactive",
               \A r \in TenantRequest : tenantReq[r].phase = "history" => tenantReq[r].id # t
        PROVE  Times(t, "block") = Times(t, "unblock") + (IF tenant[t].status = "blocked" THEN 1 ELSE 0)
    <3>1. Owing(t, "block") = {} /\ Owing(t, "unblock") = {}
      BY <2>1 DEF Owing
    <3>2. Balance(t)
      BY <2>1 DEF TenantInvariant, HistoryBalances
    <3> QED
      BY <3>1, <3>2, FS_EmptySet, CountsAreNumbers DEF Balance
  <2> QED
    BY <2>1 DEF HistoryExplainsStatus
<1> QED
  BY <1>1, <1>2 DEF TenantInvariant, TenantsAreSound
-----------------------------------------------------------------------------
\* For any number of firms and requests, TenantInvariant holds always.
THEOREM TenantInvariantHolds == TenantSpec => []TenantInvariant
<1>1. TenantInit => TenantInvariant
  BY TenantsBegin
<1>2. TenantInvariant /\ [TenantNext]_tenantVars => TenantInvariant'
  BY TenantStep, TenantStutter
<1> QED
  BY <1>1, <1>2, PTL DEF TenantSpec

\* Documents stay unique, a status has its reason, and the history and the
\* trail account for the status of a firm, however the finds and saves of its
\* requests interleave and whichever of them fail.
THEOREM TenantsStaySound == TenantSpec => []TenantsAreSound
<1>1. TenantInvariant => TenantsAreSound
  BY TenantsAreSoundHere
<1> QED
  BY <1>1, TenantInvariantHolds, PTL

\* A step out of "inactive" is the save of a stale copy.
LEMMA InactiveStep ==
  ASSUME TenantInvariant, TenantNext, NEW t \in Tenant,
         tenant[t] # NoTenant, tenant[t].status = "inactive", tenant'[t].status # "inactive"
  PROVE  t \in tenantClobbered'
<1>1. tenant'[t] # tenant[t]
  OBVIOUS
<1>2. PICK r \in TenantRequest : (\E u \in Tenant, d \in Document : CreateTenant(r, u, d)) \/ SaveTenant(r)
  BY <1>1 DEF TenantNext, UpdateTenant, DeactivateTenant, BlockTenant, UnblockTenant, FindAndChange, SaveHistory,
              PublishAudit
<1>3. ASSUME NEW u \in Tenant, NEW d \in Document, CreateTenant(r, u, d) PROVE FALSE
  BY <1>1, <1>3 DEF CreateTenant, TenantInvariant, TenantsTyped
<1>4. ASSUME SaveTenant(r) PROVE t \in tenantClobbered'
  <2> DEFINE p == tenantReq[r]
  <2>1. /\ p.phase = "found" /\ tenant' = [tenant EXCEPT ![p.id] = p.copy]
        /\ tenantClobbered' = IF tenant[p.id] = p.seen THEN tenantClobbered ELSE tenantClobbered \cup {p.id}
    BY <1>1, <1>4 DEF SaveTenant
  <2>2. t = p.id /\ tenant'[t] = p.copy
    BY <1>1, <2>1 DEF TenantInvariant, TenantsTyped
  <2>3. p.seen.status = "inactive" => p.copy.status = "inactive"
    BY <2>1, ShapeOfRequest, ChangesOfRow DEF TenantInvariant, CopiesConsistent
  <2> QED
    BY <2>1, <2>2, <2>3
<1> QED
  BY <1>2, <1>3, <1>4
-----------------------------------------------------------------------------
(* The two loops of the calendar, on any calendar on which open days go on. *)

\* Somewhere after every day there is an open one.
OpensAgain(D) == D \subseteq Int /\ \A d \in Int : \E n \in Nat : d + n \in D
OpenDaysGoOn == OpensAgain(OpenDay)

\* A set of numbers has a least one.
LEMMA LeastNumber ==
  ASSUME NEW S \in SUBSET Nat, S # {}
  PROVE  \E x \in S : \A y \in S : x <= y
<1>1. S \subseteq Nat
  OBVIOUS
<1>2. PICK x \in S : \A y \in S : ~(<<y, x>> \in OpToRel(<, Nat))
  BY <1>1, WFMin, NatLessThanWellFounded, Zenon
<1>3. \A y \in S : ~(y < x)
  <2>1. ASSUME NEW y \in S, y < x PROVE FALSE
    <3>1. <<y, x>> \in OpToRel(<, Nat)
      BY <1>1, <2>1 DEF OpToRel
    <3> QED
      BY <1>2, <3>1
  <2> QED
    BY <2>1
<1>4. \A y \in S : x <= y
  BY <1>1, <1>3
<1> QED
  BY <1>4

\* The first open day from a day on.
IsNextOpen(D, d, e) == e \in Int /\ e >= d /\ e \in D /\ \A k \in d .. e - 1 : k \notin D

\* There is one.
LEMMA NextOpenExists ==
  ASSUME NEW D, OpensAgain(D), NEW d \in Int
  PROVE  \E e \in Int : IsNextOpen(D, d, e)
<1> DEFINE S == {n \in Nat : d + n \in D}
<1>1. S # {} /\ S \in SUBSET Nat
  BY DEF OpensAgain
<1>2. PICK n \in S : \A m \in S : n <= m
  BY <1>1, LeastNumber
<1>3. \A k \in d .. d + n - 1 : k \notin D
  <2>1. ASSUME NEW k \in d .. d + n - 1, k \in D PROVE FALSE
    <3>1. k - d \in S
      BY <2>1
    <3> QED
      BY <1>2, <3>1
  <2> QED
    BY <2>1
<1> QED
  BY <1>2, <1>3 DEF IsNextOpen

\* The loop ends on the first open day.
LEMMA NextOpenIs ==
  ASSUME NEW D, OpensAgain(D), NEW day \in Int
  PROVE  IsNextOpen(D, day, NextOpen(D, day))
<1> DEFINE Body(f) == [d \in Int |-> IF d \in D THEN d ELSE f[d + 1]]
           h == [d \in Int |-> CHOOSE e \in Int : IsNextOpen(D, d, e)]
           next == CHOOSE f : f = Body(f)
<1>1. \A d \in Int : IsNextOpen(D, d, h[d])
  BY NextOpenExists
<1>2. \A d, e, g : d \in Int /\ IsNextOpen(D, d, e) /\ IsNextOpen(D, d, g) => e = g
  BY DEF IsNextOpen
<1>3. h = Body(h)
  <2>1. ASSUME NEW d \in Int PROVE h[d] = IF d \in D THEN d ELSE h[d + 1]
    <3>1. CASE d \in D
      <4>1. IsNextOpen(D, d, d)
        BY <3>1 DEF IsNextOpen
      <4> QED
        BY <1>1, <1>2, <3>1, <4>1
    <3>2. CASE d \notin D
      <4> DEFINE e == h[d + 1]
      <4>1. IsNextOpen(D, d + 1, e)
        BY <1>1
      <4> HIDE DEF e
      <4>2. IsNextOpen(D, d, e)
        BY <3>2, <4>1 DEF IsNextOpen
      <4> QED
        BY <1>1, <1>2, <3>2, <4>2 DEF e
    <3> QED
      BY <3>1, <3>2
  <2>2. Body(h) = [d \in Int |-> h[d]]
    <3> HIDE DEF h
    <3> QED
      BY <2>1
  <2> QED
    BY <2>2
<1>4. next = Body(next)
  <2> HIDE DEF Body, h
  <2> QED
    BY <1>3
<1>5. NextOpen(D, day) = next[day]
  BY DEF NextOpen
<1> HIDE DEF h, next
<1>6. \A d \in Int : next[d] = IF d \in D THEN d ELSE next[d + 1]
  BY <1>4
<1>7. PICK e \in Int : IsNextOpen(D, day, e)
  BY NextOpenExists
<1>8. \A k \in day .. e : next[k] = e
  <2> DEFINE S == {n \in Nat : n <= e - day /\ next[e - n] # e}
  <2>1. SUFFICES ASSUME S # {} PROVE FALSE
    <3>1. \A n \in Nat : n <= e - day => next[e - n] = e
      BY <2>1
    <3>2. ASSUME NEW k \in day .. e PROVE next[k] = e
      <4>1. e - k \in Nat /\ e - k <= e - day /\ e - (e - k) = k
        OBVIOUS
      <4> QED
        BY <3>1, <4>1
    <3> QED
      BY <3>2
  <2>2. PICK n \in S : \A m \in S : n <= m
    BY <2>1, LeastNumber
  <2>3. n # 0
    <3>1. next[e] = e
      BY <1>6, <1>7 DEF IsNextOpen
    <3> QED
      BY <3>1, <2>2
  <2>4. n - 1 \in Nat /\ n - 1 \notin S /\ n - 1 <= e - day
    BY <2>2, <2>3
  <2>5. next[e - (n - 1)] = e
    BY <2>4
  <2>6. e - n \in day .. e - 1 /\ e - n \notin D /\ (e - n) + 1 = e - (n - 1)
    BY <1>7, <2>2, <2>3 DEF IsNextOpen
  <2> QED
    BY <1>6, <2>2, <2>5, <2>6
<1> QED
  BY <1>5, <1>7, <1>8 DEF IsNextOpen

\* What the loop has computed after n rounds.
Rounds(D, day, n, g) ==
  /\ g \in [0 .. n -> Int]
  /\ g[0] = NextOpen(D, day)
  /\ \A k \in 1 .. n : g[k] = NextOpen(D, g[k - 1] + 1)

\* For any number of rounds.
LEMMA RoundsExist ==
  ASSUME NEW D, OpensAgain(D), NEW day \in Int, NEW n \in Nat
  PROVE  \E g : Rounds(D, day, n, g)
<1> DEFINE S == {k \in Nat : ~\E g : Rounds(D, day, k, g)}
<1>1. SUFFICES ASSUME S # {} PROVE FALSE
  OBVIOUS
<1>2. PICK k \in S : \A m \in S : k <= m
  BY <1>1, LeastNumber
<1>3. \A d \in Int : NextOpen(D, d) \in Int
  BY NextOpenIs DEF IsNextOpen
<1>4. CASE k = 0
  <2> DEFINE g == [i \in 0 .. 0 |-> NextOpen(D, day)]
  <2>1. Rounds(D, day, 0, g)
    BY <1>3 DEF Rounds
  <2> QED
    BY <1>2, <1>4, <2>1
<1>5. CASE k # 0
  <2>1. k - 1 \in Nat /\ k - 1 \notin S
    BY <1>2, <1>5
  <2>2. PICK f : Rounds(D, day, k - 1, f)
    BY <2>1
  <2> DEFINE g == [i \in 0 .. k |-> IF i = k THEN NextOpen(D, f[k - 1] + 1) ELSE f[i]]
  <2>3. Rounds(D, day, k, g)
    <3>1. f \in [0 .. k - 1 -> Int] /\ f[k - 1] \in Int
      BY <2>1, <2>2 DEF Rounds
    <3>2. NextOpen(D, f[k - 1] + 1) \in Int
      BY <1>3, <3>1
    <3>3. g \in [0 .. k -> Int]
      BY <3>1, <3>2
    <3>4. \A i \in 0 .. k - 1 : g[i] = f[i]
      BY <1>2, <1>5
    <3>5. g[0] = NextOpen(D, day)
      BY <1>2, <1>5, <2>2, <3>4 DEF Rounds
    <3>6. ASSUME NEW i \in 1 .. k PROVE g[i] = NextOpen(D, g[i - 1] + 1)
      <4>1. g[i - 1] = f[i - 1]
        BY <1>2, <3>4, <3>6
      <4>2. CASE i = k
        BY <1>2, <4>1, <4>2
      <4>3. CASE i # k
        <5>1. i \in 1 .. k - 1
          BY <1>2, <4>3
        <5>2. g[i] = f[i]
          BY <1>2, <3>4, <5>1
        <5>3. f[i] = NextOpen(D, f[i - 1] + 1)
          BY <2>2, <5>1 DEF Rounds
        <5> QED
          BY <4>1, <5>2, <5>3
      <4> QED
        BY <4>2, <4>3
    <3> HIDE DEF g
    <3> QED
      BY <3>3, <3>5, <3>6 DEF Rounds
  <2> QED
    BY <1>2, <2>3
<1> QED
  BY <1>4, <1>5

\* The rounds are determined.
LEMMA RoundsAgree ==
  ASSUME NEW D, NEW day \in Int, NEW n \in Nat, NEW m \in Nat, n <= m, NEW f, NEW g,
         Rounds(D, day, n, f), Rounds(D, day, m, g)
  PROVE  \A k \in 0 .. n : f[k] = g[k]
<1> DEFINE S == {k \in Nat : k <= n /\ f[k] # g[k]}
<1>1. SUFFICES ASSUME S # {} PROVE FALSE
  OBVIOUS
<1>2. PICK k \in S : \A i \in S : k <= i
  BY <1>1, LeastNumber
<1>3. k # 0
  BY <1>2 DEF Rounds
<1>4. k - 1 \in Nat /\ k - 1 <= n /\ k \in 1 .. n /\ k \in 1 .. m
  BY <1>2, <1>3
<1>5. f[k - 1] = g[k - 1]
  BY <1>2, <1>4
<1> QED
  BY <1>2, <1>4, <1>5 DEF Rounds

\* What the loop returns is what its rounds compute.
LEMMA AddOpenIs ==
  ASSUME NEW D, OpensAgain(D), NEW day \in Int, NEW n \in Nat
  PROVE  \E g : Rounds(D, day, n, g) /\ AddOpen(D, day, n) = g[n]
<1> DEFINE R(k) == CHOOSE g : Rounds(D, day, k, g)
           h == [k \in Nat |-> R(k)[k]]
           Body(f) == [k \in Nat |-> IF k = 0 THEN NextOpen(D, day) ELSE NextOpen(D, f[k - 1] + 1)]
           add == CHOOSE f : f = Body(f)
<1>1. \A k \in Nat : Rounds(D, day, k, R(k))
  BY RoundsExist
<1> HIDE DEF R
<1>2. h = Body(h)
  <2>1. ASSUME NEW k \in Nat
        PROVE  h[k] = IF k = 0 THEN NextOpen(D, day) ELSE NextOpen(D, h[k - 1] + 1)
    <3>1. CASE k = 0
      BY <1>1, <3>1 DEF Rounds
    <3>2. CASE k # 0
      <4>1. k - 1 \in Nat /\ k - 1 <= k /\ k \in 1 .. k /\ k - 1 \in 0 .. k - 1
        BY <3>2
      <4>2. R(k - 1)[k - 1] = R(k)[k - 1]
        BY <1>1, <4>1, RoundsAgree
      <4>3. R(k)[k] = NextOpen(D, R(k)[k - 1] + 1)
        BY <1>1, <4>1 DEF Rounds
      <4> QED
        BY <3>2, <4>1, <4>2, <4>3
    <3> QED
      BY <3>1, <3>2
  <2> QED
    BY <2>1
<1>3. add = Body(add)
  <2> HIDE DEF Body, h
  <2> QED
    BY <1>2
<1>4. AddOpen(D, day, n) = add[n]
  BY DEF AddOpen
<1> HIDE DEF add
<1>5. \A k \in Nat : add[k] = IF k = 0 THEN NextOpen(D, day) ELSE NextOpen(D, add[k - 1] + 1)
  BY <1>3
<1>6. \A k \in 0 .. n : add[k] = R(n)[k]
  <2> DEFINE S == {k \in Nat : k <= n /\ add[k] # R(n)[k]}
  <2>1. SUFFICES ASSUME S # {} PROVE FALSE
    OBVIOUS
  <2>2. PICK k \in S : \A i \in S : k <= i
    BY <2>1, LeastNumber
  <2>3. k # 0
    BY <1>1, <1>5, <2>2 DEF Rounds
  <2>4. k - 1 \in Nat /\ k - 1 <= n /\ k \in 1 .. n
    BY <2>2, <2>3
  <2>5. add[k - 1] = R(n)[k - 1]
    BY <2>2, <2>4
  <2> QED
    BY <1>1, <1>5, <2>2, <2>3, <2>4, <2>5 DEF Rounds
<1> QED
  BY <1>1, <1>4, <1>6

\* The open days after one day up to another.
OpenBetween(D, d, e) == {x \in d + 1 .. e : x \in D}

\* The loop ends on an open day and has passed as many as it has rounds.
LEMMA GraceCounts ==
  ASSUME NEW D, OpensAgain(D), NEW day \in Int, NEW n \in Nat
  PROVE  /\ AddOpen(D, day, n) \in D /\ AddOpen(D, day, n) >= NextOpen(D, day)
         /\ Cardinality(OpenBetween(D, NextOpen(D, day), AddOpen(D, day, n))) = n
<1>1. PICK g : Rounds(D, day, n, g) /\ AddOpen(D, day, n) = g[n]
  BY AddOpenIs
<1> DEFINE first == NextOpen(D, day)
           P(k) == /\ g[k] \in Int /\ g[k] \in D /\ g[k] >= first
                   /\ IsFiniteSet(OpenBetween(D, first, g[k])) /\ Cardinality(OpenBetween(D, first, g[k])) = k
           S == {k \in Nat : k <= n /\ ~P(k)}
<1>2. first \in Int /\ first \in D /\ g[0] = first
  BY <1>1, NextOpenIs DEF Rounds, IsNextOpen
<1> HIDE DEF first
<1>3. SUFFICES ASSUME S # {} PROVE FALSE
  BY <1>1 DEF first
<1>4. PICK k \in S : \A i \in S : k <= i
  BY <1>3, LeastNumber
<1>5. k # 0
  <2>1. OpenBetween(D, first, first) = {}
    BY <1>2 DEF OpenBetween
  <2>2. P(0)
    BY <1>2, <2>1, FS_EmptySet
  <2> QED
    BY <1>4, <2>2
<1>6. k - 1 \in Nat /\ k - 1 <= n /\ k \in 1 .. n
  BY <1>4, <1>5
<1>7. P(k - 1)
  BY <1>4, <1>6
<1>8. g[k] = NextOpen(D, g[k - 1] + 1)
  BY <1>1, <1>6 DEF Rounds
<1>9. IsNextOpen(D, g[k - 1] + 1, g[k])
  BY <1>7, <1>8, NextOpenIs
<1>10. /\ g[k] \in Int /\ g[k] >= first /\ g[k] > g[k - 1] /\ g[k] \in D
       /\ \A x \in g[k - 1] + 1 .. g[k] - 1 : x \notin D
  BY <1>2, <1>7, <1>9 DEF IsNextOpen
<1> DEFINE A == OpenBetween(D, first, g[k - 1])
           B == OpenBetween(D, first, g[k])
<1>11. g[k] \notin A /\ B = A \cup {g[k]}
  BY <1>2, <1>7, <1>10 DEF OpenBetween
<1>12. IsFiniteSet(A) /\ Cardinality(A) = k - 1
  BY <1>7
<1> HIDE DEF A, B
<1>13. IsFiniteSet(B) /\ Cardinality(B) = k
  BY <1>6, <1>11, <1>12, FS_AddElement
<1> QED
  BY <1>4, <1>10, <1>13 DEF B

\* So at least n open days are over when the tolerance is.
LEMMA GraceIsOpen ==
  ASSUME NEW D, OpensAgain(D), NEW day \in Int, NEW n \in Nat
  PROVE  /\ AddOpen(D, day, n) \in Int
         /\ Cardinality(OpenBetween(D, day, AddOpen(D, day, n))) >= n
<1> DEFINE first == NextOpen(D, day)
           end == AddOpen(D, day, n)
           A == OpenBetween(D, first, end)
           B == OpenBetween(D, day, end)
<1>1. first \in Int /\ first >= day
  BY NextOpenIs DEF IsNextOpen
<1>2. end \in Int /\ Cardinality(A) = n
  BY GraceCounts DEF OpensAgain
<1> HIDE DEF first, end
<1>3. A \subseteq B /\ B \subseteq day + 1 .. end
  BY <1>1, <1>2 DEF OpenBetween
<1>4. IsFiniteSet(B) /\ Cardinality(A) <= Cardinality(B) /\ Cardinality(B) \in Nat
  <2> HIDE DEF A, B
  <2>1. IsFiniteSet(day + 1 .. end)
    BY <1>2, FS_Interval
  <2> QED
    BY <1>3, <2>1, FS_Subset, FS_CardinalityType
<1> HIDE DEF A
<1> QED
  BY <1>2, <1>4 DEF end

-----------------------------------------------------------------------------
(* The invariant of the payments.                                          *)

Complete == {c \in BillingColumns : CompleteConfig(c)}
Configs == UNION {[D -> Complete] : D \in SUBSET Tenant}
Todos == UNION {[D -> SUBSET Int] : D \in SUBSET Tenant}
RowCopies == UNION {[D -> PaymentRow] : D \in SUBSET PaymentId}
Generating == [phase : {"generate"}, at : Tenant \cup {NoTenant}, config : Configs, todo : Todos]
Listing == [phase : {"list"}, config : Configs]
Refreshing == [phase : {"refresh"}, rows : RowCopies]
CronState == {Off} \cup Generating \cup Listing \cup Refreshing
FoundPayment == [phase : {"found"}, id : PaymentId, seen : PaymentRow, copy : PaymentRow]

BillingTyped ==
  /\ today \in 0 .. LastDay
  /\ payment \in [PaymentId -> PaymentRow \cup {NoPayment}]
  /\ cron \in CronState
  /\ cron.phase = "generate" => DOMAIN cron.todo = DOMAIN cron.config
  /\ cronRan \in BOOLEAN
  /\ payReq \in [PayRequest -> {Idle, Done} \cup FoundPayment]
  /\ payClobbered \subseteq PaymentId

\* What is true of a row is true of every copy of it.
RowIsSound(p, row) ==
  /\ row.status = "pago" <=> row.paidOn # NoDate
  /\ row.status = "cancelado" <=> row.cancelledOn # NoDate
  /\ row.status = "atrasado" => Cardinality(OpenBetween(OpenDay, row.due, today - 1)) >= Grace
  /\ p \in Tenant \X Month => row.due \notin ClosedDay /\ row.due >= FirstDay(p[2])

RowsSound == \A p \in PaymentId : payment[p] # NoPayment => RowIsSound(p, payment[p])
AdminsSound ==
  \A r \in PayRequest : payReq[r].phase = "found" =>
    /\ payReq[r].seen.status \in {"pendente", "atrasado"}
    /\ RowIsSound(payReq[r].id, payReq[r].copy)
CronSound ==
  cron.phase = "refresh" => \A p \in DOMAIN cron.rows :
    cron.rows[p].status = "pendente" /\ RowIsSound(p, cron.rows[p])

\* The months a firm is to be billed for.
Billable(c, m) ==
  /\ c.start <= today /\ MonthOf(c.start) <= m /\ FirstDay(m) <= today
  /\ c.plan = "mensal" \/ \E k \in 0 .. Cardinality(Month) : m = MonthOf(c.start) + k * YearLength
\* Each is billed or still to do.
Gapless ==
  /\ cron.phase = "generate" => \A t \in DOMAIN cron.config, m \in Month :
       Billable(cron.config[t], m) => m \in cron.todo[t] \/ payment[<<t, m>>] # NoPayment
  /\ cron.phase = "list" => \A t \in DOMAIN cron.config, m \in Month :
       Billable(cron.config[t], m) => payment[<<t, m>>] # NoPayment

BillingInvariant ==
  BillingTyped /\ RowsSound /\ AdminsSound /\ CronSound /\ Gapless
-----------------------------------------------------------------------------
(* Days, months and rows.                                                  *)

\* A month that has begun is not after the month of the day.
LEMMA MonthBegun ==
  ASSUME NEW m \in Int, NEW day \in Int, FirstDay(m) <= day
  PROVE  m <= MonthOf(day)
<1>1. MonthLength \in Nat \ {0}
  BY BillingAssumption
<1> QED
  BY <1>1 DEF FirstDay, MonthOf

\* A multiple of a year leaves nothing.
LEMMA YearsLeaveNothing ==
  ASSUME NEW k \in Nat
  PROVE  (k * YearLength) % YearLength = 0
<1>1. YearLength \in Nat \ {0}
  BY BillingAssumption
<1> QED
  BY <1>1

\* Months are numbers.
LEMMA MonthsAreNumbers ==
  /\ \A d \in Int : MonthOf(d) \in Int /\ FirstDay(d) \in Int
  /\ Month \subseteq Nat /\ Cardinality(Month) \in Nat
<1>1. MonthLength \in Nat \ {0} /\ LastDay \in Nat
  BY BillingAssumption
<1>2. \A d \in Int : MonthOf(d) \in Int /\ FirstDay(d) \in Int
  BY <1>1 DEF MonthOf, FirstDay
<1>3. MonthOf(LastDay) \in Int
  BY <1>1, <1>2
<1>4. IsFiniteSet(Month) /\ Month \subseteq Nat
  BY <1>3, FS_Interval DEF Month
<1> QED
  BY <1>2, <1>4, FS_CardinalityType

\* Counts of open days, which only grow with the day.
LEMMA OpenGrows ==
  ASSUME NEW d \in Int, NEW e \in Int, NEW f \in Int, e <= f
  PROVE  /\ Cardinality(OpenBetween(OpenDay, d, e)) \in Nat /\ Cardinality(OpenBetween(OpenDay, d, f)) \in Nat
         /\ Cardinality(OpenBetween(OpenDay, d, e)) <= Cardinality(OpenBetween(OpenDay, d, f))
<1>1. IsFiniteSet(d + 1 .. f)
  BY FS_Interval
<1>2. OpenBetween(OpenDay, d, f) \subseteq d + 1 .. f /\ OpenBetween(OpenDay, d, e) \subseteq OpenBetween(OpenDay, d, f)
  BY DEF OpenBetween
<1>3. IsFiniteSet(OpenBetween(OpenDay, d, f))
  BY <1>1, <1>2, FS_Subset
<1> QED
  BY <1>2, <1>3, FS_Subset, FS_CardinalityType

\* A sound row stays so as days go by.
LEMMA SoundLater ==
  ASSUME NEW p, NEW row \in PaymentRow, RowIsSound(p, row), today \in Int, today' \in Int, today <= today'
  PROVE  RowIsSound(p, row)'
<1>a. row.due \in Int
  BY DEF PaymentRow
<1>b. today - 1 \in Int /\ today' - 1 \in Int /\ today - 1 <= today' - 1
  <2>1. \A x, y \in Int : x <= y => x - 1 \in Int /\ y - 1 \in Int /\ x - 1 <= y - 1
    OBVIOUS
  <2> QED
    BY <2>1
<1>1. row.due \in Int /\ today - 1 \in Int /\ today' - 1 \in Int /\ today - 1 <= today' - 1
  BY <1>a, <1>b
<1>2. /\ Cardinality(OpenBetween(OpenDay, row.due, today - 1)) \in Nat
      /\ Cardinality(OpenBetween(OpenDay, row.due, today' - 1)) \in Nat
      /\ Cardinality(OpenBetween(OpenDay, row.due, today - 1)) <= Cardinality(OpenBetween(OpenDay, row.due, today' - 1))
  BY <1>1, OpenGrows
<1>3. (row.status = "atrasado" => Cardinality(OpenBetween(OpenDay, row.due, today - 1)) >= Grace)
       => (row.status = "atrasado" => Cardinality(OpenBetween(OpenDay, row.due, today' - 1)) >= Grace)
  BY <1>2, BillingAssumption
<1> QED
  BY <1>3 DEF RowIsSound

\* A row is no absent row.
LEMMA RowsArePresent ==
  ASSUME NEW row \in PaymentRow
  PROVE  row # NoPayment
BY DEF PaymentRow, NoPayment

\* Paying and cancelling make sound rows of sound rows that are not settled.
LEMMA SettlingIsSound ==
  ASSUME BillingTyped, NEW id, NEW row \in PaymentRow, RowIsSound(id, row),
         NEW c \in MarkAsPaid(row) \cup Cancel(row)
  PROVE  c \in PaymentRow /\ RowIsSound(id, c) /\ row.status \in {"pendente", "atrasado"}
<1>1. today \in Int /\ today # NoDate
  BY BillingAssumption DEF BillingTyped, NoDate
<1>2. CASE c \in MarkAsPaid(row)
  <2>1. row.status \in {"pendente", "atrasado"} /\ c = [row EXCEPT !.status = "pago", !.paidOn = today]
    BY <1>2 DEF MarkAsPaid
  <2>2. /\ c \in PaymentRow /\ c.status = "pago" /\ c.paidOn = today /\ c.due = row.due
        /\ c.cancelledOn = row.cancelledOn
    BY <1>1, <2>1 DEF PaymentRow
  <2> QED
    BY <1>1, <2>1, <2>2 DEF RowIsSound
<1>3. CASE c \in Cancel(row)
  <2>1. row.status \notin {"pago", "cancelado"} /\ c = [row EXCEPT !.status = "cancelado", !.cancelledOn = today]
    BY <1>3 DEF Cancel
  <2>2. /\ c \in PaymentRow /\ c.status = "cancelado" /\ c.cancelledOn = today /\ c.due = row.due
        /\ c.paidOn = row.paidOn /\ row.status \in {"pendente", "atrasado"}
    BY <1>1, <2>1 DEF PaymentRow
  <2> QED
    BY <1>1, <2>1, <2>2 DEF RowIsSound
<1> QED
  BY <1>2, <1>3

\* A new payment is sound if it is due when it should be.
LEMMA NewIsSound ==
  ASSUME NEW p, NEW t \in Tenant, NEW due \in Int,
         p \in Tenant \X Month => due \notin ClosedDay /\ due >= FirstDay(p[2])
  PROVE  NewPayment(t, due) \in PaymentRow /\ RowIsSound(p, NewPayment(t, due))
BY DEF NewPayment, PaymentRow, RowIsSound, NoDate

\* A late row is a pending one whose tolerance is over.
LEMMA LateIsSound ==
  ASSUME OpenDaysGoOn, BillingTyped, NEW p, NEW row \in PaymentRow, RowIsSound(p, row), row.status = "pendente",
         PastDeadline(row)
  PROVE  [row EXCEPT !.status = "atrasado"] \in PaymentRow /\ RowIsSound(p, [row EXCEPT !.status = "atrasado"])
<1> DEFINE late == [row EXCEPT !.status = "atrasado"]
           end == AddOpen(OpenDay, row.due, Grace)
<1>1. /\ late \in PaymentRow /\ late.status = "atrasado" /\ late.due = row.due
      /\ late.paidOn = row.paidOn /\ late.cancelledOn = row.cancelledOn /\ row.due \in Int
  BY DEF PaymentRow
<1> HIDE DEF late
<1>2. end \in Int /\ Cardinality(OpenBetween(OpenDay, row.due, end)) >= Grace /\ Grace \in Nat
  BY <1>1, GraceIsOpen, BillingAssumption DEF OpenDaysGoOn
<1>3. today > end /\ today \in Int
  BY BillingAssumption DEF PastDeadline, BillingTyped
<1> HIDE DEF end
<1>4. today - 1 \in Int /\ end <= today - 1
  BY <1>2, <1>3
<1>5. Cardinality(OpenBetween(OpenDay, row.due, today - 1)) >= Grace
  <2> DEFINE over == Cardinality(OpenBetween(OpenDay, row.due, end))
             now == Cardinality(OpenBetween(OpenDay, row.due, today - 1))
  <2>1. over \in Nat /\ now \in Nat /\ over <= now
    BY <1>1, <1>2, <1>4, OpenGrows
  <2>2. over >= Grace /\ Grace \in Nat
    BY <1>2
  <2> HIDE DEF over, now
  <2>3. now >= Grace
    BY <2>1, <2>2
  <2> QED
    BY <2>3 DEF now
<1> QED
  BY <1>1, <1>5 DEF RowIsSound, late

-----------------------------------------------------------------------------
(* The scheduler's run and the requests.                                   *)

\* The fields of the run at each step.
LEMMA ShapeOfCron ==
  ASSUME BillingTyped
  PROVE  /\ cron.phase \in {"off", "generate", "list", "refresh"}
         /\ cron.phase = "off" => cron = Off
         /\ cron.phase = "generate" =>
              /\ cron \in Generating
              /\ DOMAIN cron.config \subseteq Tenant /\ DOMAIN cron.todo = DOMAIN cron.config
              /\ \A t \in DOMAIN cron.config : cron.config[t] \in Complete /\ cron.todo[t] \subseteq Int
         /\ cron.phase = "list" =>
              /\ cron \in Listing
              /\ DOMAIN cron.config \subseteq Tenant
              /\ \A t \in DOMAIN cron.config : cron.config[t] \in Complete
         /\ cron.phase = "refresh" =>
              /\ cron \in Refreshing /\ DOMAIN cron.rows \subseteq PaymentId
              /\ \A p \in DOMAIN cron.rows : cron.rows[p] \in PaymentRow
<1>1. cron \in CronState /\ (cron.phase = "generate" => DOMAIN cron.todo = DOMAIN cron.config)
  BY DEF BillingTyped
<1>2. CASE cron = Off
  BY <1>2 DEF Off
<1>3. CASE cron \in Generating
  <2>1. cron.phase = "generate" /\ cron.config \in Configs /\ cron.todo \in Todos
    BY <1>3 DEF Generating
  <2>2. DOMAIN cron.config \subseteq Tenant /\ \A t \in DOMAIN cron.config : cron.config[t] \in Complete
    BY <2>1 DEF Configs
  <2>3. \A t \in DOMAIN cron.todo : cron.todo[t] \subseteq Int
    BY <2>1 DEF Todos
  <2> QED
    BY <1>1, <1>3, <2>1, <2>2, <2>3
<1>4. CASE cron \in Listing
  BY <1>4 DEF Listing, Configs
<1>5. CASE cron \in Refreshing
  BY <1>5 DEF Refreshing, RowCopies
<1> QED
  BY <1>1, <1>2, <1>3, <1>4, <1>5 DEF CronState

\* The fields of a request.
LEMMA ShapeOfPayRequest ==
  ASSUME BillingTyped, NEW r \in PayRequest
  PROVE  /\ payReq[r].phase \in {"new", "done", "found"}
         /\ payReq[r].phase = "found" =>
              payReq[r].id \in PaymentId /\ payReq[r].seen \in PaymentRow /\ payReq[r].copy \in PaymentRow
BY DEF BillingTyped, FoundPayment, Idle, Done

\* A step of the same day that leaves the run alone, or ends it, and puts no
\* payment away.
LEMMA RunKeeps ==
  ASSUME BillingInvariant, today' = today, cron' \in {cron, Off},
         \A p \in PaymentId : payment[p] # NoPayment => payment'[p] # NoPayment
  PROVE  CronSound' /\ Gapless' /\ cron' \in CronState /\ (cron'.phase = "generate" => DOMAIN cron'.todo = DOMAIN cron'.config)
<1>1. CASE cron' = Off
  BY <1>1 DEF CronSound, Gapless, Off, CronState
<1>2. CASE cron' = cron
  <2>1. CronSound'
    <3>1. \A p, row : RowIsSound(p, row) => RowIsSound(p, row)'
      BY DEF RowIsSound
    <3> QED
      BY <1>2, <3>1 DEF BillingInvariant, CronSound
  <2>2. Gapless'
    <3>1. \A c, m : Billable(c, m)' <=> Billable(c, m)
      BY DEF Billable
    <3>2. \A t \in Tenant, m \in Month : <<t, m>> \in PaymentId
      BY DEF PaymentId
    <3>3. ASSUME cron.phase = "generate", NEW t \in DOMAIN cron.config, NEW m \in Month, Billable(cron.config[t], m)
          PROVE  m \in cron.todo[t] \/ payment'[<<t, m>>] # NoPayment
      BY <3>2, <3>3, ShapeOfCron DEF BillingInvariant, Gapless
    <3>4. ASSUME cron.phase = "list", NEW t \in DOMAIN cron.config, NEW m \in Month, Billable(cron.config[t], m)
          PROVE  payment'[<<t, m>>] # NoPayment
      BY <3>2, <3>4, ShapeOfCron DEF BillingInvariant, Gapless
    <3> QED
      BY <1>2, <3>1, <3>3, <3>4 DEF Gapless
  <2> QED
    BY <1>2, <2>1, <2>2 DEF BillingInvariant, BillingTyped
<1> QED
  BY <1>1, <1>2
\* Sound rows and copies stay so on the same day.
LEMMA SameDay ==
  ASSUME today' = today
  PROVE  \A p, row : RowIsSound(p, row)' <=> RowIsSound(p, row)
BY DEF RowIsSound

\* One row is written on the same day, and it is sound.
LEMMA WriteIsSound ==
  ASSUME BillingInvariant, today' = today, NEW p \in PaymentId, NEW row \in PaymentRow, RowIsSound(p, row),
         payment' = [payment EXCEPT ![p] = row]
  PROVE  /\ payment' \in [PaymentId -> PaymentRow \cup {NoPayment}] /\ RowsSound'
         /\ \A q \in PaymentId : payment[q] # NoPayment => payment'[q] # NoPayment
<1>1. /\ payment \in [PaymentId -> PaymentRow \cup {NoPayment}]
      /\ payment'[p] = row /\ \A q \in PaymentId \ {p} : payment'[q] = payment[q]
  BY DEF BillingInvariant, BillingTyped
<1>2. row # NoPayment
  BY RowsArePresent
<1>3. RowsSound'
  <2>1. ASSUME NEW q \in PaymentId, payment'[q] # NoPayment PROVE RowIsSound(q, payment'[q])
    BY <1>1, <2>1 DEF BillingInvariant, RowsSound
  <2>2. ASSUME NEW q \in PaymentId, payment'[q] # NoPayment PROVE RowIsSound(q, payment[q])'
    <3>1. PICK x : x = payment'[q]
      OBVIOUS
    <3>2. RowIsSound(q, x)'
      BY <2>1, <2>2, <3>1, SameDay
    <3> QED
      BY <3>1, <3>2 DEF RowIsSound
  <2> QED
    BY <2>2 DEF RowsSound
<1> QED
  BY <1>1, <1>2, <1>3

\* A request moves on the same day.
LEMMA AdminMoves ==
  ASSUME BillingInvariant, today' = today, NEW r \in PayRequest, NEW q \in {Idle, Done} \cup FoundPayment,
         payReq' = [payReq EXCEPT ![r] = q],
         q.phase = "found" => q.seen.status \in {"pendente", "atrasado"} /\ RowIsSound(q.id, q.copy)
  PROVE  payReq' \in [PayRequest -> {Idle, Done} \cup FoundPayment] /\ AdminsSound'
<1>1. /\ payReq \in [PayRequest -> {Idle, Done} \cup FoundPayment]
      /\ payReq'[r] = q /\ \A x \in PayRequest \ {r} : payReq'[x] = payReq[x]
  BY DEF BillingInvariant, BillingTyped
<1>2. ASSUME NEW x \in PayRequest, payReq'[x].phase = "found"
      PROVE  payReq'[x].seen.status \in {"pendente", "atrasado"} /\ RowIsSound(payReq'[x].id, payReq'[x].copy)
  BY <1>1, <1>2 DEF BillingInvariant, AdminsSound
<1>3. ASSUME NEW x \in PayRequest, payReq'[x].phase = "found"
      PROVE  RowIsSound(payReq[x].id, payReq[x].copy)'
  <2>1. PICK i, c : i = payReq'[x].id /\ c = payReq'[x].copy
    OBVIOUS
  <2>2. RowIsSound(i, c)'
    BY <1>2, <1>3, <2>1, SameDay
  <2> QED
    BY <2>1, <2>2 DEF RowIsSound
<1> QED
  BY <1>1, <1>2, <1>3 DEF AdminsSound

\* The administrators' steps.
LEMMA AdminsKeep ==
  ASSUME BillingInvariant, NEW r \in PayRequest,
         \/ \E t \in Tenant, a \in Avulso, due \in 0 .. LastDay : RegisterManualPayment(r, t, a, due)
         \/ \E id \in PaymentId : AdminMarkAsPaid(r, id)
         \/ \E id \in PaymentId : AdminCancel(r, id)
         \/ AdminSave(r)
  PROVE  BillingInvariant'
<1> Done \in {Idle, Done} \cup FoundPayment /\ Done.phase = "done"
  BY DEF Done
<1>0. today' = today /\ cron' = cron /\ cronRan' = cronRan
  BY DEF RegisterManualPayment, AdminMarkAsPaid, AdminCancel, AdminChange, AdminSave
<1> DEFINE Goal == /\ payment' \in [PaymentId -> PaymentRow \cup {NoPayment}] /\ RowsSound'
                   /\ \A q \in PaymentId : payment[q] # NoPayment => payment'[q] # NoPayment
                   /\ payReq' \in [PayRequest -> {Idle, Done} \cup FoundPayment] /\ AdminsSound'
                   /\ payClobbered' \subseteq PaymentId
<1>1. SUFFICES Goal
  <2>1. CronSound' /\ Gapless' /\ cron' \in CronState /\ (cron'.phase = "generate" => DOMAIN cron'.todo = DOMAIN cron'.config)
    BY <1>0, RunKeeps
  <2> QED
    BY <1>0, <2>1 DEF BillingInvariant, BillingTyped
<1>2. ASSUME NEW t \in Tenant, NEW a \in Avulso, NEW due \in 0 .. LastDay, RegisterManualPayment(r, t, a, due)
      PROVE  Goal
  <2>1. /\ payment' = [payment EXCEPT ![a] = NewPayment(t, due)] /\ payReq' = [payReq EXCEPT ![r] = Done]
        /\ payClobbered' = payClobbered
    BY <1>2 DEF RegisterManualPayment
  <2>2. a \in PaymentId /\ a \notin Tenant \X Month /\ due \in Int
    BY BillingAssumption DEF PaymentId
  <2>3. NewPayment(t, due) \in PaymentRow /\ RowIsSound(a, NewPayment(t, due))
    BY <2>2, NewIsSound
  <2> HIDE DEF Goal
  <2>4. /\ payment' \in [PaymentId -> PaymentRow \cup {NoPayment}] /\ RowsSound'
        /\ \A q \in PaymentId : payment[q] # NoPayment => payment'[q] # NoPayment
    BY <1>0, <2>1, <2>2, <2>3, WriteIsSound
  <2>5. payReq' \in [PayRequest -> {Idle, Done} \cup FoundPayment] /\ AdminsSound'
    BY <1>0, <2>1, AdminMoves
  <2> QED
    BY <2>1, <2>4, <2>5 DEF Goal, BillingInvariant, BillingTyped
<1>3. ASSUME NEW id \in PaymentId, AdminMarkAsPaid(r, id) \/ AdminCancel(r, id) PROVE Goal
  <2>1. UNCHANGED <<payment, payClobbered>> /\ payment[id] # NoPayment
    BY <1>3 DEF AdminMarkAsPaid, AdminCancel, AdminChange
  <2>2. payment[id] \in PaymentRow /\ RowIsSound(id, payment[id])
    BY <2>1 DEF BillingInvariant, BillingTyped, RowsSound
  <2>3. \/ payReq' = [payReq EXCEPT ![r] = Done]
        \/ \E c \in MarkAsPaid(payment[id]) \cup Cancel(payment[id]) :
             payReq' = [payReq EXCEPT ![r] = [phase |-> "found", id |-> id, seen |-> payment[id], copy |-> c]]
    BY <1>3 DEF AdminMarkAsPaid, AdminCancel, AdminChange
  <2>4. payReq' \in [PayRequest -> {Idle, Done} \cup FoundPayment] /\ AdminsSound'
    <3>1. CASE payReq' = [payReq EXCEPT ![r] = Done]
      BY <1>0, <3>1, AdminMoves
    <3>2. ASSUME NEW c \in MarkAsPaid(payment[id]) \cup Cancel(payment[id]),
                 payReq' = [payReq EXCEPT ![r] = [phase |-> "found", id |-> id, seen |-> payment[id], copy |-> c]]
          PROVE  payReq' \in [PayRequest -> {Idle, Done} \cup FoundPayment] /\ AdminsSound'
      <4> DEFINE q == [phase |-> "found", id |-> id, seen |-> payment[id], copy |-> c]
      <4>1. c \in PaymentRow /\ RowIsSound(id, c) /\ payment[id].status \in {"pendente", "atrasado"}
        BY <2>2, SettlingIsSound DEF BillingInvariant
      <4>2. q \in FoundPayment /\ q.seen = payment[id] /\ q.id = id /\ q.copy = c
        BY <2>2, <4>1 DEF FoundPayment
      <4>3. payReq' = [payReq EXCEPT ![r] = q]
        BY <3>2
      <4> HIDE DEF q
      <4> QED
        BY <1>0, <4>1, <4>2, <4>3, AdminMoves
    <3> QED
      BY <2>3, <3>1, <3>2
  <2>5. RowsSound'
    <3>1. ASSUME NEW q \in PaymentId, payment'[q] # NoPayment PROVE RowIsSound(q, payment[q])'
      BY <1>0, <2>1, <3>1, SameDay DEF BillingInvariant, RowsSound, RowIsSound
    <3> QED
      BY <3>1 DEF RowsSound
  <2> QED
    BY <2>1, <2>4, <2>5 DEF BillingInvariant, BillingTyped
<1>4. ASSUME AdminSave(r) PROVE Goal
  <2>1. PICK id \in PaymentId, copy \in PaymentRow : id = payReq[r].id /\ copy = payReq[r].copy
    BY <1>4, ShapeOfPayRequest DEF AdminSave, BillingInvariant
  <2>2. /\ payment' = [payment EXCEPT ![id] = copy] /\ payReq' = [payReq EXCEPT ![r] = Done]
        /\ payClobbered' \subseteq payClobbered \cup {id}
    BY <1>4, <2>1 DEF AdminSave, SavePaymentRow
  <2>3. RowIsSound(id, copy)
    BY <1>4, <2>1 DEF AdminSave, BillingInvariant, AdminsSound
  <2> HIDE DEF Goal
  <2>4. /\ payment' \in [PaymentId -> PaymentRow \cup {NoPayment}] /\ RowsSound'
        /\ \A q \in PaymentId : payment[q] # NoPayment => payment'[q] # NoPayment
    BY <1>0, <2>2, <2>3, WriteIsSound
  <2>5. payReq' \in [PayRequest -> {Idle, Done} \cup FoundPayment] /\ AdminsSound'
    BY <1>0, <2>2, AdminMoves
  <2> QED
    BY <2>2, <2>4, <2>5 DEF Goal, BillingInvariant, BillingTyped
<1> HIDE DEF Goal
<1> QED
  BY <1>2, <1>3, <1>4
\* The row and the requests of a step of the scheduler that writes neither.
LEMMA ReadingIsSound ==
  ASSUME BillingInvariant, UNCHANGED <<today, payment, payReq>>
  PROVE  RowsSound' /\ AdminsSound'
<1>1. ASSUME NEW q \in PaymentId, payment'[q] # NoPayment PROVE RowIsSound(q, payment[q])'
  BY <1>1, SameDay DEF BillingInvariant, RowsSound, RowIsSound
<1>2. ASSUME NEW r \in PayRequest, payReq'[r].phase = "found"
      PROVE  RowIsSound(payReq[r].id, payReq[r].copy)' /\ payReq'[r].seen.status \in {"pendente", "atrasado"}
  BY <1>2, SameDay DEF BillingInvariant, AdminsSound, RowIsSound
<1> QED
  BY <1>1, <1>2 DEF RowsSound, AdminsSound

\* A run lists the firms and the months each is to be billed for.
LEMMA StartKeeps ==
  ASSUME TenantsTyped, BillingInvariant, CronStart
  PROVE  BillingInvariant'
<1> DEFINE D == ListActiveBillable
           config == [t \in D |-> tenant[t].billing]
           todo == [t \in D |-> IF tenant[t].billing.start <= today THEN computeCompetencias(tenant[t].billing) ELSE {}]
<1>0. /\ cron' = [phase |-> "generate", at |-> NoTenant, config |-> config, todo |-> todo]
      /\ cronRan' = TRUE /\ UNCHANGED <<today, payment, payReq, payClobbered>>
  BY DEF CronStart
<1>1. D \in SUBSET Tenant /\ \A t \in D : tenant[t].billing \in Complete
  <2>1. ASSUME NEW t \in D PROVE tenant[t].billing \in Complete
    <3>1. tenant[t] \in TenantRow
      BY DEF TenantsTyped, ListActiveBillable
    <3>2. tenant[t].billing \in BillingColumns
      BY <3>1 DEF TenantRow
    <3> QED
      BY <3>2 DEF ListActiveBillable, ValidConfig, Complete
  <2> QED
    BY <2>1 DEF ListActiveBillable
<1>2. config \in Configs
  BY <1>1 DEF Configs
<1>3. \A t \in D : (IF tenant[t].billing.start <= today THEN computeCompetencias(tenant[t].billing) ELSE {}) \subseteq Int
  <2>1. ASSUME NEW t \in D PROVE computeCompetencias(tenant[t].billing) \subseteq Int
    BY DEF computeCompetencias
  <2> QED
    BY <2>1
<1>4. todo \in Todos
  BY <1>1, <1>3 DEF Todos
<1>5. cron' \in Generating /\ cron'.phase = "generate" /\ DOMAIN cron'.todo = DOMAIN cron'.config
  BY <1>0, <1>2, <1>4 DEF Generating
<1>6. RowsSound' /\ AdminsSound'
  BY <1>0, ReadingIsSound
<1>7. BillingTyped' /\ CronSound'
  BY <1>0, <1>5 DEF BillingInvariant, BillingTyped, CronState, CronSound
<1>8. ASSUME NEW t \in D, NEW m \in Month, Billable(tenant[t].billing, m)
      PROVE  m \in todo[t]
  <2> DEFINE c == tenant[t].billing
  <2>1. c \in BillingColumns /\ CompleteConfig(c) /\ Recurring(c)
    BY <1>1 DEF Complete, ListActiveBillable
  <2>2. c.start \in Int /\ c.plan \in {"mensal", "annual"} /\ today \in Int
    BY <2>1, BillingAssumption DEF BillingColumns, Recurring, BillingInvariant, BillingTyped
  <2>3. /\ c.start <= today /\ MonthOf(c.start) <= m /\ FirstDay(m) <= today
        /\ c.plan = "mensal" \/ \E k \in 0 .. Cardinality(Month) : m = MonthOf(c.start) + k * YearLength
    BY <1>8 DEF Billable
  <2> HIDE DEF c
  <2>4. m \in Nat /\ MonthOf(c.start) \in Int /\ MonthOf(today) \in Int /\ Cardinality(Month) \in Nat
    BY <2>2, MonthsAreNumbers
  <2>5. m <= MonthOf(today)
    BY <2>2, <2>3, <2>4, MonthBegun
  <2>6. c.plan = "annual" => (m - MonthOf(c.start)) % YearLength = 0
    <3>1. SUFFICES ASSUME c.plan = "annual" PROVE (m - MonthOf(c.start)) % YearLength = 0
      OBVIOUS
    <3>2. PICK k \in 0 .. Cardinality(Month) : m = MonthOf(c.start) + k * YearLength
      BY <2>3, <3>1
    <3>3. k \in Nat /\ YearLength \in Nat
      BY <2>4, BillingAssumption
    <3>4. k * YearLength \in Int
      BY <3>3
    <3>5. m - MonthOf(c.start) = k * YearLength
      BY <2>4, <3>2, <3>4
    <3> QED
      BY <3>3, <3>5, YearsLeaveNothing
  <2>7. m \in computeCompetencias(c)
    BY <2>3, <2>4, <2>5, <2>6 DEF computeCompetencias
  <2> QED
    BY <2>3, <2>7 DEF c
<1>9. Gapless'
  <2>1. PICK f, g : f = config /\ g = todo
    OBVIOUS
  <2>2. cron'.phase = "generate" /\ cron'.config = f /\ cron'.todo = g /\ DOMAIN f = D
    BY <1>0, <2>1
  <2>3. \A t \in D, m \in Month : Billable(f[t], m) => m \in g[t]
    BY <1>8, <2>1
  <2>4. \A t \in D, m \in Month : Billable(f[t], m)' => m \in g[t]
    BY <1>0, <2>3 DEF Billable
  <2> HIDE DEF D
  <2> QED
    BY <2>2, <2>4 DEF Gapless, Billable
<1> QED
  BY <1>6, <1>7, <1>9 DEF BillingInvariant

\* One month of one firm is created, or was there.
LEMMA GenerateKeeps ==
  ASSUME OpenDaysGoOn, BillingInvariant, NEW t \in Tenant, NEW m \in Month, GenerateCompetencia(t, m)
  PROVE  BillingInvariant'
<1> DEFINE id == <<t, m>>
           due == DueDate(m, cron.config[t].day)
<1>0. /\ cron.phase = "generate" /\ t \in DOMAIN cron.todo
      /\ IF payment[id] # NoPayment THEN UNCHANGED payment
         ELSE payment' = [payment EXCEPT ![id] = NewPayment(t, due)]
      /\ cron' = [cron EXCEPT !.at = t, !.todo[t] = @ \ {m}]
      /\ UNCHANGED <<today, cronRan, payReq, payClobbered>>
  BY DEF GenerateCompetencia, NextJob, ExistsRecorrente
<1>1. /\ cron \in Generating /\ DOMAIN cron.config \subseteq Tenant /\ DOMAIN cron.todo = DOMAIN cron.config
      /\ cron.config[t] \in Complete
  BY <1>0, ShapeOfCron DEF BillingInvariant
<1>2. id \in PaymentId /\ id \in Tenant \X Month /\ id[2] = m
  BY DEF PaymentId
<1>3. due \in Int /\ due \notin ClosedDay /\ due >= FirstDay(m)
  <2> DEFINE first == FirstDay(m) + cron.config[t].day - 1
  <2>1. m \in Int /\ FirstDay(m) \in Int
    BY MonthsAreNumbers
  <2>2. cron.config[t].day \in 1 .. 28
    BY <1>1 DEF Complete, CompleteConfig
  <2>3. first \in Int /\ first >= FirstDay(m)
    BY <2>1, <2>2
  <2> HIDE DEF first
  <2>4. IsNextOpen(OpenDay, first, NextOpen(OpenDay, first))
    BY <2>3, NextOpenIs DEF OpenDaysGoOn
  <2>5. due = NextOpen(OpenDay, first)
    BY DEF DueDate, first
  <2> HIDE DEF due
  <2> QED
    BY <2>1, <2>3, <2>4, <2>5 DEF IsNextOpen, OpenDay
<1> HIDE DEF due, id
<1>4. /\ payment' \in [PaymentId -> PaymentRow \cup {NoPayment}] /\ RowsSound'
      /\ \A q \in PaymentId : payment[q] # NoPayment => payment'[q] # NoPayment
      /\ payment'[id] # NoPayment
  <2>1. CASE payment[id] # NoPayment
    BY <1>0, <2>1, ReadingIsSound DEF BillingInvariant, BillingTyped
  <2>2. CASE payment[id] = NoPayment
    <3>1. NewPayment(t, due) \in PaymentRow /\ RowIsSound(id, NewPayment(t, due))
      BY <1>2, <1>3, NewIsSound
    <3>2. payment' = [payment EXCEPT ![id] = NewPayment(t, due)]
      BY <1>0, <2>2
    <3>3. /\ payment' \in [PaymentId -> PaymentRow \cup {NoPayment}] /\ RowsSound'
          /\ \A q \in PaymentId : payment[q] # NoPayment => payment'[q] # NoPayment
      BY <1>0, <1>2, <3>1, <3>2, WriteIsSound
    <3>4. payment'[id] = NewPayment(t, due)
      BY <1>2, <3>2 DEF BillingInvariant, BillingTyped
    <3> QED
      BY <3>1, <3>3, <3>4, RowsArePresent
  <2> QED
    BY <2>1, <2>2
<1>5. AdminsSound'
  <2>1. ASSUME NEW r \in PayRequest, payReq'[r].phase = "found"
        PROVE  RowIsSound(payReq[r].id, payReq[r].copy)' /\ payReq'[r].seen.status \in {"pendente", "atrasado"}
    BY <1>0, <2>1, SameDay DEF BillingInvariant, AdminsSound, RowIsSound
  <2> QED
    BY <2>1 DEF AdminsSound
<1>6. /\ cron' \in Generating /\ cron'.phase = "generate" /\ cron'.config = cron.config
      /\ DOMAIN cron'.todo = DOMAIN cron.todo
      /\ \A u \in DOMAIN cron.todo : cron'.todo[u] = IF u = t THEN cron.todo[t] \ {m} ELSE cron.todo[u]
  <2> DEFINE rest == [cron.todo EXCEPT ![t] = @ \ {m}]
  <2>1. cron.todo \in Todos /\ cron.config \in Configs /\ cron.phase = "generate"
    BY <1>1 DEF Generating
  <2>2. /\ rest \in Todos /\ DOMAIN rest = DOMAIN cron.todo
        /\ \A u \in DOMAIN cron.todo : rest[u] = IF u = t THEN cron.todo[t] \ {m} ELSE cron.todo[u]
    <3>1. PICK E \in SUBSET Tenant : cron.todo \in [E -> SUBSET Int]
      BY <2>1 DEF Todos
    <3>2. rest \in [E -> SUBSET Int]
      BY <1>0, <3>1
    <3> QED
      BY <1>0, <3>1, <3>2 DEF Todos
  <2>3. cron' = [phase |-> "generate", at |-> t, config |-> cron.config, todo |-> rest]
    <3>1. cron' = [[cron EXCEPT !.at = t] EXCEPT !.todo = rest]
      BY <1>0, <1>1 DEF Generating
    <3>2. PICK a, c, d : cron = [phase |-> "generate", at |-> a, config |-> c, todo |-> d]
      BY <1>1 DEF Generating
    <3> HIDE DEF rest
    <3>3. [[phase |-> "generate", at |-> a, config |-> c, todo |-> d] EXCEPT !.at = t] =
            [phase |-> "generate", at |-> t, config |-> c, todo |-> d]
      OBVIOUS
    <3>4. [[phase |-> "generate", at |-> t, config |-> c, todo |-> d] EXCEPT !.todo = rest] =
            [phase |-> "generate", at |-> t, config |-> c, todo |-> rest]
      OBVIOUS
    <3>5. cron.config = c
      BY <3>2
    <3> QED
      BY <3>1, <3>2, <3>3, <3>4, <3>5, Zenon
  <2> HIDE DEF rest
  <2> QED
    BY <2>1, <2>2, <2>3 DEF Generating
<1>7. BillingTyped' /\ CronSound'
  <2>1. cron' \in CronState /\ DOMAIN cron'.todo = DOMAIN cron'.config
    BY <1>1, <1>6 DEF CronState
  <2> QED
    BY <1>0, <1>4, <1>6, <2>1 DEF BillingInvariant, BillingTyped, CronSound
<1>8. Gapless'
  <2>1. ASSUME NEW u \in DOMAIN cron.config, NEW n \in Month, Billable(cron.config[u], n)
        PROVE  n \in cron'.todo[u] \/ payment'[<<u, n>>] # NoPayment
    <3>1. n \in cron.todo[u] \/ payment[<<u, n>>] # NoPayment
      BY <1>0, <2>1 DEF BillingInvariant, Gapless
    <3>2. <<u, n>> \in PaymentId
      BY <1>1 DEF PaymentId
    <3>3. CASE payment[<<u, n>>] # NoPayment
      BY <1>4, <3>2, <3>3
    <3>4. CASE n \in cron.todo[u] /\ ~(u = t /\ n = m)
      BY <1>1, <1>6, <3>4
    <3>5. CASE u = t /\ n = m
      BY <1>4, <3>5 DEF id
    <3> QED
      BY <3>1, <3>3, <3>4, <3>5
  <2>2. \A c, n : Billable(c, n)' <=> Billable(c, n)
    BY <1>0 DEF Billable
  <2> QED
    BY <1>6, <2>1, <2>2 DEF Gapless
<1> QED
  BY <1>4, <1>5, <1>7, <1>8 DEF BillingInvariant
\* Every month is done: none is left out.
LEMMA GenerateDoneKeeps ==
  ASSUME BillingInvariant, GenerateDone
  PROVE  BillingInvariant'
<1>0. /\ cron.phase = "generate" /\ \A t \in DOMAIN cron.todo : cron.todo[t] = {}
      /\ cron' = [phase |-> "list", config |-> cron.config]
      /\ UNCHANGED <<today, payment, cronRan, payReq, payClobbered>>
  BY DEF GenerateDone
<1>1. cron \in Generating /\ DOMAIN cron.todo = DOMAIN cron.config /\ cron.config \in Configs
  BY <1>0, ShapeOfCron DEF BillingInvariant, Generating
<1>2. cron' \in Listing /\ cron'.phase = "list" /\ cron'.config = cron.config
  BY <1>0, <1>1 DEF Listing
<1>3. RowsSound' /\ AdminsSound'
  BY <1>0, ReadingIsSound
<1>4. BillingTyped' /\ CronSound'
  BY <1>0, <1>2 DEF BillingInvariant, BillingTyped, CronState, CronSound
<1>5. Gapless'
  <2>1. ASSUME NEW u \in DOMAIN cron.config, NEW n \in Month, Billable(cron.config[u], n)
        PROVE  payment'[<<u, n>>] # NoPayment
    BY <1>0, <1>1, <2>1 DEF BillingInvariant, Gapless
  <2>2. \A c, n : Billable(c, n)' <=> Billable(c, n)
    BY <1>0 DEF Billable
  <2> QED
    BY <1>2, <2>1, <2>2 DEF Gapless
<1> QED
  BY <1>3, <1>4, <1>5 DEF BillingInvariant

\* The pending rows that are past their date are copied.
LEMMA ListKeeps ==
  ASSUME BillingInvariant, ListOverdueCandidates
  PROVE  BillingInvariant'
<1> DEFINE D == {q \in PaymentId : /\ payment[q] # NoPayment
                                   /\ payment[q].status = "pendente"
                                   /\ payment[q].due < today}
           rows == [p \in D |-> payment[p]]
<1>0. /\ cron' = [phase |-> "refresh", rows |-> rows]
      /\ UNCHANGED <<today, payment, cronRan, payReq, payClobbered>>
  BY DEF ListOverdueCandidates
<1>1. rows \in RowCopies
  <2>1. D \in SUBSET PaymentId /\ \A p \in D : payment[p] \in PaymentRow
    BY DEF BillingInvariant, BillingTyped
  <2> HIDE DEF D
  <2>2. rows \in [D -> PaymentRow]
    BY <2>1
  <2> QED
    BY <2>1, <2>2 DEF RowCopies
<1>2. \A p \in DOMAIN rows : rows[p].status = "pendente" /\ RowIsSound(p, rows[p])
  BY DEF BillingInvariant, RowsSound
<1>3. PICK f : f = rows
  OBVIOUS
<1> HIDE DEF rows
<1>4. cron' = [phase |-> "refresh", rows |-> f] /\ f \in RowCopies
  BY <1>0, <1>1, <1>3
<1>5. RowsSound' /\ AdminsSound'
  BY <1>0, ReadingIsSound
<1>6. BillingTyped'
  BY <1>0, <1>4 DEF BillingInvariant, BillingTyped, CronState, Refreshing
<1>7. CronSound' /\ Gapless'
  <2>1. \A p \in DOMAIN f : f[p].status = "pendente" /\ RowIsSound(p, f[p])'
    BY <1>0, <1>2, <1>3, SameDay
  <2> QED
    BY <1>4, <2>1 DEF CronSound, Gapless, RowIsSound
<1> QED
  BY <1>5, <1>6, <1>7 DEF BillingInvariant

\* One copy is marked late or passed over.
LEMMA RefreshKeeps ==
  ASSUME OpenDaysGoOn, BillingInvariant, NEW p \in PaymentId, RefreshOverdue(p)
  PROVE  BillingInvariant'
<1> DEFINE row == cron.rows[p]
           rest == [q \in DOMAIN cron.rows \ {p} |-> cron.rows[q]]
<1>0. /\ cron.phase = "refresh" /\ p \in DOMAIN cron.rows
      /\ cron' = [cron EXCEPT !.rows = rest]
      /\ UNCHANGED <<today, cronRan, payReq>>
  BY DEF RefreshOverdue
<1>1. /\ cron \in Refreshing /\ DOMAIN cron.rows \subseteq PaymentId
      /\ \A q \in DOMAIN cron.rows :
           cron.rows[q] \in PaymentRow /\ cron.rows[q].status = "pendente" /\ RowIsSound(q, cron.rows[q])
  BY <1>0, ShapeOfCron DEF BillingInvariant, CronSound
<1>2. PICK f : f = rest
  OBVIOUS
<1>3. /\ f \in RowCopies
      /\ \A q \in DOMAIN f : f[q].status = "pendente" /\ RowIsSound(q, f[q])
  <2>1. DOMAIN cron.rows \ {p} \in SUBSET PaymentId
    BY <1>1
  <2>2. rest \in [DOMAIN cron.rows \ {p} -> PaymentRow]
    BY <1>1
  <2>3. \A q \in DOMAIN rest : rest[q].status = "pendente" /\ RowIsSound(q, rest[q])
    BY <1>1
  <2> HIDE DEF rest
  <2> QED
    BY <1>2, <2>1, <2>2, <2>3 DEF RowCopies
<1>4. cron' = [phase |-> "refresh", rows |-> f]
  BY <1>0, <1>1, <1>2 DEF Refreshing
<1> HIDE DEF rest
<1>5. /\ payment' \in [PaymentId -> PaymentRow \cup {NoPayment}] /\ RowsSound' /\ payClobbered' \subseteq PaymentId
  <2>1. CASE PastDeadline(row)
    <3>1. PICK late \in PaymentRow : late = [row EXCEPT !.status = "atrasado"] /\ RowIsSound(p, late)
      BY <1>0, <1>1, <2>1, LateIsSound DEF BillingInvariant
    <3>2. payment' = [payment EXCEPT ![p] = late] /\ payClobbered' \subseteq payClobbered \cup {p}
      BY <2>1, <3>1 DEF RefreshOverdue, SavePaymentRow
    <3>3. payment' \in [PaymentId -> PaymentRow \cup {NoPayment}] /\ RowsSound'
      BY <1>0, <3>1, <3>2, WriteIsSound
    <3> QED
      BY <3>2, <3>3 DEF BillingInvariant, BillingTyped
  <2>2. CASE ~PastDeadline(row)
    <3>1. UNCHANGED <<payment, payClobbered>>
      BY <2>2 DEF RefreshOverdue
    <3> QED
      BY <1>0, <3>1, ReadingIsSound DEF BillingInvariant, BillingTyped
  <2> QED
    BY <2>1, <2>2
<1>6. AdminsSound'
  <2>1. ASSUME NEW r \in PayRequest, payReq'[r].phase = "found"
        PROVE  RowIsSound(payReq[r].id, payReq[r].copy)' /\ payReq'[r].seen.status \in {"pendente", "atrasado"}
    BY <1>0, <2>1, SameDay DEF BillingInvariant, AdminsSound, RowIsSound
  <2> QED
    BY <2>1 DEF AdminsSound
<1>7. BillingTyped'
  <2>1. cron' \in CronState /\ cron'.phase = "refresh"
    BY <1>3, <1>4 DEF CronState, Refreshing
  <2> QED
    BY <1>0, <1>5, <2>1 DEF BillingInvariant, BillingTyped
<1>8. CronSound' /\ Gapless'
  <2>1. \A q \in DOMAIN f : f[q].status = "pendente" /\ RowIsSound(q, f[q])'
    BY <1>0, <1>3, SameDay
  <2> QED
    BY <1>4, <2>1 DEF CronSound, Gapless, RowIsSound
<1> QED
  BY <1>5, <1>6, <1>7, <1>8 DEF BillingInvariant

\* The run ends, or dies.
LEMMA EndKeeps ==
  ASSUME BillingInvariant, RefreshDone \/ CronFails
  PROVE  BillingInvariant'
<1>0. cron' = Off /\ UNCHANGED <<today, payment, cronRan, payReq, payClobbered>>
  BY DEF RefreshDone, CronFails
<1>1. RowsSound' /\ AdminsSound'
  BY <1>0, ReadingIsSound
<1>2. CronSound' /\ Gapless' /\ cron' \in CronState /\ (cron'.phase = "generate" => DOMAIN cron'.todo = DOMAIN cron'.config)
  BY <1>0, RunKeeps
<1> QED
  BY <1>0, <1>1, <1>2 DEF BillingInvariant, BillingTyped

\* A day goes by.
LEMMA DayKeeps ==
  ASSUME BillingInvariant, NextDay
  PROVE  BillingInvariant'
<1>0. /\ cron = Off /\ today' = (IF today < LastDay THEN today + 1 ELSE today) /\ cronRan' = FALSE
      /\ UNCHANGED <<payment, cron, payReq, payClobbered>>
  BY DEF NextDay
<1>1. today \in Int /\ today' \in Int /\ today <= today' /\ today' \in 0 .. LastDay
  <2>1. today \in 0 .. LastDay /\ LastDay \in Nat
    BY BillingAssumption DEF BillingInvariant, BillingTyped
  <2> QED
    BY <1>0, <2>1
<1>2. RowsSound'
  <2>1. ASSUME NEW q \in PaymentId, payment[q] # NoPayment PROVE RowIsSound(q, payment[q])'
    <3>1. PICK row \in PaymentRow : row = payment[q]
      BY <2>1 DEF BillingInvariant, BillingTyped
    <3>2. RowIsSound(q, row)'
      BY <1>1, <2>1, <3>1, SoundLater DEF BillingInvariant, RowsSound
    <3> QED
      BY <1>0, <3>1, <3>2 DEF RowIsSound
  <2> QED
    BY <1>0, <2>1 DEF RowsSound
<1>3. AdminsSound'
  <2>1. ASSUME NEW r \in PayRequest, payReq[r].phase = "found"
        PROVE  RowIsSound(payReq[r].id, payReq[r].copy)' /\ payReq'[r].seen.status \in {"pendente", "atrasado"}
    <3>1. PICK id \in PaymentId, row \in PaymentRow : row = payReq[r].copy /\ id = payReq[r].id
      BY <2>1, ShapeOfPayRequest DEF BillingInvariant
    <3>2. RowIsSound(id, row)'
      BY <1>1, <2>1, <3>1, SoundLater DEF BillingInvariant, AdminsSound
    <3> QED
      BY <1>0, <2>1, <3>1, <3>2 DEF RowIsSound, BillingInvariant, AdminsSound
  <2> QED
    BY <1>0, <2>1 DEF AdminsSound
<1>4. BillingTyped' /\ CronSound' /\ Gapless'
  BY <1>0, <1>1 DEF BillingInvariant, BillingTyped, CronSound, Gapless, Off
<1> QED
  BY <1>2, <1>3, <1>4 DEF BillingInvariant

-----------------------------------------------------------------------------
\* A step of the payments.
LEMMA BillingStep ==
  ASSUME OpenDaysGoOn, TenantsTyped, BillingInvariant, BillingNext
  PROVE  BillingInvariant'
<1>1. ASSUME Scheduler PROVE BillingInvariant'
  BY <1>1, StartKeeps, GenerateKeeps, GenerateDoneKeeps, ListKeeps, RefreshKeeps, EndKeeps
     DEF Scheduler, Generate, Refresh
<1> QED
  BY <1>1, AdminsKeep, EndKeeps, DayKeeps DEF BillingNext

\* A step of something else.
LEMMA BillingStutter ==
  ASSUME BillingInvariant, UNCHANGED billingVars
  PROVE  BillingInvariant'
<1>0. UNCHANGED <<today, payment, cron, cronRan, payReq, payClobbered>>
  BY DEF billingVars
<1>1. RowsSound' /\ AdminsSound'
  BY <1>0, ReadingIsSound
<1>2. CronSound' /\ Gapless' /\ cron' \in CronState /\ (cron'.phase = "generate" => DOMAIN cron'.todo = DOMAIN cron'.config)
  BY <1>0, RunKeeps
<1> QED
  BY <1>0, <1>1, <1>2 DEF BillingInvariant, BillingTyped

\* At the start there is no payment.
LEMMA BillingBegins ==
  ASSUME BillingInit
  PROVE  BillingInvariant
<1>1. today \in 0 .. LastDay
  BY BillingAssumption DEF BillingInit
<1>2. BillingTyped
  BY <1>1 DEF BillingInit, BillingTyped, CronState, Off
<1>3. \A r \in PayRequest : payReq[r].phase = "new"
  BY DEF BillingInit, Idle
<1> QED
  BY <1>2, <1>3 DEF BillingInit, BillingInvariant, RowsSound, AdminsSound, CronSound, Gapless, Off

\* The invariant says what the payments keep.
LEMMA PaymentsAreSoundHere ==
  ASSUME BillingInvariant
  PROVE  PaymentsAreSound
<1>1. BillingTypeOK
  <2>1. ASSUME NEW r \in PayRequest PROVE payReq[r] \in {Idle, Done} \/ payReq[r].copy \in PaymentRow
    BY DEF BillingInvariant, BillingTyped, FoundPayment
  <2>2. \/ cron = Off
        \/ cron.phase = "refresh" /\ \A p \in DOMAIN cron.rows : cron.rows[p] \in PaymentRow
        \/ cron.phase \in {"generate", "list"} /\ \A t \in DOMAIN cron.config : CompleteConfig(cron.config[t])
    BY ShapeOfCron DEF BillingInvariant, Complete
  <2> QED
    BY <2>1, <2>2 DEF BillingInvariant, BillingTyped, BillingTypeOK
<1>2. DatesMatchStatus
  BY DEF BillingInvariant, RowsSound, RowIsSound, DatesMatchStatus
<1>3. LateAfterGrace
  <2>1. ASSUME NEW p \in PaymentId, payment[p] # NoPayment, payment[p].status = "atrasado"
        PROVE  Cardinality({d \in payment[p].due + 1 .. today - 1 : d \in OpenDay}) >= Grace
    BY <2>1 DEF BillingInvariant, RowsSound, RowIsSound, OpenBetween
  <2> QED
    BY <2>1 DEF LateAfterGrace
<1>4. DueOnOpenDay
  <2>1. ASSUME NEW t \in Tenant, NEW m \in Month, payment[<<t, m>>] # NoPayment
        PROVE  payment[<<t, m>>].due \notin ClosedDay /\ payment[<<t, m>>].due >= FirstDay(m)
    <3>1. <<t, m>> \in PaymentId /\ <<t, m>> \in Tenant \X Month /\ <<t, m>>[2] = m
      BY DEF PaymentId
    <3>2. RowIsSound(<<t, m>>, payment[<<t, m>>])
      BY <2>1, <3>1 DEF BillingInvariant, RowsSound
    <3> QED
      BY <3>1, <3>2 DEF RowIsSound
  <2> QED
    BY <2>1 DEF DueOnOpenDay
<1>5. CaughtUp
  BY DEF BillingInvariant, Gapless, Billable, CaughtUp
<1>6. BadgeShowsDebt
  BY DEF BadgeShowsDebt, Badge
<1> QED
  BY <1>1, <1>2, <1>3, <1>4, <1>5, <1>6 DEF PaymentsAreSound

-----------------------------------------------------------------------------
\* For any number of firms, payments, days and requests, both invariants hold
\* while the scheduler, its failures and two panels overlap.
THEOREM BackOfficeInvariantHolds ==
  ASSUME OpenDaysGoOn
  PROVE  BackOfficeSpec => [](TenantInvariant /\ BillingInvariant)
<1> DEFINE Inv == TenantInvariant /\ BillingInvariant
<1>1. TenantInit /\ BillingInit => Inv
  BY TenantsBegin, BillingBegins
<1>2. Inv /\ [BackOfficeNext]_<<tenantVars, billingVars>> => Inv'
  <2>1. ASSUME Inv, TenantNext, UNCHANGED billingVars PROVE Inv'
    BY <2>1, TenantStep, BillingStutter
  <2>2. ASSUME Inv, BillingNext, UNCHANGED tenantVars PROVE Inv'
    BY <2>2, TenantStutter, BillingStep DEF TenantInvariant
  <2>3. ASSUME Inv, UNCHANGED <<tenantVars, billingVars>> PROVE Inv'
    <3>1. UNCHANGED tenantVars /\ UNCHANGED billingVars
      BY <2>3
    <3> QED
      BY <2>3, <3>1, TenantStutter, BillingStutter
  <2> QED
    BY <2>1, <2>2, <2>3 DEF BackOfficeNext
<1> QED
  BY <1>1, <1>2, PTL DEF BackOfficeSpec

\* Payments stay sound: dates match the status, nobody is late before the
\* tolerance is over, recurring payments are due on open days, no month is left
\* out, and the badge shows every debt.
THEOREM PaymentsStaySound ==
  ASSUME OpenDaysGoOn
  PROVE  BackOfficeSpec => []PaymentsAreSound
<1>1. BillingInvariant => PaymentsAreSound
  BY PaymentsAreSoundHere
<1> QED
  BY <1>1, BackOfficeInvariantHolds, PTL

\* A paid or cancelled payment changes only when a stale copy is saved over it.
LEMMA SettledStep ==
  ASSUME BillingInvariant, BillingNext, NEW p \in PaymentId,
         payment[p].status \in {"pago", "cancelado"}, payment'[p] # payment[p]
  PROVE  p \in payClobbered'
<1>0. payment \in [PaymentId -> PaymentRow \cup {NoPayment}]
  BY DEF BillingInvariant, BillingTyped
<1>1. payment[p] # NoPayment
  BY DEF NoPayment
<1>2. ASSUME NEW id \in PaymentId, NEW seen, NEW copy, SavePaymentRow(id, seen, copy),
             seen.status \notin {"pago", "cancelado"}
      PROVE  p \in payClobbered'
  <2>1. payment' = [payment EXCEPT ![id] = copy]
    BY <1>2 DEF SavePaymentRow
  <2>2. p = id
    BY <1>0, <2>1
  <2> QED
    BY <1>2, <2>2 DEF SavePaymentRow
<1>3. ASSUME NEW r \in PayRequest, AdminSave(r) PROVE p \in payClobbered'
  <2>1. payReq[r].phase = "found" /\ SavePaymentRow(payReq[r].id, payReq[r].seen, payReq[r].copy)
    BY <1>3 DEF AdminSave
  <2>2. payReq[r].id \in PaymentId /\ payReq[r].seen.status \notin {"pago", "cancelado"}
    BY <2>1, ShapeOfPayRequest DEF BillingInvariant, AdminsSound
  <2> QED
    BY <1>2, <2>1, <2>2
<1>4. ASSUME NEW q \in PaymentId, RefreshOverdue(q) PROVE p \in payClobbered'
  <2>1. SavePaymentRow(q, cron.rows[q], [cron.rows[q] EXCEPT !.status = "atrasado"])
    BY <1>4 DEF RefreshOverdue
  <2>2. cron.rows[q].status = "pendente"
    BY <1>4 DEF RefreshOverdue, BillingInvariant, CronSound
  <2> QED
    BY <1>2, <2>1, <2>2
<1>5. ASSUME NEW r \in PayRequest, NEW t \in Tenant, NEW a \in Avulso, NEW due \in 0 .. LastDay,
             RegisterManualPayment(r, t, a, due)
      PROVE  FALSE
  BY <1>0, <1>1, <1>5 DEF RegisterManualPayment, PaymentId
<1>6. ASSUME NEW t \in Tenant, NEW m \in Month, GenerateCompetencia(t, m) PROVE FALSE
  BY <1>0, <1>1, <1>6 DEF GenerateCompetencia, ExistsRecorrente, PaymentId
<1>7. \/ \E r \in PayRequest : AdminSave(r)
      \/ \E q \in PaymentId : RefreshOverdue(q)
      \/ \E r \in PayRequest, t \in Tenant, a \in Avulso, due \in 0 .. LastDay : RegisterManualPayment(r, t, a, due)
      \/ \E t \in Tenant, m \in Month : GenerateCompetencia(t, m)
  <2>1. ~(UNCHANGED payment)
    OBVIOUS
  <2> QED
    BY <2>1 DEF BillingNext, AdminMarkAsPaid, AdminCancel, AdminChange, Scheduler, CronStart, Generate, GenerateDone,
                ListOverdueCandidates, Refresh, RefreshDone, CronFails, NextDay
<1> QED
  BY <1>3, <1>4, <1>5, <1>6, <1>7

\* What is final stays final, but for the save of a stale copy: a deactivated
\* firm, and a payment that was paid or cancelled.
THEOREM FinalStaysHolds ==
  ASSUME OpenDaysGoOn
  PROVE  BackOfficeSpec => FinalStays
<1> DEFINE Inactive ==
             \A t \in Tenant :
               tenant[t] # NoTenant /\ tenant[t].status = "inactive" /\ tenant'[t].status # "inactive"
               => t \in tenantClobbered'
           Settled ==
             \A p \in PaymentId :
               payment[p].status \in {"pago", "cancelado"} /\ payment'[p] # payment[p] => p \in payClobbered'
<1>1. TenantInvariant /\ [BackOfficeNext]_<<tenantVars, billingVars>> => [Inactive]_tenantVars
  BY InactiveStep DEF BackOfficeNext
<1>2. BillingInvariant /\ [BackOfficeNext]_<<tenantVars, billingVars>> => [Settled]_billingVars
  BY SettledStep DEF BackOfficeNext
<1>3. BackOfficeSpec => [][Inactive]_tenantVars
  BY <1>1, BackOfficeInvariantHolds, PTL DEF BackOfficeSpec
<1>4. BackOfficeSpec => [][Settled]_billingVars
  BY <1>2, BackOfficeInvariantHolds, PTL DEF BackOfficeSpec
<1> QED
  BY <1>3, <1>4 DEF FinalStays, InactiveIsFinal, SettledIsFinal

-----------------------------------------------------------------------------
(* The holiday calendar, for every year.  First Easter: each correction of *)
(* the ecclesiastical tables is a term of computeEaster.                   *)

\* Quotients and remainders the computation and the tables have in common.
LEMMA FourIs ==
  ASSUME NEW b \in Int
  PROVE  b \div 4 \in Int /\ b % 4 \in 0 .. 3 /\ b % 4 = b - 4 * (b \div 4)
<1>1. b \div 4 \in Int
  OBVIOUS
<1>2. b % 4 \in 0 .. 3
  OBVIOUS
<1>3. b % 4 = b - 4 * (b \div 4)
  OBVIOUS
<1> QED
  BY <1>1, <1>2, <1>3

\* A weekday and a quarter a year.
LEMMA QuarterIs ==
  ASSUME NEW y \in Int
  PROVE  (5 * y) \div 4 = y + y \div 4
  OBVIOUS

\* Leap years by century.
LEMMA LeapIs ==
  ASSUME NEW y \in Int
  PROVE  y \div 4 = 25 * (y \div 100) + (y % 100) \div 4
  OBVIOUS
\* The centuries that are not leap years.
LEMMA SolarOf ==
  ASSUME NEW d \in Int, NEW e \in 0 .. 3
  PROVE  (3 * (4 * d + e + 1)) \div 4 = 3 * d + e
  OBVIOUS

\* The correction of the moon, as computeEaster and as the tables have it.
LEMMA LunarIs ==
  ASSUME NEW b \in Int
  PROVE  /\ (b - (b + 8) \div 25 + 1) \div 3 \in Int
         /\ (8 * (b + 1) + 5) \div 25 = (b - (b + 8) \div 25 + 1) \div 3
  OBVIOUS

\* computeEaster's m: the two full moons that are moved before a late Sunday.
LEMMA FullMoonIs ==
  ASSUME NEW a \in 0 .. 18, NEW h \in 0 .. 29, NEW l \in 0 .. 6
  PROVE  (a + 11 * h + 22 * l) \div 451 = IF l = 6 /\ (h = 29 \/ (h = 28 /\ a > 10)) THEN 1 ELSE 0
  OBVIOUS

\* computeEaster's month and day are a day counted from March.
LEMMA MarchOrApril ==
  ASSUME NEW y \in Int, NEW n \in 93 .. 154
  PROVE  DayNumber(y, n \div 31, (n % 31) + 1) = DayNumber(y, 3, 1) + n - 93
<1>1. CASE n < 124
  <2>1. n \div 31 = 3 /\ n % 31 = n - 93
    BY <1>1
  <2> QED
    BY <2>1 DEF DayNumber
<1>2. CASE n >= 124
  <2>1. n \div 31 = 4 /\ n % 31 = n - 124
    BY <1>2
  <2> QED
    BY <2>1 DEF DayNumber
<1> QED
  BY <1>1, <1>2

\* Days from a day h after 21 March to the Sunday after it.
DaysToSunday(y, h) ==
  (32 + 2 * ((y \div 100) % 4) + 2 * ((y % 100) \div 4) - h - ((y % 100) % 4)) % 7

\* What computeEaster adds to the first of March.
SundayAfter(y) == DaysToSunday(y, PaschalMoon(y))
Jumps(y) == SundayAfter(y) = 6 /\ (PaschalMoon(y) = 29 \/ (PaschalMoon(y) = 28 /\ y % 19 > 10))

\* computeEaster adds to 21 March the days to the full moon and to the Sunday after.
LEMMA EasterIs ==
  ASSUME NEW y \in Int
  PROVE  /\ PaschalMoon(y) \in 0 .. 29 /\ SundayAfter(y) \in 0 .. 6
         /\ computeEaster(y) =
              DayNumber(y, 3, 1) + 21 + PaschalMoon(y) + SundayAfter(y) - (IF Jumps(y) THEN 7 ELSE 0)
<1>1. PaschalMoon(y) \in 0 .. 29
  <2> DEFINE u == 19 * (y % 19) + y \div 100 - (y \div 100) \div 4
                    - (y \div 100 - (y \div 100 + 8) \div 25 + 1) \div 3 + 15
  <2>1. u \in Int
    OBVIOUS
  <2>2. PaschalMoon(y) = u % 30
    BY DEF PaschalMoon
  <2> HIDE DEF u
  <2> QED
    BY <2>1, <2>2
<1>2. SundayAfter(y) \in 0 .. 6
  <2> DEFINE u == 32 + 2 * ((y \div 100) % 4) + 2 * ((y % 100) \div 4) - PaschalMoon(y) - ((y % 100) % 4)
  <2>1. u \in Int
    BY <1>1
  <2>2. SundayAfter(y) = u % 7
    BY DEF SundayAfter, DaysToSunday
  <2> HIDE DEF u
  <2> QED
    BY <2>1, <2>2
<1> DEFINE a == y % 19
           h == PaschalMoon(y)
           l == SundayAfter(y)
           m == (a + 11 * h + 22 * l) \div 451
           n == h + l - 7 * m + 114
<1>3. computeEaster(y) = DayNumber(y, n \div 31, (n % 31) + 1)
  BY DEF computeEaster, SundayAfter, DaysToSunday
<1>4. a \in 0 .. 18
  OBVIOUS
<1>5. m = IF Jumps(y) THEN 1 ELSE 0
  <2> HIDE DEF a, h, l
  <2>1. h \in 0 .. 29 /\ l \in 0 .. 6
    BY <1>1, <1>2 DEF h, l
  <2>2. Jumps(y) <=> l = 6 /\ (h = 29 \/ (h = 28 /\ a > 10))
    BY DEF Jumps, h, l, a
  <2> QED
    BY <1>4, <2>1, <2>2, FullMoonIs
<1>6. n \in 93 .. 154 /\ n = h + l + 114 - (IF Jumps(y) THEN 7 ELSE 0)
  <2> HIDE DEF m, h, l
  <2>1. h \in 0 .. 29 /\ l \in 0 .. 6
    BY <1>1, <1>2 DEF h, l
  <2> QED
    BY <1>5, <2>1
<1> HIDE DEF n
<1>7. DayNumber(y, n \div 31, (n % 31) + 1) = DayNumber(y, 3, 1) + n - 93
  BY <1>6, MarchOrApril
<1>8. DayNumber(y, 3, 1) \in Int
  BY DEF DayNumber
<1> QED
  BY <1>1, <1>2, <1>3, <1>6, <1>7, <1>8

\* The epact of the tables is the moon's age that computeEaster works with.
Epact(y) ==
  (11 * ((y % 19) + 1) + 20 + ((8 * (y \div 100 + 1) + 5) \div 25 - 5) - ((3 * (y \div 100 + 1)) \div 4 - 12)) % 30
LEMMA EpactIs ==
  ASSUME NEW y \in Int
  PROVE  /\ Epact(y) \in 0 .. 29
         /\ Epact(y) <= 23 => PaschalMoon(y) = 23 - Epact(y)
         /\ Epact(y) > 23 => PaschalMoon(y) = 53 - Epact(y)
<1> DEFINE a == y % 19
           b == y \div 100
           d == b \div 4
           e == b % 4
           g == (b - (b + 8) \div 25 + 1) \div 3
           x == 19 * a + b - d - g + 15
           z == 11 * (a + 1) + 20 + ((8 * (b + 1) + 5) \div 25 - 5) - ((3 * (b + 1)) \div 4 - 12)
<1>1. a \in Int /\ b \in Int
  OBVIOUS
<1>2. PaschalMoon(y) = x % 30
  BY DEF PaschalMoon
<1> HIDE DEF a, b
<1>3. d \in Int /\ e \in 0 .. 3 /\ b = 4 * d + e
  BY <1>1, FourIs
<1>4. (3 * (b + 1)) \div 4 = 3 * d + e
  <2> HIDE DEF d, e
  <2> QED
    BY <1>3, SolarOf
<1>5. g \in Int /\ (8 * (b + 1) + 5) \div 25 = g
  BY <1>1, LunarIs
<1> HIDE DEF d, e, g
<1>6. x \in Int /\ z \in Int /\ x + z = 30 * a + 53
  BY <1>1, <1>3, <1>4, <1>5
<1> HIDE DEF x, z
<1>7. /\ (x % 30) \in 0 .. 29 /\ (z % 30) \in 0 .. 29
      /\ (z % 30) <= 23 => (x % 30) = 23 - (z % 30)
      /\ (z % 30) > 23 => (x % 30) = 53 - (z % 30)
  BY <1>1, <1>6
<1> QED
  BY <1>2, <1>7 DEF a, b, z, Epact

\* The dominical day of the tables is the weekday computeEaster works with.
Dominical(y) == (5 * y) \div 4 - ((3 * (y \div 100 + 1)) \div 4 - 12) - 10
LEMMA DominicalIs ==
  ASSUME NEW y \in Int, NEW h \in Int
  PROVE  /\ Dominical(y) \in Int /\ DaysToSunday(y, h) \in 0 .. 6
         /\ (Dominical(y) + 21 + h) % 7 = 6 - DaysToSunday(y, h)
<1> DEFINE b == y \div 100
           c == y % 100
           d == b \div 4
           e == b % 4
           i == c \div 4
           k == c % 4
           v == (5 * y) \div 4 - ((3 * (b + 1)) \div 4 - 12) - 10 + 21 + h
           u == 32 + 2 * e + 2 * i - h - k
<1>1. b \in Int /\ c \in Int /\ c = y - 100 * b
  OBVIOUS
<1>2. (5 * y) \div 4 = y + 25 * b + i
  BY QuarterIs, LeapIs
<1> HIDE DEF b, c
<1>3. d \in Int /\ e \in 0 .. 3 /\ b = 4 * d + e
  BY <1>1, FourIs
<1>4. i \in Int /\ k \in 0 .. 3 /\ c = 4 * i + k
  BY <1>1, FourIs
<1>5. (3 * (b + 1)) \div 4 = 3 * d + e
  <2> HIDE DEF d, e
  <2> QED
    BY <1>3, SolarOf
<1> HIDE DEF d, e, i, k
<1>6. u \in Int /\ v \in Int /\ u + v = 7 * (71 * d + 18 * e + i + 7) + 6
  BY <1>1, <1>2, <1>3, <1>4, <1>5
<1> DEFINE w == 71 * d + 18 * e + i + 7
<1>7. w \in Int /\ u + v = 7 * w + 6
  BY <1>3, <1>4, <1>6
<1> HIDE DEF u, v, w
<1>8. u % 7 \in 0 .. 6 /\ v % 7 = 6 - (u % 7)
  BY <1>6, <1>7
<1> QED
  BY <1>8 DEF b, c, e, i, k, u, v, Dominical, DaysToSunday

\* computeEaster follows the tables in every year.
LEMMA EasterFollowsTables ==
  ASSUME NEW y \in Int
  PROVE  computeEaster(y) = EasterOn(y)
<1> DEFINE b == y \div 100
           golden == (y % 19) + 1
           solar == (3 * (b + 1)) \div 4 - 12
           lunar == (8 * (b + 1) + 5) \div 25 - 5
           sunday == (5 * y) \div 4 - solar - 10
           epact == (11 * golden + 20 + lunar - solar) % 30
           late == IF epact = 24 \/ (epact = 25 /\ golden > 11) THEN epact + 1 ELSE epact
           moon == IF late > 23 THEN 74 - late ELSE 44 - late
           h == PaschalMoon(y)
           l == SundayAfter(y)
           march == DayNumber(y, 3, 1)
           moved == h = 29 \/ (h = 28 /\ golden > 11)
<1>1. EasterOn(y) = march + moon + 6 - ((sunday + moon) % 7)
  BY DEF EasterOn
<1>2. h \in 0 .. 29 /\ l \in 0 .. 6 /\ computeEaster(y) = march + 21 + h + l - (IF Jumps(y) THEN 7 ELSE 0)
  BY EasterIs
<1>3. Jumps(y) <=> l = 6 /\ moved
  BY DEF Jumps
<1>4. epact \in 0 .. 29 /\ (epact <= 23 => h = 23 - epact) /\ (epact > 23 => h = 53 - epact)
  <2>1. epact = Epact(y)
    BY DEF Epact
  <2> HIDE DEF epact, h
  <2> QED
    BY <2>1, EpactIs DEF h
<1>5. l = 6 - ((sunday + 21 + h) % 7)
  <2>1. sunday = Dominical(y)
    BY DEF Dominical
  <2>2. h \in Int
    BY <1>2
  <2> HIDE DEF h, sunday
  <2>3. (Dominical(y) + 21 + h) % 7 = 6 - DaysToSunday(y, h) /\ DaysToSunday(y, h) \in 0 .. 6
    BY <2>2, DominicalIs
  <2>4. DaysToSunday(y, h) = l
    BY DEF SundayAfter, h
  <2> HIDE DEF l
  <2> QED
    BY <1>2, <2>1, <2>2, <2>3, <2>4
<1>6. golden \in Int /\ march \in Int /\ sunday \in Int
  BY DEF DayNumber
<1> HIDE DEF epact, sunday, march, golden, h, l
<1>7. moon = IF moved THEN 20 + h ELSE 21 + h
  BY <1>2, <1>4, <1>6
<1>8. CASE ~moved
  BY <1>1, <1>2, <1>3, <1>5, <1>6, <1>7, <1>8
<1>9. CASE moved
  <2>1. moon = 20 + h
    BY <1>7, <1>9
  <2>2. (sunday + moon) % 7 = IF l = 6 THEN 6 ELSE 5 - l
    BY <1>2, <1>5, <1>6, <2>1
  <2> QED
    BY <1>1, <1>2, <1>3, <1>6, <1>9, <2>1, <2>2
<1> QED
  BY <1>8, <1>9

-----------------------------------------------------------------------------
(* Then the days: what year one is in, and where its holidays lie.         *)

\* The first of March and of January.
March(y) == DayNumber(y, 3, 1)
NewYear(y) == DayNumber(y, 1, 1)

\* A year begins 306 days after the March of the year before.
LEMMA DatesAre ==
  ASSUME NEW y \in Int
  PROVE  /\ March(y) \in Int /\ NewYear(y) \in Int
         /\ March(y) - NewYear(y) \in 59 .. 60 /\ NewYear(y + 1) = March(y) + 306
<1>1. March(y) = 365 * y + y \div 4 - y \div 100 + y \div 400
  BY DEF March, DayNumber
<1>2. NewYear(y) = 365 * (y - 1) + (y - 1) \div 4 - (y - 1) \div 100 + (y - 1) \div 400 + 306
  BY DEF NewYear, DayNumber
<1>3. NewYear(y + 1) = 365 * y + y \div 4 - y \div 100 + y \div 400 + 306
  BY DEF NewYear, DayNumber
<1>4. (y \div 4 - y \div 100 + y \div 400) - ((y - 1) \div 4 - (y - 1) \div 100 + (y - 1) \div 400) \in 0 .. 1
  OBVIOUS
<1> QED
  BY <1>1, <1>2, <1>3, <1>4

\* Four hundred years are 146097 days, and no date is far from where that puts it.
LEMMA MarchIsNear ==
  ASSUME NEW y \in Int
  PROVE  400 * March(y) \in (146097 * y - 699) .. (146097 * y + 396)
<1>1. March(y) = 365 * y + y \div 4 - y \div 100 + y \div 400
  BY DEF March, DayNumber
<1>2. 4 * (y \div 4) = y - (y % 4) /\ y % 4 \in 0 .. 3 /\ y \div 4 \in Int
  OBVIOUS
<1>3. 100 * (y \div 100) = y - (y % 100) /\ y % 100 \in 0 .. 99 /\ y \div 100 \in Int
  OBVIOUS
<1>4. 400 * (y \div 400) = y - (y % 400) /\ y % 400 \in 0 .. 399 /\ y \div 400 \in Int
  OBVIOUS
<1> QED
  BY <1>1, <1>2, <1>3, <1>4

\* The years follow one another.
LEMMA MarchGrows ==
  ASSUME NEW y \in Int, NEW z \in Int, y < z
  PROVE  March(y) + 363 <= March(z)
  BY MarchIsNear, DatesAre

\* The year of a day is the one the day lies in.
LEMMA YearIs ==
  ASSUME NEW day \in Int
  PROVE  YearOf(day) \in Int /\ NewYear(YearOf(day)) <= day /\ day < NewYear(YearOf(day) + 1)
<1> DEFINE guess == (400 * day) \div 146097
           In(y) == NewYear(y) <= day /\ day < NewYear(y + 1)
<1>1. guess \in Int /\ 146097 * guess <= 400 * day /\ 400 * day < 146097 * (guess + 1)
  OBVIOUS
<1>2. YearOf(day) = CHOOSE y \in guess - 1 .. guess + 1 : In(y)
  BY DEF YearOf, NewYear
<1> HIDE DEF guess
<1>3. \A y \in Int : NewYear(y) = March(y - 1) + 306 /\ March(y) \in Int
  <2>1. ASSUME NEW y \in Int PROVE NewYear(y) = March(y - 1) + 306 /\ March(y) \in Int
    <3>1. y - 1 \in Int /\ (y - 1) + 1 = y
      OBVIOUS
    <3> QED
      BY <3>1, DatesAre
  <2> QED
    BY <2>1
<1>4. NewYear(guess - 1) <= day
  <2>1. 400 * March(guess - 2) <= 146097 * (guess - 2) + 396
    BY <1>1, MarchIsNear
  <2> QED
    BY <1>1, <1>3, <2>1
<1>5. day < NewYear(guess + 2)
  <2>1. 400 * March(guess + 1) >= 146097 * (guess + 1) - 699
    BY <1>1, MarchIsNear
  <2> QED
    BY <1>1, <1>3, <2>1
<1>6. \E y \in guess - 1 .. guess + 1 : In(y)
  <2>1. CASE day < NewYear(guess)
    BY <1>1, <1>4, <2>1
  <2>2. CASE ~(day < NewYear(guess)) /\ day < NewYear(guess + 1)
    BY <1>1, <1>3, <2>2
  <2>3. CASE ~(day < NewYear(guess + 1))
    BY <1>1, <1>3, <1>5, <2>3
  <2> QED
    BY <2>1, <2>2, <2>3
<1> HIDE DEF In
<1>7. YearOf(day) \in guess - 1 .. guess + 1 /\ In(YearOf(day))
  BY <1>2, <1>6
<1> QED
  BY <1>1, <1>7 DEF In

\* Within a week after a day of a year it is that year or the next.
LEMMA YearSoon ==
  ASSUME NEW day \in Int, NEW i \in 0 .. 7
  PROVE  YearOf(day + i) \in {YearOf(day), YearOf(day) + 1}
<1> DEFINE y == YearOf(day)
           z == YearOf(day + i)
<1>1. y \in Int /\ NewYear(y) <= day /\ day < NewYear(y + 1)
  BY YearIs
<1>2. z \in Int /\ NewYear(z) <= day + i /\ day + i < NewYear(z + 1)
  BY YearIs
<1> HIDE DEF y, z
<1>3. NewYear(y + 1) = March(y) + 306 /\ NewYear(z + 1) = March(z) + 306
  BY <1>1, <1>2, DatesAre
<1>4. \A x \in Int : March(x) \in Int /\ NewYear(x) = March(x - 1) + 306
  <2>1. ASSUME NEW x \in Int PROVE March(x) \in Int /\ NewYear(x) = March(x - 1) + 306
    <3>1. x - 1 \in Int /\ (x - 1) + 1 = x
      OBVIOUS
    <3> QED
      BY <3>1, DatesAre
  <2> QED
    BY <2>1
<1>5. ~(z < y)
  <2>1. ASSUME z < y - 1 PROVE FALSE
    <3>1. March(z) + 363 <= March(y - 1)
      BY <1>1, <1>2, <2>1, MarchGrows
    <3> QED
      BY <1>1, <1>2, <1>3, <1>4, <3>1
  <2>2. ASSUME z = y - 1 PROVE FALSE
    BY <1>1, <1>2, <1>3, <1>4, <2>2
  <2> QED
    BY <1>1, <1>2, <2>1, <2>2
<1>6. ~(z > y + 1)
  <2>1. ASSUME z > y + 1 PROVE FALSE
    <3>1. March(y) + 363 <= March(z - 1)
      BY <1>1, <1>2, <2>1, MarchGrows
    <3> QED
      BY <1>1, <1>2, <1>3, <1>4, <3>1
  <2> QED
    BY <2>1
<1>7. z \in {y, y + 1}
  BY <1>1, <1>2, <1>5, <1>6
<1> QED
  BY <1>7 DEF y, z

\* The holidays of a year that begins on day n, whose March begins on day m
\* and whose Easter is on day e.
HolidaysAt(n, m, e) ==
  {n, m + 51, m + 61, m + 190, m + 225, m + 246, m + 259, m + 299, e - 48, e - 47, e - 2, e + 60}

\* Every year has them.
LEMMA HolidaysAre ==
  ASSUME NEW y \in Int
  PROVE  /\ buildHolidays(y) = HolidaysAt(NewYear(y), March(y), computeEaster(y))
         /\ computeEaster(y) \in March(y) + 21 .. March(y) + 55
<1>1. computeEaster(y) \in March(y) + 21 .. March(y) + 55
  <2>1. March(y) \in Int
    BY DatesAre
  <2>2. Jumps(y) <=> SundayAfter(y) = 6 /\ (PaschalMoon(y) = 29 \/ (PaschalMoon(y) = 28 /\ y % 19 > 10))
    BY DEF Jumps
  <2> QED
    BY <2>1, <2>2, EasterIs DEF March
<1>2. \A m \in 3 .. 12, d \in Int :
        DayNumber(y, m, d) = March(y) + (153 * (m - 3) + 2) \div 5 + d - 1
  BY DEF March, DayNumber
<1>3. {DayNumber(y, f[1], f[2]) : f \in FixedHolidays} =
        {DayNumber(y, 1, 1), DayNumber(y, 4, 21), DayNumber(y, 5, 1), DayNumber(y, 9, 7), DayNumber(y, 10, 12),
         DayNumber(y, 11, 2), DayNumber(y, 11, 15), DayNumber(y, 12, 25)}
  BY DEF FixedHolidays
<1>4. {computeEaster(y) + k : k \in MoveableHolidays} =
        {computeEaster(y) - 48, computeEaster(y) - 47, computeEaster(y) - 2, computeEaster(y) + 60}
  <2>1. computeEaster(y) \in Int
    BY <1>1, DatesAre
  <2> QED
    BY <2>1 DEF MoveableHolidays
<1>5. March(y) \in Int
  BY DatesAre
<1>6. /\ DayNumber(y, 4, 21) = March(y) + 51 /\ DayNumber(y, 5, 1) = March(y) + 61
      /\ DayNumber(y, 9, 7) = March(y) + 190 /\ DayNumber(y, 10, 12) = March(y) + 225
      /\ DayNumber(y, 11, 2) = March(y) + 246 /\ DayNumber(y, 11, 15) = March(y) + 259
      /\ DayNumber(y, 12, 25) = March(y) + 299
  BY <1>2, <1>5
<1> DEFINE fixed == {DayNumber(y, f[1], f[2]) : f \in FixedHolidays}
           moveable == {computeEaster(y) + k : k \in MoveableHolidays}
<1>7. buildHolidays(y) = fixed \cup moveable
  BY DEF buildHolidays
<1>8. fixed = {NewYear(y), March(y) + 51, March(y) + 61, March(y) + 190, March(y) + 225, March(y) + 246,
               March(y) + 259, March(y) + 299}
  BY <1>3, <1>6 DEF NewYear
<1> HIDE DEF fixed, moveable
<1>9. fixed \cup moveable = HolidaysAt(NewYear(y), March(y), computeEaster(y))
  BY <1>4, <1>8 DEF HolidaysAt, moveable
<1> QED
  BY <1>1, <1>7, <1>9

\* Three holidays never meet within five days.
LEMMA NoThree ==
  ASSUME NEW n \in Int, NEW m \in Int, NEW e \in Int, m - n \in 59 .. 60, e - m \in 21 .. 55,
         NEW x \in Int, NEW y \in Int, NEW z \in Int, x < y, y < z, z <= x + 4
  PROVE  ~({x, y, z} \subseteq HolidaysAt(n, m, e) \cup {m + 306})
  BY DEF HolidaysAt

\* Of five days in a row three are not on a weekend.
LEMMA ThreeWeekdays ==
  ASSUME NEW day \in Int
  PROVE  \E i, j, k \in 0 .. 4 : i < j /\ j < k /\ \A x \in {i, j, k} : Weekday(day + x) \notin {0, 6}
<1> DEFINE w == (day + 3) % 7
<1>1. \A x \in 0 .. 4 : Weekday(day + x) = IF w + x > 6 THEN w + x - 7 ELSE w + x
  BY DEF Weekday
<1>2. w \in 0 .. 6
  OBVIOUS
<1> HIDE DEF w
<1>3. CASE w = 0
  BY <1>1, <1>3
<1>4. CASE w \in {1, 2, 3}
  BY <1>1, <1>4
<1>5. CASE w = 4
  BY <1>1, <1>5
<1>6. CASE w = 5
  BY <1>1, <1>6
<1>7. CASE w = 6
  BY <1>1, <1>7
<1> QED
  BY <1>2, <1>3, <1>4, <1>5, <1>6, <1>7

\* What is remembered is what would be computed.
LEMMA HolidaysOfIs ==
  ASSUME CacheIsTrue, NEW y
  PROVE  HolidaysOf(y) = buildHolidays(y)
  BY DEF CacheIsTrue, HolidaysOf

\* Of five days in a row one is a business day.
LEMMA OpenSoon ==
  ASSUME CacheIsTrue, NEW day \in Int
  PROVE  \E i \in 0 .. 4 : isBusinessDay(day + i)
<1> DEFINE y == YearOf(day)
           hol == HolidaysAt(NewYear(y), March(y), computeEaster(y)) \cup {March(y) + 306}
<1>1. y \in Int /\ NewYear(y) <= day /\ day < NewYear(y + 1)
  BY YearIs
<1>2. \A i \in 0 .. 4 : IsHoliday(day + i) => day + i \in hol
  <2> SUFFICES ASSUME NEW i \in 0 .. 4, IsHoliday(day + i) PROVE day + i \in hol
    OBVIOUS
  <2> DEFINE z == YearOf(day + i)
  <2>1. z \in {y, y + 1}
    BY YearSoon
  <2>2. day + i \in buildHolidays(z)
    BY HolidaysOfIs DEF IsHoliday
  <2> HIDE DEF z, y
  <2>3. CASE z = y
    BY <1>1, <2>2, <2>3, HolidaysAre
  <2>4. CASE z = y + 1
    <3> DEFINE n == NewYear(y + 1)
               m == March(y + 1)
               e == computeEaster(y + 1)
    <3>1. day + i \in HolidaysAt(n, m, e) /\ e \in m + 21 .. m + 55
      BY <1>1, <2>2, <2>4, HolidaysAre
    <3>2. n \in Int /\ m \in Int /\ m - n \in 59 .. 60 /\ n = March(y) + 306
      BY <1>1, DatesAre
    <3> HIDE DEF n, m, e
    <3>3. day + i < n + 4
      BY <1>1, <3>2 DEF n
    <3>4. day + i = n
      BY <3>1, <3>2, <3>3 DEF HolidaysAt
    <3> QED
      BY <3>2, <3>4
  <2> QED
    BY <2>1, <2>3, <2>4
<1>3. PICK i \in 0 .. 4, j \in 0 .. 4, k \in 0 .. 4 :
        i < j /\ j < k /\ \A x \in {i, j, k} : Weekday(day + x) \notin {0, 6}
  BY ThreeWeekdays
<1>4. ~({day + i, day + j, day + k} \subseteq hol)
  <2> DEFINE n == NewYear(y)
             m == March(y)
             e == computeEaster(y)
             p == day + i
             q == day + j
             r == day + k
  <2>1. n \in Int /\ m \in Int /\ m - n \in 59 .. 60
    BY <1>1, DatesAre
  <2>2. e \in m + 21 .. m + 55
    BY <1>1, HolidaysAre
  <2>3. p \in Int /\ q \in Int /\ r \in Int /\ p < q /\ q < r /\ r <= p + 4
    BY <1>3
  <2>4. hol = HolidaysAt(n, m, e) \cup {m + 306}
    OBVIOUS
  <2> HIDE DEF hol, n, m, e, p, q, r
  <2>5. e \in Int /\ e - m \in 21 .. 55
    BY <2>1, <2>2
  <2>6. ~({p, q, r} \subseteq HolidaysAt(n, m, e) \cup {m + 306})
    BY <2>1, <2>3, <2>5, NoThree
  <2> QED
    BY <2>4, <2>6 DEF p, q, r
<1> HIDE DEF hol
<1> QED
  BY <1>2, <1>3, <1>4 DEF isBusinessDay

\* So the loops of the calendar end.
LEMMA BusinessDaysGoOn ==
  ASSUME CacheIsTrue
  PROVE  OpensAgain(BusinessDay)
<1>1. \A d \in Int : \E i \in 0 .. 4 : isBusinessDay(d + i)
  BY OpenSoon
<1>2. \A d \in Int, i \in 0 .. 4 : i \in Nat /\ d + i \in Int
  OBVIOUS
<1> QED
  BY <1>1, <1>2 DEF OpensAgain, BusinessDay

\* All of it follows from a cache that is true.
LEMMA CalendarFollows ==
  ASSUME CacheIsTrue
  PROVE  CalendarIsRight
<1>1. EasterByTables
  BY EasterFollowsTables, CalendarAssumption DEF EasterByTables
<1>2. OpensAgain(BusinessDay)
  BY BusinessDaysGoOn
<1>3. \A y : DaysOf(y) \subseteq Int
  BY DEF DaysOf
<1>4. SlipIsShort
  <2>1. ASSUME NEW d \in Int PROVE NextBusinessDay(d) - d \in 0 .. 4
    <3>1. IsNextOpen(BusinessDay, d, NextBusinessDay(d))
      BY <1>2, NextOpenIs DEF NextBusinessDay
    <3>2. PICK i \in 0 .. 4 : isBusinessDay(d + i)
      BY OpenSoon
    <3>3. d + i \in BusinessDay
      BY <3>2 DEF BusinessDay
    <3> QED
      BY <3>1, <3>3 DEF IsNextOpen
  <2> QED
    BY <1>3, <2>1 DEF SlipIsShort
<1>5. GraceCountsOpenDays
  <2>1. ASSUME NEW d \in Int, NEW n \in Tolerances
        PROVE  /\ isBusinessDay(AddBusinessDays(d, n))
               /\ Cardinality({e \in NextBusinessDay(d) + 1 .. AddBusinessDays(d, n) : isBusinessDay(e)}) = n
    <3> DEFINE first == NextBusinessDay(d)
               end == AddBusinessDays(d, n)
    <3>1. n \in Nat
      BY CalendarAssumption
    <3>2. end \in BusinessDay /\ Cardinality(OpenBetween(BusinessDay, first, end)) = n
      BY <1>2, <3>1, GraceCounts DEF NextBusinessDay, AddBusinessDays
    <3> HIDE DEF first, end
    <3>3. OpenBetween(BusinessDay, first, end) = {e \in first + 1 .. end : isBusinessDay(e)}
      BY DEF OpenBetween, BusinessDay
    <3> QED
      BY <3>2, <3>3 DEF BusinessDay, first, end
  <2> QED
    BY <1>3, <2>1 DEF GraceCountsOpenDays
<1> QED
  BY <1>1, <1>4, <1>5 DEF CalendarIsRight

\* What the calendar remembers of a year are the year's holidays.
LEMMA CacheStaysTrue == CalendarSpec => []CacheIsTrue
<1>1. CalendarInit => CacheIsTrue
  BY DEF CalendarInit, CacheIsTrue
<1>2. CacheIsTrue /\ [CalendarNext]_cache => CacheIsTrue'
  <2> SUFFICES ASSUME CacheIsTrue, [CalendarNext]_cache PROVE CacheIsTrue'
    OBVIOUS
  <2>1. CASE UNCHANGED cache
    BY <2>1 DEF CacheIsTrue
  <2>2. ASSUME NEW y \in DateYears, holidaysForYear(y) PROVE CacheIsTrue'
    BY <2>2, HolidaysOfIs DEF holidaysForYear, CacheIsTrue
  <2> QED
    BY <2>1, <2>2 DEF CalendarNext
<1> QED
  BY <1>1, <1>2, PTL DEF CalendarSpec

\* Whatever years the calendar was asked for and remembers: Easter is the one
\* of the tables in every year, no date is pushed by more than four days, and
\* a tolerance of n business days is n business days, for any n.
THEOREM CalendarStaysRight == CalendarSpec => []CalendarIsRight
<1>1. CacheIsTrue => CalendarIsRight
  BY CalendarFollows
<1> QED
  BY <1>1, CacheStaysTrue, PTL

\* The real calendar meets the hypothesis of the theorems about payments: after
\* every day there is a business day.
THEOREM RealDaysGoOn == CalendarSpec => []OpensAgain(BusinessDay)
<1>1. CacheIsTrue => OpensAgain(BusinessDay)
  BY BusinessDaysGoOn
<1> QED
  BY <1>1, CacheStaysTrue, PTL
=============================================================================

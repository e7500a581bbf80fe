------------------------------- MODULE Specialists -------------------------------
(***************************************************************************)
(* AI specialists, the law firms they serve, their guardrails and tools    *)
(* (src/internal/specialist).                                              *)
(*                                                                         *)
(* A form is sent from a page that showed what there was when it was       *)
(* opened.  The use cases read, decide and write in statements of their    *)
(* own, without a transaction, so two requests interleave between any two  *)
(* of them; setting the default of a firm is the one transaction.          *)
(***************************************************************************)
EXTENDS FiniteSetsExt

CONSTANTS
  Specialist,  \* specialists
  Tenant,      \* law firms
  Guardrail,   \* guardrails of the library
  Tool,        \* names of registered tools
  SpecRequest, \* requests in flight
  SpecFaults,  \* {"db"} when a statement may fail
  NoRow, None

VARIABLES
  specialist,   \* rows of specialists, or NoRow
  tenantActive, \* whether a firm is active, see Tenants
  assigned,     \* rows of specialist_tenants
  preferred,    \* the row of a firm with is_default, or None
  guardrail,    \* rows of guardrails, or NoRow
  attached,     \* rows of specialist_guardrails
  tools,        \* rows of specialist_tools
  specReq,      \* requests in flight
  unsettled     \* history: firms a request changed and left without its last step

specRows == <<specialist, tenantActive, assigned, preferred, guardrail, attached, tools>>
specVars == <<specRows, specReq, unsettled>>

SpecialistRow == [active : BOOLEAN, crossSell : BOOLEAN]
SpecialistTenantRow == Specialist \X Tenant
GuardrailRow == [active : BOOLEAN]
SpecialistGuardrailRow == Specialist \X Guardrail
SpecialistToolRow == Specialist \X Tool

ASSUME SpecialistAssumption ==
  /\ IsFiniteSet(Specialist) /\ None \notin Specialist
  /\ NoRow \notin SpecialistRow \cup GuardrailRow

SpecIdle == [phase |-> "none"]
SpecPhase == {"none", "page", "save", "associate", "insert", "sync", "settle", "ids", "setDefault",
              "attach", "saveGuardrail", "count", "drop"}

SpecialistTypeOK ==
  /\ specialist \in [Specialist -> SpecialistRow \cup {NoRow}]
  /\ assigned \subseteq SpecialistTenantRow
  /\ preferred \in [Tenant -> Specialist \cup {None}]
  /\ \A t \in Tenant : preferred[t] # None => <<preferred[t], t>> \in assigned
  /\ guardrail \in [Guardrail -> GuardrailRow \cup {NoRow}]
  /\ attached \subseteq SpecialistGuardrailRow
  /\ \A a \in attached : guardrail[a[2]] # NoRow
  /\ tools \subseteq SpecialistToolRow
  /\ \A r \in SpecRequest : specReq[r].phase \in SpecPhase

SpecialistInit ==
  /\ specialist = [s \in Specialist |-> NoRow]
  /\ tenantActive = [t \in Tenant |-> TRUE]
  /\ assigned = {} /\ preferred = [t \in Tenant |-> None]
  /\ guardrail = [g \in Guardrail |-> NoRow] /\ attached = {} /\ tools = {}
  /\ specReq = [r \in SpecRequest |-> SpecIdle] /\ unsettled = {}

-----------------------------------------------------------------------------
Free(r) == specReq[r].phase \in {"none", "page"}
Now(r, q) == specReq' = [specReq EXCEPT ![r] = q]
IsActive(s) == specialist[s].active

\* The firms whose rows a request changed and not settled yet stay that way
\* when it ends.
Ends(r) ==
  LET q == specReq[r] IN
  /\ Now(r, SpecIdle)
  /\ unsettled' = IF "changed" \in DOMAIN q THEN unsettled \cup q.changed ELSE unsettled

SpecFails(r) ==
  /\ "db" \in SpecFaults /\ ~Free(r)
  /\ Ends(r)
  /\ UNCHANGED specRows

-----------------------------------------------------------------------------
(* The specialists themselves. *)

NewSpecialist == [active |-> TRUE, crossSell |-> FALSE]
CreateSpecialist(s) ==
  /\ specialist[s] = NoRow
  /\ specialist' = [specialist EXCEPT ![s] = NewSpecialist]
  /\ UNCHANGED <<tenantActive, assigned, preferred, guardrail, attached, tools, specReq, unsettled>>

\* FindByID and a change in memory; Save writes the whole row.
FindSpecialist(r, s, row) ==
  /\ Free(r) /\ specialist[s] # NoRow
  /\ Now(r, [phase |-> "save", spec |-> s, row |-> row])
  /\ UNCHANGED <<specRows, unsettled>>
Deactivated(row) == [row EXCEPT !.active = FALSE]
Activated(row) == [row EXCEPT !.active = TRUE]
WithCrossSell(row, on) == [row EXCEPT !.crossSell = on]
DeactivateSpecialist(r, s) ==
  specialist[s] # NoRow /\ IsActive(s) /\ FindSpecialist(r, s, Deactivated(specialist[s]))
ActivateSpecialist(r, s) ==
  specialist[s] # NoRow /\ ~IsActive(s) /\ FindSpecialist(r, s, Activated(specialist[s]))
UpdateSpecialist(r, s) == FindSpecialist(r, s, specialist[s])
HandleUpdateConfig(r, s, on) == specialist[s] # NoRow /\ FindSpecialist(r, s, WithCrossSell(specialist[s], on))

SaveSpecialist(r) ==
  LET q == specReq[r] IN
  /\ q.phase = "save"
  /\ specialist' = [specialist EXCEPT ![q.spec] = q.row]
  /\ Now(r, SpecIdle)
  /\ UNCHANGED <<tenantActive, assigned, preferred, guardrail, attached, tools, unsettled>>

TenantStatusChanges(t) ==
  /\ tenantActive' = [tenantActive EXCEPT ![t] = ~@]
  /\ UNCHANGED <<specialist, assigned, preferred, guardrail, attached, tools, specReq, unsettled>>

-----------------------------------------------------------------------------
(* The pages. *)

FindTenantIDs(s) == {t \in Tenant : <<s, t>> \in assigned}
FindSpecialistIDs(t) == {s \in Specialist : <<s, t>> \in assigned}
ListSpecialistTenants(s) == FindTenantIDs(s)
ListAvailableTenants(s) == {t \in Tenant : tenantActive[t]} \ FindTenantIDs(s)
ListManageableTenants(s) == {t \in Tenant : tenantActive[t]} \cup FindTenantIDs(s)
ListGuardrails(s) == {g \in Guardrail : <<s, g>> \in attached}
ListAllGuardrails == {g \in Guardrail : guardrail[g] # NoRow}
ListAvailableGuardrails(s) == ListAllGuardrails \ ListGuardrails(s)

Opens(r, view, s, shown) ==
  /\ Free(r)
  /\ Now(r, [phase |-> "page", view |-> view, spec |-> s, shown |-> shown])
  /\ UNCHANGED <<specRows, unsettled>>
HandleListTenants(r, s) == specialist[s] # NoRow /\ Opens(r, "tenants", s, ListSpecialistTenants(s))
HandleListAvailable(r, s) == Opens(r, "available", s, ListAvailableTenants(s))
HandleListManageable(r, s) == specialist[s] # NoRow /\ Opens(r, "manage", s, ListManageableTenants(s))
HandleListGuardrails(r, s) == Opens(r, "guardrails", s, ListGuardrails(s))
RenderAttachList(r, s) == Opens(r, "attach", s, ListAvailableGuardrails(s))
RenderLibrary(r) == Opens(r, "library", None, ListAllGuardrails)

On(r, view) == specReq[r].phase = "page" /\ specReq[r].view = view

-----------------------------------------------------------------------------
(* Firms.  Every request that changes the rows of a firm ends by settling    *)
(* its default.                                                              *)

Work(phase, s, left, adds, removes, changed) ==
  [phase |-> phase, spec |-> s, left |-> left, adds |-> adds, removes |-> removes,
   changed |-> changed, tenant |-> None, sole |-> None]

InsertRow(s, t) ==
  /\ assigned' = assigned \cup {<<s, t>>}
  /\ UNCHANGED <<specialist, tenantActive, preferred, guardrail, attached, tools>>
DeleteRow(s, t) ==
  /\ assigned' = assigned \ {<<s, t>>}
  /\ preferred' = IF preferred[t] = s THEN [preferred EXCEPT ![t] = None] ELSE preferred
  /\ UNCHANGED <<specialist, tenantActive, guardrail, attached, tools>>

HandleAssociateTenants(r, chosen) ==
  LET s == specReq[r].spec IN
  /\ On(r, "available")
  /\ chosen \subseteq specReq[r].shown /\ chosen # {}
  /\ UNCHANGED <<specRows, unsettled>>
  /\ IF specialist[s] # NoRow /\ IsActive(s)
     THEN Now(r, Work("associate", s, chosen, {}, {}, {}))
     ELSE Now(r, SpecIdle)

\* The firm is active, and a pair that is there is skipped.
CheckTenant(r) ==
  LET q == specReq[r] IN
  /\ q.phase = "associate"
  /\ \E t \in q.left :
       \/ ~tenantActive[t] /\ Ends(r)
       \/ /\ tenantActive[t] /\ <<q.spec, t>> \in assigned
          /\ Now(r, IF q.left = {t} THEN SpecIdle ELSE [q EXCEPT !.left = @ \ {t}])
          /\ UNCHANGED unsettled
       \/ /\ tenantActive[t] /\ <<q.spec, t>> \notin assigned
          /\ Now(r, [q EXCEPT !.phase = "insert", !.left = @ \ {t}, !.adds = {t}])
          /\ UNCHANGED unsettled
  /\ UNCHANGED specRows

\* The primary key stops the second of two.
Associate(r) ==
  LET q == specReq[r] IN
  /\ q.phase = "insert"
  /\ \E t \in q.adds :
       IF <<q.spec, t>> \in assigned
       THEN Ends(r) /\ UNCHANGED specRows
       ELSE /\ InsertRow(q.spec, t)
            /\ Now(r, [q EXCEPT !.phase = "settle", !.changed = {t}])
            /\ unsettled' = unsettled \ {t}

HandleDissociateTenant(r, t) ==
  LET s == specReq[r].spec IN
  /\ On(r, "tenants") /\ t \in specReq[r].shown
  /\ IF <<s, t>> \in assigned
     THEN /\ DeleteRow(s, t)
          /\ Now(r, Work("settle", s, {}, {}, {t}, {t}))
          /\ unsettled' = unsettled \ {t}
     ELSE Now(r, SpecIdle) /\ UNCHANGED <<specRows, unsettled>>

\* The set the page sends replaces the one there is; all that is added is
\* checked before the first change.
HandleSyncTenants(r, desired) ==
  LET s == specReq[r].spec
      adds == desired \ FindTenantIDs(s)
  IN /\ On(r, "manage")
     /\ desired \subseteq specReq[r].shown
     /\ UNCHANGED <<specRows, unsettled>>
     /\ IF IsActive(s) /\ \A t \in adds : tenantActive[t]
        THEN Now(r, Work("sync", s, {}, adds, FindTenantIDs(s) \ desired, {}))
        ELSE Now(r, SpecIdle)

SyncRemove(r) ==
  LET q == specReq[r] IN
  /\ q.phase = "sync"
  /\ \E t \in q.removes \ q.changed :
       IF <<q.spec, t>> \in assigned
       THEN /\ DeleteRow(q.spec, t)
            /\ Now(r, [q EXCEPT !.changed = @ \cup {t}])
            /\ unsettled' = unsettled \ {t}
       ELSE Ends(r) /\ UNCHANGED specRows
SyncAdd(r) ==
  LET q == specReq[r] IN
  /\ q.phase = "sync" /\ q.removes \subseteq q.changed
  /\ \E t \in q.adds \ q.changed :
       IF <<q.spec, t>> \in assigned
       THEN Ends(r) /\ UNCHANGED specRows
       ELSE /\ InsertRow(q.spec, t)
            /\ Now(r, [q EXCEPT !.changed = @ \cup {t}])
            /\ unsettled' = unsettled \ {t}
SyncDone(r) ==
  LET q == specReq[r] IN
  /\ q.phase = "sync" /\ q.removes \cup q.adds = q.changed
  /\ Now(r, IF q.changed = {} THEN SpecIdle ELSE [q EXCEPT !.phase = "settle"])
  /\ UNCHANGED <<specRows, unsettled>>

\* ensureTenantDefault, the added ones first.
Settled(r, t) ==
  LET q == [specReq[r] EXCEPT !.changed = @ \ {t}, !.phase = "settle", !.tenant = None, !.sole = None] IN
  /\ Now(r, IF q.changed # {} THEN q ELSE IF q.left # {} THEN [q EXCEPT !.phase = "associate"] ELSE SpecIdle)
  /\ UNCHANGED unsettled
ToSettle(q) == IF q.changed \cap q.adds # {} THEN q.changed \cap q.adds ELSE q.changed

FindDefault(r) ==
  LET q == specReq[r] IN
  /\ q.phase = "settle"
  /\ UNCHANGED specRows
  /\ \E t \in ToSettle(q) :
       IF preferred[t] # None
       THEN Settled(r, t)
       ELSE Now(r, [q EXCEPT !.phase = "ids", !.tenant = t]) /\ UNCHANGED unsettled

\* Mutant: one among several.
Several(ids) == Cardinality(ids) > 1
Sole(ids) == Cardinality(ids) = 1
FindIDs(r) ==
  LET q == specReq[r]
      ids == FindSpecialistIDs(q.tenant)
  IN /\ q.phase = "ids"
     /\ UNCHANGED specRows
     /\ IF Sole(ids)
        THEN \E s \in ids : Now(r, [q EXCEPT !.phase = "setDefault", !.sole = s]) /\ UNCHANGED unsettled
        ELSE Settled(r, q.tenant)

\* One transaction, undone when the pair is gone.
SetDefault(r) ==
  LET q == specReq[r] IN
  /\ q.phase = "setDefault"
  /\ IF <<q.sole, q.tenant>> \in assigned
     THEN /\ preferred' = [preferred EXCEPT ![q.tenant] = q.sole]
          /\ UNCHANGED <<specialist, tenantActive, assigned, guardrail, attached, tools>>
          /\ Settled(r, q.tenant)
     ELSE Ends(r) /\ UNCHANGED specRows

HandleSetDefault(r, t) ==
  LET s == specReq[r].spec IN
  /\ On(r, "manage") /\ t \in specReq[r].shown
  /\ preferred' = IF <<s, t>> \in assigned THEN [preferred EXCEPT ![t] = s] ELSE preferred
  /\ Now(r, SpecIdle)
  /\ UNCHANGED <<specialist, tenantActive, assigned, guardrail, attached, tools, unsettled>>

-----------------------------------------------------------------------------
(* Guardrails. *)

\* HandleCreate of a specialist attaches what it creates, the library does not.
NewGuardrail == [active |-> TRUE]
CreateGuardrail(r, s, g) ==
  /\ Free(r) /\ guardrail[g] = NoRow
  /\ s # None => specialist[s] # NoRow /\ IsActive(s)
  /\ guardrail' = [guardrail EXCEPT ![g] = NewGuardrail]
  /\ Now(r, IF s = None THEN SpecIdle ELSE [phase |-> "attach", spec |-> s, guardrail |-> g])
  /\ UNCHANGED <<specialist, tenantActive, assigned, preferred, attached, tools, unsettled>>

HandleAttach(r, g) ==
  LET s == specReq[r].spec IN
  /\ On(r, "attach") /\ g \in specReq[r].shown
  /\ Now(r, IF specialist[s] # NoRow /\ IsActive(s) /\ guardrail[g] # NoRow
            THEN [phase |-> "attach", spec |-> s, guardrail |-> g] ELSE SpecIdle)
  /\ UNCHANGED <<specRows, unsettled>>

\* The primary key stops the second of two, the foreign key what is gone.
Attach(r) ==
  LET q == specReq[r] IN
  /\ q.phase = "attach"
  /\ attached' = IF guardrail[q.guardrail] = NoRow THEN attached
                 ELSE attached \cup {<<q.spec, q.guardrail>>}
  /\ Now(r, SpecIdle)
  /\ UNCHANGED <<specialist, tenantActive, assigned, preferred, guardrail, tools, unsettled>>

HandleDetach(r, g) ==
  /\ On(r, "guardrails") /\ g \in specReq[r].shown
  /\ attached' = attached \ {<<specReq[r].spec, g>>}
  /\ Now(r, SpecIdle)
  /\ UNCHANGED <<specialist, tenantActive, assigned, preferred, guardrail, tools, unsettled>>

\* FindByID and a change in memory, from either page.
Picked(r, g) == (On(r, "library") \/ On(r, "guardrails")) /\ g \in specReq[r].shown
Toggled(row) == [row EXCEPT !.active = ~@]
ChangeGuardrail(r, g, row) ==
  /\ Picked(r, g)
  /\ Now(r, IF guardrail[g] = NoRow THEN SpecIdle
            ELSE [phase |-> "saveGuardrail", guardrail |-> g, row |-> row])
  /\ UNCHANGED <<specRows, unsettled>>
ToggleGuardrail(r, g) ==
  ChangeGuardrail(r, g, IF guardrail[g] = NoRow THEN NoRow ELSE Toggled(guardrail[g]))
UpdateGuardrail(r, g) == ChangeGuardrail(r, g, guardrail[g])

\* Updates names every column, and does nothing to a row that is gone.
SaveGuardrail(r) ==
  LET q == specReq[r] IN
  /\ q.phase = "saveGuardrail"
  /\ guardrail' = IF guardrail[q.guardrail] = NoRow THEN guardrail
                  ELSE [guardrail EXCEPT ![q.guardrail] = q.row]
  /\ Now(r, SpecIdle)
  /\ UNCHANGED <<specialist, tenantActive, assigned, preferred, attached, tools, unsettled>>

HandleDeleteGuardrail(r, g) ==
  /\ On(r, "library") /\ g \in specReq[r].shown
  /\ Now(r, IF guardrail[g] = NoRow THEN SpecIdle ELSE [phase |-> "count", guardrail |-> g])
  /\ UNCHANGED <<specRows, unsettled>>

CountSpecialists(g) == Cardinality({s \in Specialist : <<s, g>> \in attached})
DeleteGuardrail(r) ==
  LET q == specReq[r] IN
  /\ q.phase = "count"
  /\ Now(r, IF CountSpecialists(q.guardrail) > 0 THEN SpecIdle
            ELSE [phase |-> "drop", guardrail |-> q.guardrail])
  /\ UNCHANGED <<specRows, unsettled>>
\* The foreign key takes the links with the row, also one that was attached
\* after the count.
DropGuardrail(r) ==
  LET q == specReq[r] IN
  /\ q.phase = "drop"
  /\ guardrail' = [guardrail EXCEPT ![q.guardrail] = NoRow]
  /\ attached' = {a \in attached : a[2] # q.guardrail}
  /\ Now(r, SpecIdle)
  /\ UNCHANGED <<specialist, tenantActive, assigned, preferred, tools, unsettled>>

-----------------------------------------------------------------------------
(* Tools: each a statement of its own; the primary key stops a second row. *)

AssociateTool(s, x) ==
  /\ specialist[s] # NoRow /\ <<s, x>> \notin tools
  /\ tools' = tools \cup {<<s, x>>}
  /\ UNCHANGED <<specialist, tenantActive, assigned, preferred, guardrail, attached, specReq, unsettled>>
DissociateTool(s, x) ==
  /\ <<s, x>> \in tools
  /\ tools' = tools \ {<<s, x>>}
  /\ UNCHANGED <<specialist, tenantActive, assigned, preferred, guardrail, attached, specReq, unsettled>>

-----------------------------------------------------------------------------
SpecialistForms(r) ==
  \/ \E s \in Specialist :
       \/ UpdateSpecialist(r, s) \/ ActivateSpecialist(r, s) \/ DeactivateSpecialist(r, s)
       \/ \E on \in BOOLEAN : HandleUpdateConfig(r, s, on)
  \/ SaveSpecialist(r)
TenantForms(r) ==
  \/ \E s \in Specialist : HandleListTenants(r, s) \/ HandleListAvailable(r, s) \/ HandleListManageable(r, s)
  \/ \E ts \in SUBSET Tenant : HandleAssociateTenants(r, ts) \/ HandleSyncTenants(r, ts)
  \/ \E t \in Tenant : HandleDissociateTenant(r, t) \/ HandleSetDefault(r, t)
  \/ CheckTenant(r) \/ Associate(r) \/ SyncRemove(r) \/ SyncAdd(r) \/ SyncDone(r)
  \/ FindDefault(r) \/ FindIDs(r) \/ SetDefault(r)
GuardrailForms(r) ==
  \E g \in Guardrail :
    \/ \E s \in Specialist : CreateGuardrail(r, s, g)
    \/ On(r, "guardrails") /\ (ToggleGuardrail(r, g) \/ UpdateGuardrail(r, g))
GuardrailLinks(r) == \E g \in Guardrail : HandleAttach(r, g) \/ HandleDetach(r, g)
LibraryForms(r) ==
  \/ RenderLibrary(r)
  \/ \E g \in Guardrail :
       \/ CreateGuardrail(r, None, g) \/ HandleDeleteGuardrail(r, g)
       \/ On(r, "library") /\ (ToggleGuardrail(r, g) \/ UpdateGuardrail(r, g))
GuardrailStatements(r) == Attach(r) \/ SaveGuardrail(r) \/ DeleteGuardrail(r) \/ DropGuardrail(r)
GuardrailPages(r) == \E s \in Specialist : HandleListGuardrails(r, s) \/ RenderAttachList(r, s)
ToolForms == \E s \in Specialist, x \in Tool : AssociateTool(s, x) \/ DissociateTool(s, x)

SpecialistNext ==
  \/ \E s \in Specialist : CreateSpecialist(s)
  \/ \E t \in Tenant : TenantStatusChanges(t)
  \/ \E r \in SpecRequest :
       \/ SpecialistForms(r) \/ TenantForms(r) \/ SpecFails(r)
       \/ GuardrailPages(r) \/ GuardrailForms(r) \/ GuardrailLinks(r) \/ LibraryForms(r) \/ GuardrailStatements(r)
  \/ ToolForms
SpecialistSpec == SpecialistInit /\ [][SpecialistNext]_specVars

-----------------------------------------------------------------------------
\* A firm served by one specialist is answered by that one, however the
\* requests that changed its specialists interleaved, once they are through;
\* only one that failed before its last step leaves a firm without a default
\* (ensure_tenant_default.go:19, sync_specialist_tenants.go:104-127).
Busy(t) == \E r \in SpecRequest : "changed" \in DOMAIN specReq[r] /\ t \in specReq[r].changed
SoleIsDefault ==
  \A t \in Tenant \ unsettled :
    ~Busy(t) /\ Cardinality(FindSpecialistIDs(t)) = 1 => preferred[t] \in FindSpecialistIDs(t)
=============================================================================

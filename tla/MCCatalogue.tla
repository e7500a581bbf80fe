------------------------------- MODULE MCCatalogue -------------------------------
(***************************************************************************)
(* Specialists and their scripts on small instances; part says which       *)
(* question a behaviour asks.                                              *)
(***************************************************************************)
EXTENDS Catalogue, TLC

CONSTANTS
  sp1, sp2, sp3, t1, t2, gr1, gr2, k1, k2, k3, \* specialists, firms, guardrails, tools
  w1, z1, z2, z3, \* scripts
  p1, p2, f1, f2, x1, x2, q1, q2, l1, l2, d1, d2, m1, v1, v2

VARIABLE part

\* sp1 is told apart.
Symmetry == Permutations(SpecRequest) \cup Permutations(Specialist \ {sp1})

Parts == {"defaults", "sync", "guardrails", "status", "steps", "rules", "scoring", "products", "documents",
          "servers", "files"}

MCInit ==
  /\ part \in Parts
  /\ specialist = [s \in Specialist |-> IF part = "status" THEN NoRow ELSE NewSpecialist]
  /\ tenantActive = [t \in Tenant |-> TRUE]
  /\ assigned = {} /\ preferred = [t \in Tenant |-> None]
  /\ guardrail = [g \in Guardrail |-> NoRow] /\ attached = {} /\ tools = {}
  /\ specReq = [r \in SpecRequest |-> SpecIdle] /\ unsettled = {}
  /\ ScriptInit /\ ProductInit /\ LibraryInit /\ FileInit

\* One firm and every request.
DefaultsPart ==
  \/ \E r \in SpecRequest :
       \/ \E s \in Specialist : HandleListTenants(r, s) \/ HandleListAvailable(r, s)
       \/ \E s \in Specialist : HandleListManageable(r, s)
       \/ HandleAssociateTenants(r, {t1}) \/ HandleDissociateTenant(r, t1) \/ HandleSetDefault(r, t1)
       \/ CheckTenant(r) \/ Associate(r) \/ FindDefault(r) \/ FindIDs(r) \/ SetDefault(r) \/ SpecFails(r)
  \/ TenantStatusChanges(t1)
SyncPart ==
  \/ \E r \in SpecRequest :
       \/ \E s \in {sp1, sp2} : HandleListManageable(r, s)
       \/ \E ts \in SUBSET Tenant : HandleSyncTenants(r, ts)
       \/ SyncRemove(r) \/ SyncAdd(r) \/ SyncDone(r) \/ FindDefault(r) \/ FindIDs(r) \/ SetDefault(r)
\* The first specialist and two guardrails.
GuardrailsPart ==
  \E r \in SpecRequest :
    \/ HandleListGuardrails(r, sp1) \/ RenderAttachList(r, sp1)
    \/ GuardrailForms(r) \/ GuardrailLinks(r) \/ LibraryForms(r) \/ GuardrailStatements(r)
StatusPart ==
  \/ \E s \in Specialist : CreateSpecialist(s)
  \/ \E r \in SpecRequest : SpecialistForms(r) \/ SpecFails(r)
  \/ ToolForms

ScoringPart(r) ==
  \/ ScoringForms(r) \/ CreateStep(r) \/ DropStep(r) \/ ReorderAfterDelete(r)
  \/ \E x \in Step : DeleteStep(r, x) \/ InsertStep(r, x, 2)

\* A funnel of each firm, a keyword of one word and one with a comma; the first
\* request is of the office, the second a message to the first firm.
MCFunnelOwner == (f1 :> t1) @@ (f2 :> t2)
ProductsPart ==
  \/ \E p \in Product :
       \/ CreateProduct(p, IF p = p1 THEN {<<x1>>} ELSE {<<x1, x2>>})
       \/ RenderAdminProductForm(q1, p) \/ ToggleProduct(q1, p) \/ DeleteProduct(p)
       \/ productReq[q1].phase = "form" /\ productReq[q1].product = p /\ UpdateProduct(q1, productReq[q1].shown)
       \/ \E t \in {t1} : AssociateTenant(t, p) \/ DisassociateTenant(t, p)
  \/ LinkFunnel(f1, p1, 1) \/ UnlinkFunnel(f1, p1) \/ UpdatePriority(f1, p1, 2)
  \/ SaveProduct(q1)
  \/ MatchProduct(q2) \/ FindTopPriorityFunnel(q2)
  \/ DetectProduct(q2, t1, {<<x1>>}) \/ DetectProduct(q2, t1, {<<x1>>, <<x2>>, <<x1, x2>>})

DocumentsPart ==
  \/ \E r \in LibraryRequest :
       \/ DocumentForms(r) \/ StatementFails(r) \/ FindItem(r) \/ AssociateItem(r)
       \/ \E ds \in SUBSET Document : AssociateDocuments(r, sp1, ds)
       \/ \E d \in Document : DissociateDocument(sp1, d)
  \/ LibraryCrash
ServersPart ==
  \/ \E r \in LibraryRequest :
       \/ McpForms(r) \/ DissociateAll(r) \/ DropItem(r) \/ FindItem(r) \/ AssociateItem(r) \/ StatementFails(r)
       \/ \E s \in {sp1, sp2} : AssociateMcps(r, s, Server) \/ DissociateMcp(s, m1)

MCNext ==
  \/ part = "defaults" /\ DefaultsPart /\ UNCHANGED <<scriptVars, productVars, libraryVars, fileVars, part>>
  \/ part = "sync" /\ SyncPart /\ UNCHANGED <<scriptVars, productVars, libraryVars, fileVars, part>>
  \/ part = "guardrails" /\ GuardrailsPart /\ UNCHANGED <<scriptVars, productVars, libraryVars, fileVars, part>>
  \/ part = "status" /\ StatusPart /\ UNCHANGED <<scriptVars, productVars, libraryVars, fileVars, part>>
  \* A race is where the question ends.
  \/ /\ part = "steps" /\ ~stepsRaced /\ \E r \in ScriptRequest : StepForms(r) \/ ScriptFails(r)
     /\ UNCHANGED <<specVars, productVars, libraryVars, fileVars, part>>
  \/ /\ part = "rules" /\ ~rulesRaced /\ ~ruleDeleted
     /\ \E r \in ScriptRequest :
          RuleForms(r) \/ RuleMoves(r) \/ RuleSection(r) \/ RuleStatements(r) \/ ScriptFails(r)
     /\ UNCHANGED <<specVars, productVars, libraryVars, fileVars, part>>
  \/ part = "scoring" /\ ScoringPart(w1) /\ UNCHANGED <<specVars, productVars, libraryVars, fileVars, part>>
  \/ part = "products" /\ ProductsPart /\ UNCHANGED <<specVars, scriptVars, libraryVars, fileVars, part>>
  \/ /\ (part = "documents" /\ DocumentsPart) \/ (part = "servers" /\ ServersPart)
     /\ UNCHANGED <<specVars, scriptVars, productVars, fileVars, part>>
  \/ part = "files" /\ FileNext /\ UNCHANGED <<specVars, scriptVars, productVars, libraryVars, part>>
=============================================================================

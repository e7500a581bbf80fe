------------------------------ MODULE MCBackOffice ------------------------------
(***************************************************************************)
(* Law firms, their payments, the holiday calendar and the audit trail on  *)
(* small instances. part says which questions a behaviour asks: they share *)
(* the constants, not the state space.                                     *)
(***************************************************************************)
EXTENDS Billing, AuditTrail, TLC

CONSTANTS t1, r1, FirstYear

VARIABLE part
boVars == <<tenantVars, billingVars, cache, auditVars, part>>

Monthly == [plan |-> "mensal", priced |-> TRUE, day |-> 2, start |-> 0, shown |-> TRUE]
Forms ==
  {[Monthly EXCEPT !.plan = "annual"], [Monthly EXCEPT !.day = 31]}

\* A firm billed since day 0, as created and then edited.
Billed(d) == [NewTenant(d) EXCEPT !.billing = Monthly]

Years1583To2582 == 1583 .. 2582
Years2020To2032 == 2020 .. 2032

\* r1 is told apart by MCInit alone.
Symmetry ==
  Permutations(PayRequest) \cup Permutations(TenantRequest \ {r1}) \cup Permutations(Document)

Retired(requests) == [r \in requests |-> Done]

MCInit ==
  /\ blockHistory = [t \in Tenant |-> <<>>]
  /\ trail = {} /\ tenantClobbered = {}
  /\ today = 0 /\ payment = [p \in PaymentId |-> NoPayment]
  /\ cron = Off /\ cronRan = FALSE /\ payClobbered = {}
  /\ CalendarInit /\ AuditInit
  /\ \/ /\ part = "tenants"
        /\ tenant = [t \in Tenant |-> NoTenant]
        /\ tenantReq = [r \in TenantRequest |-> Idle]
        /\ payReq = Retired(PayRequest)
     \/ /\ part = "payments"
        /\ \E d \in Document : tenant = [t \in Tenant |-> IF t = t1 THEN Billed(d) ELSE NoTenant]
        /\ tenantReq = [r \in TenantRequest |-> IF r = r1 THEN Idle ELSE Done]
        /\ payReq = [r \in PayRequest |-> Idle]
     \/ /\ part \in {"calendar", "trail"}
        /\ tenant = [t \in Tenant |-> NoTenant]
        /\ tenantReq = Retired(TenantRequest)
        /\ payReq = Retired(PayRequest)

\* Year after year, which leaves the orders out that differ by nothing.
AsksInOrder == \E y \in DateYears : (y = FirstYear \/ y - 1 \in DOMAIN cache) /\ holidaysForYear(y)

\* What follows the save is of the tenants' part.
FirmChanges ==
  UpdateTenant(r1, t1) \/ DeactivateTenant(r1, t1) \/ BlockTenant(r1, t1) \/ SaveTenant(r1)

MCNext ==
  \/ /\ (part = "tenants" /\ TenantNext) \/ (part = "payments" /\ FirmChanges)
     /\ UNCHANGED <<billingVars, cache, auditVars, part>>
  \/ /\ part = "payments"
     /\ BillingNext
     /\ UNCHANGED <<tenantVars, cache, auditVars, part>>
  \/ /\ part = "calendar"
     /\ AsksInOrder
     /\ UNCHANGED <<tenantVars, billingVars, auditVars, part>>
  \* An entry given up, or a race, is where the question ends.
  \/ /\ part = "trail" /\ unlogged = {} /\ raced = {} /\ AuditNext
     /\ UNCHANGED <<tenantVars, billingVars, cache, part>>
=============================================================================

-------------------------------- MODULE Billing --------------------------------
(***************************************************************************)
(* Payments of the law firms (src/internal/pagamentos): the daily          *)
(* scheduler that generates recurring payments and marks late ones, and    *)
(* the administrators who register, settle and cancel payments meanwhile.  *)
(*                                                                         *)
(* Days are numbered; a month has MonthLength of them and a year           *)
(* YearLength months.  Administrators and the scheduler change a copy of   *)
(* a row and save the copy whole.                                          *)
(***************************************************************************)
EXTENDS Tenants, HolidayCalendar

CONSTANTS
  LastDay,       \* bound on the clock: later days look like this one
  MonthLength, YearLength,
  ClosedDay,     \* days that are not business days
  Grace,         \* business days of tolerance
  Avulso,        \* IDs of payments registered by hand
  PayRequest,    \* requests of the admin panel
  CronFaults     \* may a database call of the scheduler fail?

MonthOf(day) == day \div MonthLength
FirstDay(month) == month * MonthLength
Month == 0 .. MonthOf(LastDay)
OpenDay == Int \ ClosedDay

ASSUME BillingAssumption ==
  /\ LastDay \in Nat /\ MonthLength \in Nat \ {0} /\ YearLength \in Nat \ {0}
  /\ Grace \in Nat
  /\ Avulso \cap (Tenant \X Month) = {}

\* A recurring payment is named by what makes it unique.
PaymentId == (Tenant \X Month) \cup Avulso
NoPayment == [status |-> "none"]

VARIABLES
  today,
  payment,       \* rows of payments
  cron,          \* the scheduler's run
  cronRan,       \* has the scheduler started today?
  payReq,        \* requests in flight
  payClobbered   \* history: payments saved from a stale copy

billingVars == <<today, payment, cron, cronRan, payReq, payClobbered>>

Off == [phase |-> "off"]
PaymentRow ==
  [owner : Tenant, status : {"pendente", "atrasado", "pago", "cancelado"}, due : Int,
   paidOn : Int, cancelledOn : Int]

BillingTypeOK ==
  /\ today \in 0 .. LastDay
  /\ payment \in [PaymentId -> PaymentRow \cup {NoPayment}]
  /\ \/ cron = Off
     \/ cron.phase = "refresh" /\ \A p \in DOMAIN cron.rows : cron.rows[p] \in PaymentRow
     \/ cron.phase \in {"generate", "list"} /\ \A t \in DOMAIN cron.config : CompleteConfig(cron.config[t])
  /\ cronRan \in BOOLEAN
  /\ \A r \in PayRequest : payReq[r] \in {Idle, Done} \/ payReq[r].copy \in PaymentRow
  /\ payClobbered \subseteq PaymentId

BillingInit ==
  /\ today = 0
  /\ payment = [p \in PaymentId |-> NoPayment]
  /\ cron = Off
  /\ cronRan = FALSE
  /\ payReq = [r \in PayRequest |-> Idle]
  /\ payClobbered = {}

-----------------------------------------------------------------------------
(* The entity.                                                             *)

\* NewAvulsoPayment and NewRecorrentePayment.
NewPayment(t, due) ==
  [owner |-> t, status |-> "pendente", due |-> due, paidOn |-> NoDate, cancelledOn |-> NoDate]

\* MarkAsPaid and Cancel: the row they make, none on an invalid transition.
MarkAsPaid(p) ==
  IF p.status \in {"pendente", "atrasado"} THEN {[p EXCEPT !.status = "pago", !.paidOn = today]} ELSE {}

\* Mutant: a paid payment may be cancelled.
CancelAny(p) == {[p EXCEPT !.status = "cancelado", !.cancelledOn = today]}
Cancel(p) ==
  IF p.status \notin {"pago", "cancelado"}
  THEN {[p EXCEPT !.status = "cancelado", !.cancelledOn = today]} ELSE {}

\* Update of the repository, from a copy of the row that was once seen.
SavePaymentRow(id, seen, copy) ==
  /\ payment' = [payment EXCEPT ![id] = copy]
  /\ payClobbered' = IF payment[id] = seen THEN payClobbered ELSE payClobbered \cup {id}

-----------------------------------------------------------------------------
(* Administrators.                                                         *)

\* AdminCreateAvulso and RegisterManualPayment.
RegisterManualPayment(r, t, a, due) ==
  /\ payReq[r] = Idle
  /\ tenant[t] # NoTenant
  /\ payment[a] = NoPayment
  /\ payment' = [payment EXCEPT ![a] = NewPayment(t, due)]
  /\ payReq' = [payReq EXCEPT ![r] = Done]
  /\ UNCHANGED <<today, cron, cronRan, payClobbered>>

\* AdminMarkAsPaid and AdminCancel: the row is found and changed in memory.
AdminChange(r, id, change(_)) ==
  /\ payReq[r] = Idle
  /\ payment[id] # NoPayment
  /\ \/ \E c \in change(payment[id]) :
          payReq' = [payReq EXCEPT ![r] = [phase |-> "found", id |-> id, seen |-> payment[id], copy |-> c]]
     \/ /\ change(payment[id]) = {}
        /\ payReq' = [payReq EXCEPT ![r] = Done]
  /\ UNCHANGED <<today, payment, cron, cronRan, payClobbered>>

AdminMarkAsPaid(r, id) == AdminChange(r, id, MarkAsPaid)
AdminCancel(r, id) == AdminChange(r, id, Cancel)

AdminSave(r) ==
  /\ payReq[r].phase = "found"
  /\ SavePaymentRow(payReq[r].id, payReq[r].seen, payReq[r].copy)
  /\ payReq' = [payReq EXCEPT ![r] = Done]
  /\ UNCHANGED <<today, cron, cronRan>>

-----------------------------------------------------------------------------
(* The scheduler.                                                          *)

\* ListActiveBillable: active firms on a recurring plan that is complete.
ListActiveBillable ==
  {t \in Tenant : /\ tenant[t] # NoTenant
                  /\ tenant[t].status = "active"
                  /\ Recurring(tenant[t].billing)
                  /\ ValidConfig(tenant[t].billing)}

\* computeCompetencias: a month, or a year, apart from the month of the start.
\* Mutant: the months the scheduler was down for are forgotten.
ThisMonth(c) == {MonthOf(today)}
computeCompetencias(c) ==
  {m \in MonthOf(c.start) .. MonthOf(today) :
     c.plan = "annual" => (m - MonthOf(c.start)) % YearLength = 0}

DueDate(month, day) == NextOpen(OpenDay, FirstDay(month) + day - 1)

\* runOnce: one run a day; the firms are listed at its beginning.
CronStart ==
  /\ cron = Off /\ ~cronRan
  /\ cron' = [phase |-> "generate", at |-> NoTenant,
              config |-> [t \in ListActiveBillable |-> tenant[t].billing],
              todo |-> [t \in ListActiveBillable |->
                IF tenant[t].billing.start <= today THEN computeCompetencias(tenant[t].billing) ELSE {}]]
  /\ cronRan' = TRUE
  /\ UNCHANGED <<today, payment, payReq, payClobbered>>

\* ExistsRecorrente.
ExistsRecorrente(t, m) == payment[<<t, m>>] # NoPayment

\* The first month left of the firm at work, or of another one.
NextJob(t, m) ==
  /\ t \in DOMAIN cron.todo /\ m \in cron.todo[t]
  /\ \A n \in cron.todo[t] : m <= n
  /\ cron.at \in Tenant \ {t} => cron.todo[cron.at] = {}

\* One month of one firm: created unless it exists.
GenerateCompetencia(t, m) ==
  /\ cron.phase = "generate"
  /\ NextJob(t, m)
  /\ IF ExistsRecorrente(t, m)
     THEN UNCHANGED payment
     ELSE payment' = [payment EXCEPT ![<<t, m>>] = NewPayment(t, DueDate(m, cron.config[t].day))]
  /\ cron' = [cron EXCEPT !.at = t, !.todo[t] = @ \ {m}]
  /\ UNCHANGED <<today, cronRan, payReq, payClobbered>>

GenerateDone ==
  /\ cron.phase = "generate"
  /\ \A t \in DOMAIN cron.todo : cron.todo[t] = {}
  /\ cron' = [phase |-> "list", config |-> cron.config]
  /\ UNCHANGED <<today, payment, cronRan, payReq, payClobbered>>

\* ListOverdueCandidates: copies of the pending rows that are past their date.
ListOverdueCandidates ==
  /\ cron.phase = "list"
  /\ cron' = [phase |-> "refresh", rows |->
       [p \in {q \in PaymentId : /\ payment[q] # NoPayment
                                 /\ payment[q].status = "pendente"
                                 /\ payment[q].due < today} |-> payment[p]]]
  /\ UNCHANGED <<today, payment, cronRan, payReq, payClobbered>>

PastDeadline(row) == today > AddOpen(OpenDay, row.due, Grace)

\* The row is marked late, from the copy, once the tolerance is over.
RefreshOverdue(p) ==
  /\ cron.phase = "refresh"
  /\ p \in DOMAIN cron.rows
  /\ IF PastDeadline(cron.rows[p])
     THEN SavePaymentRow(p, cron.rows[p], [cron.rows[p] EXCEPT !.status = "atrasado"])
     ELSE UNCHANGED <<payment, payClobbered>>
  /\ cron' = [cron EXCEPT !.rows = [q \in DOMAIN cron.rows \ {p} |-> cron.rows[q]]]
  /\ UNCHANGED <<today, cronRan, payReq>>

RefreshDone ==
  /\ cron.phase = "refresh" /\ DOMAIN cron.rows = {}
  /\ cron' = Off
  /\ UNCHANGED <<today, payment, cronRan, payReq, payClobbered>>

\* An error or the timeout of the run ends it, and so does a crash.
CronFails ==
  /\ CronFaults
  /\ cron # Off
  /\ cron' = Off
  /\ UNCHANGED <<today, payment, cronRan, payReq, payClobbered>>

\* The run of a day ends before the next one: it has a timeout of ten minutes.
NextDay ==
  /\ cron = Off
  /\ today < LastDay \/ cronRan
  /\ today' = IF today < LastDay THEN today + 1 ELSE today
  /\ cronRan' = FALSE
  /\ UNCHANGED <<payment, cron, payReq, payClobbered>>

Generate == \E t \in Tenant, m \in Month : GenerateCompetencia(t, m)
Refresh == \E p \in PaymentId : RefreshOverdue(p)
Scheduler == CronStart \/ Generate \/ GenerateDone \/ ListOverdueCandidates \/ Refresh \/ RefreshDone

BillingNext ==
  \/ \E r \in PayRequest :
       \/ \E t \in Tenant, a \in Avulso, due \in 0 .. LastDay : RegisterManualPayment(r, t, a, due)
       \/ \E id \in PaymentId : AdminMarkAsPaid(r, id)
       \/ \E id \in PaymentId : AdminCancel(r, id)
       \/ AdminSave(r)
  \/ Scheduler
  \/ CronFails
  \/ NextDay

\* The firms and their payments: administrators and the scheduler of both.
BackOfficeNext ==
  \/ TenantNext /\ UNCHANGED billingVars
  \/ BillingNext /\ UNCHANGED tenantVars

BackOfficeSpec == TenantInit /\ BillingInit /\ [][BackOfficeNext]_<<tenantVars, billingVars>>

-----------------------------------------------------------------------------
(* What the summary page shows of a firm.                                  *)

Owned(t, status) ==
  {p \in PaymentId : payment[p] # NoPayment /\ payment[p].owner = t /\ payment[p].status = status}

\* GetByID: an invalid configuration reads as externo.
BillingConfigOf(t) ==
  IF ValidConfig(tenant[t].billing) THEN tenant[t].billing ELSE [tenant[t].billing EXCEPT !.plan = "externo"]

\* GetTenantFinancialSummary.
Badge(t) ==
  IF ~Recurring(BillingConfigOf(t)) /\ Owned(t, "pendente") \cup Owned(t, "atrasado") = {} THEN "sem_cobranca"
  ELSE IF Owned(t, "atrasado") # {} THEN "atrasado"
  ELSE IF Owned(t, "pendente") # {} THEN "pendente" ELSE "em_dia"

-----------------------------------------------------------------------------
\* The dates of a row agree with its status, however stale the copy that was
\* saved last: a save never mixes two versions of a row.
DatesMatchStatus ==
  \A p \in PaymentId : payment[p] # NoPayment =>
    /\ payment[p].status = "pago" <=> payment[p].paidOn # NoDate
    /\ payment[p].status = "cancelado" <=> payment[p].cancelledOn # NoDate

\* Nobody is shown as late before the tolerance, counted in business days
\* from the due date, is over.
LateAfterGrace ==
  \A p \in PaymentId : payment[p] # NoPayment /\ payment[p].status = "atrasado" =>
    Cardinality({d \in payment[p].due + 1 .. today - 1 : d \in OpenDay}) >= Grace

\* A recurring payment is due on a business day of its month or just after
\* it, never on a holiday and never before the day agreed.
DueOnOpenDay ==
  \A t \in Tenant, m \in Month : payment[<<t, m>>] # NoPayment =>
    payment[<<t, m>>].due \notin ClosedDay /\ payment[<<t, m>>].due >= FirstDay(m)

\* A run that reaches its second half leaves no gap: each firm it listed is
\* billed for every month since its start, or every twelfth one on a yearly
\* plan, months the scheduler was down for or the firm was blocked included.
CaughtUp ==
  cron.phase = "list" =>
    \A t \in DOMAIN cron.config, m \in Month :
      LET c == cron.config[t] IN
      /\ c.start <= today /\ MonthOf(c.start) <= m /\ FirstDay(m) <= today
      /\ c.plan = "mensal" \/ \E k \in 0 .. Cardinality(Month) : m = MonthOf(c.start) + k * YearLength
      => payment[<<t, m>>] # NoPayment

\* What was cancelled is not billed again: a cancelled or paid payment changes
\* only when a copy that was read before is saved over it.
SettledIsFinal ==
  [][\A p \in PaymentId :
       payment[p].status \in {"pago", "cancelado"} /\ payment'[p] # payment[p]
       => p \in payClobbered']_billingVars

\* A debtor is never shown as up to date or as not charged, on whatever plan.
BadgeShowsDebt ==
  \A t \in Tenant : tenant[t] # NoTenant /\ Badge(t) \in {"em_dia", "sem_cobranca"} =>
    Owned(t, "pendente") = {} /\ Owned(t, "atrasado") = {}

\* What payments keep while the scheduler, its failures and administrators
\* overlap.
PaymentsAreSound ==
  BillingTypeOK /\ DatesMatchStatus /\ LateAfterGrace /\ DueOnOpenDay /\ CaughtUp /\ BadgeShowsDebt

\* What is final stays final, but for a save from a stale copy: a deactivated
\* firm, and a payment that was paid or cancelled.
FinalStays == InactiveIsFinal /\ SettledIsFinal
=============================================================================

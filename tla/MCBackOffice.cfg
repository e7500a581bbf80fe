CONSTANTS
  t1 = t1
  r1 = r1
  Tenant = {t1, t2}
  NoTenant = NoTenant
  Document = {d1, d2}
  BillingForm <- Forms
  TenantRequest = {r1, r2, r3}
  TenantFaults = {"db", "audit"}
  LastDay = 4
  MonthLength = 2
  YearLength = 2
  ClosedDay = {1, 4}
  Grace = 1
  Avulso = {a1}
  PayRequest = {q1, q2}
  CronFaults = TRUE
  FirstYear = 2020
  EasterYears <- Years1583To2582
  DateYears <- Years2020To2032
  Tolerances = {0, 1, 2, 3}
  Absent = Absent
  Administrator = {ad1}
  Lawfirm = {fm1}
  Title = {n1, n2}
  Editor = {ed1, ed2}
  AuditFaults = {"audit"}
  MaxEntries = 4
INIT MCInit
NEXT MCNext
INVARIANTS TenantsAreSound PaymentsAreSound CalendarIsRight TrailTellsState
PROPERTIES FinalStays
SYMMETRY Symmetry
CHECK_DEADLOCK FALSE

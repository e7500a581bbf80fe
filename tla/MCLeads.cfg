CONSTANTS
  f1 = f1
  f2 = f2
  l1 = l1
  k1 = k1
  r1 = r1
  r2 = r2
  a1 = a1
  a2 = a2
  a3 = a3
  Funnel = {f1, f2}
  Lead = {l1, l2}
  Contact = {k1, k2}
  User = {u1}
  Product = {p1}
  ColumnId = {1, 2, 3, 4, 5, 6, 7, 8, 9, 10}
  MaxColumns = 5
  NewTypes = {"intermediate"}
  BoardRequest = {r1, r2, r3, tick}
  BoardFaults = {"db"}
  NoRow = NoRow
  None = None
  TickSlot = tick
  Automation = {a1, a2, a3}
  AutoForm <- Forms
  MaxRest = 4
SPECIFICATION MCSpec
INVARIANTS BoardIsSound LeadsTellTheirWay
PROPERTIES RunsEnd
CHECK_DEADLOCK FALSE

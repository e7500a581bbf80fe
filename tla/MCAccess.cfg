CONSTANTS
  adm = adm
  own = own
  u1 = u1
  u2 = u2
  o1 = o1
  o2 = o2
  g1 = g1
  g2 = g2
  p1 = p1
  c1 = c1
  c2 = c2
  q1 = q1
  s1 = s1
  Account = {adm, own, u1, u2}
  Admins = {adm}
  Office = {o1, o2}
  Owner <- Owners
  Invite = {i1}
  MemberRequest = {m1, m2}
  MemberFaults = {"db"}
  NoRow = NoRow
  None = None
  Group = {g1, g2}
  Firm = o1
  Pair = {p1}
  PermissionForm <- SetForms
  Column = {c1, c2}
  GroupRequest = {s1, s2}
  UserOrder <- InOrder
  BalanceForm = {"round_robin", "random", "none"}
  BalRequest = {q1, q2, q3}
  MaxLeads = 3
INIT MCInit
NEXT MCNext
INVARIANTS AccountsAreSound RightsAreSound BalanceIsSound
SYMMETRY Symmetry
CHECK_DEADLOCK FALSE

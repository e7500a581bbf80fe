CONSTANTS
  d1 = d1
  d2 = d2
  d3 = d3
  first = first
  second = second
  NoConv = NoConv
  g1 = g1
  e1 = e1
  e2 = e2
  e3 = e3
  u1 = u1
  u2 = u2
  Nobody = Nobody
  o1 = o1
  o2 = o2
  h1 = h1
  h2 = h2
  s1 = s1
  s2 = s2
  Notifier = Notifier
  WaMessage = {first, second}
  Delivery = {d1, d2, d3}
  MessageOf <- Carries
  Conv = {1, 2}
  Writer = {w1}
  Noter = {n1}
  Overlap = FALSE
  Faults = {}
  Firm = {g1}
  Client = {e1, e2, e3}
  Attempt = {b1, b2, b3}
  WaRequest = {u1, u2}
  ClientFirm <- ClientsOfG1
  WaFaults = {"store", "net", "logout"}
  MaxClicks = 1
  MaxTroubles = 1
  Office = {o1, o2}
  Reader = {h1, h2}
  Stream = {s1, s2}
  LeadPublisher = {lp1}
  NoticeId = {1, 2}
  BufferSize = 1
  NoticeFaults = {"db"}
  RowTotals = {0, 1, 2, 3, 4, 5, 6, 7}
  DefaultSize = 3
  MaxSize = 4
  MaxAdded = 2
  Opening <- FirstPages
SPECIFICATION MCSpec
INVARIANTS OneClientPerFirm StreamsAreTrue PagesCoverTheList
PROPERTIES MessagesArrive PageSettles PublishersReturn
CHECK_DEADLOCK FALSE

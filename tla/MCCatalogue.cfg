CONSTANTS
  sp1 = sp1
  sp2 = sp2
  sp3 = sp3
  w1 = w1
  t1 = t1
  t2 = t2
  gr1 = gr1
  gr2 = gr2
  z1 = z1
  z2 = z2
  z3 = z3
  k1 = k1
  k2 = k2
  k3 = k3
  Specialist = {sp1, sp2, sp3}
  Tenant = {t1, t2}
  Guardrail = {gr1, gr2}
  Tool = {tool1}
  SpecRequest = {r1, r2}
  SpecFaults = {"db"}
  NoRow = NoRow
  None = None
  Owning = sp1
  Step = {z1, z2, z3}
  Rule = {k1, k2, k3}
  StepScore = {2}
  Threshold = {1, 3}
  ScriptRequest = {w1, w2}
  ScriptFaults = {"db"}
  p1 = p1
  p2 = p2
  f1 = f1
  f2 = f2
  q1 = q1
  q2 = q2
  x1 = x1
  x2 = x2
  Product = {p1, p2}
  Funnel = {f1, f2}
  FunnelOwner <- MCFunnelOwner
  Field = {x1, x2}
  Priority = {1, 2}
  MaxCreated = 2
  ProductRequest = {q1, q2}
  l1 = l1
  l2 = l2
  d1 = d1
  d2 = d2
  m1 = m1
  v1 = v1
  v2 = v2
  Document = {d1, d2}
  Server = {m1}
  LibraryRequest = {l1, l2}
  OfferLimit = 2
  MaxAssociationBatchSize = 1
  LibraryFaults = {"db", "crash"}
  File = {v1, v2}
  Chat = {chat1, chat2}
  ChatLead = {lead1, lead2}
  FileRequest = {w1, w2}
  FileFaults = {"db", "disk", "crash"}
  NoLead = NoLead
INIT MCInit
NEXT MCNext
INVARIANTS SoleIsDefault ScriptInOrder MatchedAsOffered NothingHalfStored
SYMMETRY Symmetry
CHECK_DEADLOCK FALSE

CONSTANTS
  d1 = d1
  d2 = d2
  d3 = d3
  first = first
  second = second
  NoConv = NoConv
  WaMessage = {first, second}
  Delivery = {d1, d2, d3}
  MessageOf <- Carries
  Conv = {1, 2}
  Writer = {w1}
  Noter = {n1}
  Overlap = TRUE
  Faults = {"db", "lead", "crash"}
SPECIFICATION Spec
INVARIANTS TriggeredOnce UnreadBounded
CHECK_DEADLOCK FALSE

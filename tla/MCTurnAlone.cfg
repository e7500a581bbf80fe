CONSTANTS
  a = a
  b = b
  entry = entry
  hot = hot
  manual = hot
  lost = hot
  NoTurn = NoTurn
  NoRow = NoRow
  NoColumn = NoColumn
  Turn = {t1, t2}
  Specialist = {a, b}
  Column = {entry, hot}
  EntryColumn = entry
  Steps <- TwoSteps
  Scoring <- GreyZone
  Unscored = {b}
  Request = {}
  Removable = {b}
  LlmScores = {0}
  Tools = {"switch_specialist"}
  RequestKinds = {}
  ResetCommandEnabled = TRUE
  Faults = {"db", "llm", "crash"}
  OtherTurn = {t3}
  Key = {c1, c2}
  Conversation = c1
  Object = {x1, x2, x3}
  NoObject = NoObject
SPECIFICATION MCSpec
INVARIANTS OneTurnAtATime LeadOneStepAhead
PROPERTIES NoRewind ImplementsSerialConversation
SYMMETRY Symmetry

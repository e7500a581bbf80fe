CONSTANTS
  a = a
  b = b
  entry = entry
  hot = hot
  manual = manual
  lost = lost
  NoTurn = NoTurn
  NoRow = NoRow
  NoColumn = NoColumn
  Turn = {t1, t2}
  Specialist = {a, b}
  Column = {entry, hot, manual, lost}
  EntryColumn = entry
  Steps <- TwoSteps
  Scoring <- GreyZone
  Unscored = {}
  Request = {q1}
  Removable = {}
  LlmScores = {}
  Tools = {}
  RequestKinds = {"activate", "deactivate"}
  ResetCommandEnabled = FALSE
  Faults = {}
SPECIFICATION Spec
INVARIANTS HandoffHolds

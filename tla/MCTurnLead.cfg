CONSTANTS
  a = a
  b = b
  entry = entry
  hot = hot
  manual = manual
  lost = lost
  NoTurn = NoTurn
  NoRow = NoRow
  NoColumn = NoColumn
  Turn = {t1, t2}
  Specialist = {a, b}
  Column = {entry, hot, manual, lost}
  EntryColumn = entry
  Steps <- TwoSteps
  Scoring <- GreyZone
  Unscored = {}
  Request = {}
  Removable = {b}
  LlmScores = {0}
  Tools = {"move_lead", "switch_specialist"}
  RequestKinds = {}
  ResetCommandEnabled = TRUE
  Faults = {"llm"}
SPECIFICATION FairSpec
INVARIANTS LeadInStep
PROPERTIES TurnsReturn

CONSTANTS
  a = a
  b = b
  entry = entry
  hot = hot
  manual = hot
  lost = hot
  NoTurn = NoTurn
  NoRow = NoRow
  NoColumn = NoColumn
  Turn = {t1, t2}
  Specialist = {a}
  Column = {entry, hot}
  EntryColumn = entry
  Steps <- TwoSteps
  Scoring <- GreyZone
  Unscored = {}
  Request = {q1}
  Removable = {}
  LlmScores = {0}
  Tools = {"update_score"}
  RequestKinds = {"activate", "deactivate", "reset"}
  ResetCommandEnabled = TRUE
  Faults = {"db", "lead", "crash"}
SPECIFICATION Spec
INVARIANTS AnswersMatchStep HumanIsNotInterrupted
SYMMETRY Turns

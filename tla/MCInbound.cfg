CONSTANTS
  m1 = m1
  m2 = m2
  m3 = m3
  other = other
  c1 = c1
  c2 = c2
  NoMessage = NoMessage
  Message = {m1, m2, m3, other}
  Conversation = {c1, c2}
  ConvOf <- Conv
  Unroutable = {m3}
  MayCrash = TRUE
  x1 = x1
  x2 = x2
  ToolCalls <- SomeCalls
  MaxCalls = 2
  MaxIterations = 2
  ToolSets <- SomeToolSets
  StepLists <- SomeSteps
  CollectedData <- Answers
  CurrentStepIndex = 1
  LeadId = {x1, x2}
  Home = {x1}
  LeadColumn = {"new", "won"}
  PipelineColumns <- SomeColumns
  ProviderNames = {"openai", "other"}
  NoConfig = "none"
  Window = 2
  MaxTexts = 3
  MaxClock = 4
  ToolFaults = {"db", "ai"}
SPECIFICATION MCSpec
INVARIANTS OnePlace RequestIsSound ToolsTellTruth
PROPERTIES AllSettled LoopEnds
CHECK_DEADLOCK FALSE

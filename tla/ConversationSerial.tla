-------------------------- MODULE ConversationSerial --------------------------
(***************************************************************************)
(* Turns that are alone on the row (no HTTP request writes it) implement   *)
(* the serial conversation, tools and automatic handoffs included: what    *)
(* they save beside the turn never touches the progress.                   *)
(***************************************************************************)
EXTENDS ConversationTurn

StepScores == UNION {{Steps[s][i].score : i \in 1 .. Len(Steps[s])} : s \in Specialist}

\* What a completed step may be worth.
Worth == LlmScores \cup StepScores

Serial == INSTANCE SerialConversation
  WITH Points <- Worth,
       step <- IF row = NoRow THEN 0 ELSE row.step,
       score <- IF row = NoRow THEN 0 ELSE row.score

\* Steps are completed one on top of the other and score once, whatever turns
\* overlap, fail or die half way (conversation_engine.go:96-99).
ImplementsSerialConversation == Serial!Spec

-----------------------------------------------------------------------------
(* What a turn that is alone on the row knows of it: its copies have the      *)
(* row's progress, or one step more once the model has answered.              *)

SameProgress(r, q) == r.step = q.step /\ r.score = q.score
OneStepOn(r, q) == r.step = q.step + 1 /\ \E n \in Worth : r.score = q.score + n

Before == {"heal", "llm", "toolSave"}
After == {"score", "route", "handoffFind", "handoffSave", "move", "save"}

Fresh(t) ==
  /\ pc[t] \in Before => SameProgress(state[t], row)
  /\ pc[t] \in After => SameProgress(state[t], row) \/ OneStepOn(state[t], row)
  /\ pc[t] \in {"toolSave", "handoffSave"} => SameProgress(side[t], row)
  /\ pc[t] = "resetSave" => state[t].step = 0 /\ state[t].score = 0

CopiesFresh == \A t \in Turn : Fresh(t)

\* What the serial conversation sees of the row.
SerialStep == IF row = NoRow THEN 0 ELSE row.step
SerialScore == IF row = NoRow THEN 0 ELSE row.score

-----------------------------------------------------------------------------
(* The lead's score and the row's are written apart. *)

\* Where a statement fails or the process dies between the two writes, the lead
\* is ahead of the row by one step and never by more: the next turn completes
\* the step again and gives the lead the sum of the row it found, so that no
\* step counts twice (conversation_engine.go:418, 525-531).  A conversation at
\* its first step may still have the lead of before an unfinished reset.
LeadOneStepAhead ==
  (row # NoRow /\ row.step > 0) => \E n \in {0} \cup Worth : lead.score = row.score + n

\* Why: a step that was scored and not yet saved is what the lead was given, and
\* the lead is reset after the row.
Committed == {"route", "handoffFind", "handoffSave", "move", "save"}
LeadAhead ==
  /\ LeadOneStepAhead
  /\ \A t \in Turn : pc[t] \in Committed => state[t].step = row.step \/ lead.score = state[t].score
  /\ \A t \in Turn : pc[t] = "resetLead" => SerialStep = 0

\* Nobody else writes the row or scores the lead, and no update of it is lost.
ScoresAreTold ==
  /\ Request = {}
  /\ "lead" \notin Faults
  /\ "update_score" \notin Tools

-----------------------------------------------------------------------------
(* Where only the model and the send fail, the two are equal between turns. *)

\* The lead's score runs ahead of the row's from the commit to the save, and
\* behind it while a reset is under way; otherwise it is the row's.
LeadFollows ==
  /\ \A t \in Turn : pc[t] \in Committed => lead.score = state[t].score
  /\ \A t \in Turn : pc[t] = "resetLead" => SerialScore = 0
  /\ (\A t \in Turn : pc[t] \notin Committed \cup {"resetLead"}) => lead.score = SerialScore

\* Besides, no statement fails and the process does not die.
LeadIsTold == ScoresAreTold /\ Faults \cap {"db", "crash"} = {}
=============================================================================

-------------------------------- MODULE ToolLoop --------------------------------
(***************************************************************************)
(* One turn of the AI engine from the request it builds                    *)
(* (application/context_builder.go, tool_resolver.go) through the loop of  *)
(* tool calls (conversation_engine.go executeToolLoop) to an answer or the *)
(* fallback message, with the ten tools (infrastructure/tools), the        *)
(* adapters they call and what the OpenAI provider sends and parses.       *)
(*                                                                         *)
(* The turn reads configuration, history and leads in separate statements  *)
(* while administrators, the panel and the client change them; what        *)
(* follows the answer is ConversationTurn's. Fixed text of the prompt, the *)
(* contents of documents and the wording of results are left out. The      *)
(* model is external: it may call anything, with any arguments.            *)
(***************************************************************************)
EXTENDS Integers, Sequences, FiniteSets, FiniteSetsExt, SequencesExt

CONSTANTS
  ToolCalls,    \* calls the model may make: [tool, lead, column, complete]
  MaxCalls,     \* bound: calls of one response
  MaxIterations,\* toolLoopMaxIter
  ToolSets, StepLists, \* what administrators may configure
  CollectedData,\* answers the conversation holds: step number -> text
  CurrentStepIndex, \* the step its row is at, from 0
  LeadId, Home, \* leads, and those of the turn's firm
  LeadColumn, PipelineColumns, \* columns, and those of the firm's funnel in order
  ProviderNames, NoConfig, \* what the AI's configuration may name, and none
  Window,       \* messages of the prompt (20 in the code)
  MaxTexts,     \* bound: messages
  MaxClock,     \* bound: half seconds
  ToolFaults    \* {"db", "ai"}

VARIABLES
  toolRows,     \* specialist_tools of the specialist
  aiRow,        \* provider of its ai_configs row
  steps,        \* its steps: [forced, restricted]
  texts,        \* stored messages: [stamp, id, filled, at]
  clock, resumedAt, \* ResumedAt of the conversation's row, 0 for none
  leadRows,     \* [LeadId -> [column, score, notes]]
  turn,         \* the turn
  recorded      \* history: calls that changed something in the database

toolVars == <<toolRows, aiRow, steps, texts, clock, resumedAt, leadRows, turn, recorded>>

DataQueries == {"search_leads", "get_lead_detail", "get_conversation_history", "list_products", "get_pipeline"}
LeadWrites == {"move_lead", "create_note", "update_score"}
\* Executors of automations that change something, and all the others.
RuleRuns == {"ruleNote", "ruleMove", "ruleStub"}
\* What NewModule registers.
Registered == DataQueries \cup LeadWrites \cup {"trigger_automation", "switch_specialist"}
\* The providers NewModule registers, and the one of the environment.
Providers == {"openai", "fake"}
DefaultProvider == "openai"
NoId == <<>>

ASSUME ToolAssumption ==
  /\ MaxCalls \in Nat /\ MaxIterations \in Nat /\ Window \in Nat \ {0}
  /\ Home \subseteq LeadId /\ LeadColumn # {} /\ MaxTexts \in Nat /\ MaxClock \in Nat \ {0}
  /\ ToolCalls \subseteq [tool : STRING, lead : LeadId, column : LeadColumn, complete : BOOLEAN]
  /\ DOMAIN CollectedData \subseteq Nat /\ IsFiniteSet(DOMAIN CollectedData) /\ CurrentStepIndex \in Nat

NewTurn ==
  [phase |-> "idle", provider |-> NoConfig, resumedAt |-> 0, lines |-> <<>>, step |-> <<>>, messages |-> <<>>,
   tools |-> {}, round |-> 0, calls |-> <<>>, results |-> <<>>, read |-> <<>>]

ToolTypeOK ==
  /\ toolRows \in ToolSets /\ steps \in StepLists /\ aiRow \in ProviderNames \cup {NoConfig}
  /\ clock \in 1..MaxClock /\ resumedAt \in 0..MaxClock /\ Len(texts) <= MaxTexts
  /\ DOMAIN leadRows = LeadId
  /\ turn.phase \in {"idle", "prompt", "history", "tools", "provider", "ask", "run", "count", "write",
                     "movement", "answered", "fallback", "failed"} \cup RuleRuns
  /\ turn.round \in 0..MaxIterations /\ Len(turn.results) <= Len(turn.calls)

ToolInit ==
  /\ toolRows \in ToolSets /\ steps \in StepLists /\ aiRow \in ProviderNames \cup {NoConfig}
  /\ texts = <<>> /\ clock = 1 /\ resumedAt = 0
  /\ leadRows = [l \in LeadId |-> [column |-> CHOOSE c \in LeadColumn : TRUE, score |-> 0, notes |-> 0]]
  /\ turn = NewTurn /\ recorded = {}
-----------------------------------------------------------------------------
(* Those who change what the turn reads.                                   *)

config == <<toolRows, aiRow, steps>>
SetTools(names) ==
  toolRows' = names /\ UNCHANGED <<aiRow, steps, texts, clock, resumedAt, leadRows, turn, recorded>>
EditSteps(list) ==
  steps' = list /\ UNCHANGED <<toolRows, aiRow, texts, clock, resumedAt, leadRows, turn, recorded>>

\* The whole row comes from the form, and there is one for a specialist; any
\* provider may be named, registered or not.
HandleSaveAIConfig(name) ==
  aiRow' = name /\ UNCHANGED <<toolRows, steps, texts, clock, resumedAt, leadRows, turn, recorded>>

\* WhatsApp stamps whole seconds; ids are random, so that any order of them
\* is possible. A picture without a caption has no text.
StoreText(id, filled) ==
  /\ Len(texts) < MaxTexts /\ \A i \in DOMAIN texts : texts[i].id # id
  /\ texts' = Append(texts, [stamp |-> (clock \div 2) * 2, id |-> id, filled |-> filled, at |-> clock])
  /\ UNCHANGED <<config, clock, resumedAt, leadRows, turn, recorded>>

\* DeactivateHandoff, from the panel.
Resume == resumedAt' = clock /\ UNCHANGED <<config, texts, clock, leadRows, turn, recorded>>
Passes ==
  /\ clock < MaxClock /\ clock' = clock + 1
  /\ UNCHANGED <<config, texts, resumedAt, leadRows, turn, recorded>>

\* Somebody drags the lead on the board while the turn runs.
DragLead(l, c) ==
  /\ leadRows[l].column # c /\ leadRows' = [leadRows EXCEPT ![l].column = c]
  /\ UNCHANGED <<config, texts, clock, resumedAt, turn, recorded>>
-----------------------------------------------------------------------------
(* The configuration, ContextBuilder.Build and the provider.               *)

\* EnvConfigResolver.Resolve: the specialist's row, or the environment's.
Resolve ==
  /\ turn.phase = "idle"
  /\ \E row \in {aiRow} \cup (IF "db" \in ToolFaults THEN {NoConfig} ELSE {}) :
       turn' = [turn EXCEPT !.phase = "prompt", !.resumedAt = resumedAt,
                            !.provider = IF row = NoConfig THEN DefaultProvider ELSE row]
  /\ UNCHANGED <<config, texts, clock, resumedAt, leadRows, recorded>>

\* The members of S in the order of the pairs of R.
InOrder(S, R) == CHOOSE s \in SetToSeqs(S) : \A i, j \in DOMAIN s : i < j => <<s[i], s[j]>> \in R
Ascending(keys) == InOrder(keys, {p \in keys \X keys : p[1] < p[2]})

\* Every answer with a text: first those whose step exists, in step order.
renderCollectedData(list) ==
  LET filled == {k \in DOMAIN CollectedData : CollectedData[k] # ""}
      known == {k \in filled : k < Len(list)}
  IN Ascending(known) \o Ascending(filled \ known)

\* steps[CurrentStepIndex] as they are read now: steps were perhaps added or
\* deleted since the index was written, and beyond the last there is none.
CurrentStep(list) == IF CurrentStepIndex < Len(list) THEN <<list[CurrentStepIndex + 1]>> ELSE <<>>
\* Without the specialist there is no request, and steps that cannot be read
\* are none. Products, documents and guardrails only lengthen the prompt.
BuildPrompt ==
  /\ turn.phase = "prompt"
  /\ \E list \in {steps} \cup (IF "db" \in ToolFaults THEN {<<>>} ELSE {}) :
       turn' = [turn EXCEPT !.phase = "history",
                            !.lines = renderCollectedData(list), !.step = CurrentStep(list)]
  /\ UNCHANGED <<config, texts, clock, resumedAt, leadRows, recorded>>
SpecialistGone ==
  /\ turn.phase = "prompt" /\ "db" \in ToolFaults
  /\ turn' = [turn EXCEPT !.phase = "failed"]
  /\ UNCHANGED <<config, texts, clock, resumedAt, leadRows, recorded>>

Later(m, n) == m.stamp > n.stamp \/ (m.stamp = n.stamp /\ m.id > n.id)
OldestFirst(found) == InOrder(found, {p \in found \X found : Later(p[2], p[1])})
\* The newest limit messages by (timestamp, id), oldest first.
FindByConversationID(limit) ==
  LET ordered == OldestFirst(Range(texts))
  IN SubSeq(ordered, Len(ordered) - limit + 1, Len(ordered))
Oi == [stamp |-> 0, id |-> 0, filled |-> TRUE, at |-> 0]

IsAfterResume(m) == turn.resumedAt = 0 \/ m.stamp > turn.resumedAt
\* An error is an empty history.
FindHistory ==
  {FindByConversationID(IF Len(texts) < Window THEN Len(texts) ELSE Window)}
  \cup (IF "db" \in ToolFaults THEN {<<>>} ELSE {})
NewAIMessage(m) == m.filled
\* An empty history is a greeting.
ReadHistory ==
  /\ turn.phase = "history"
  /\ \E found \in FindHistory :
       LET kept == OldestFirst({m \in Range(found) : IsAfterResume(m) /\ NewAIMessage(m)})
       IN turn' = [turn EXCEPT !.phase = "tools", !.messages = IF kept = <<>> THEN <<Oi>> ELSE kept]
  /\ UNCHANGED <<config, texts, clock, resumedAt, leadRows, recorded>>

\* Names of tools that are not registered are skipped.
ResolveForSpecialist == toolRows \cap Registered
\* Forced tools restrict to themselves, restricted ones are taken away.
ApplyStepConstraints(tools, current) ==
  IF current = <<>> THEN tools
  ELSE {t \in tools : /\ Head(current).forced # {} => t \in Head(current).forced
                      /\ t \notin Head(current).restricted}
\* ResolveDefinitions; an error is a request without tools.
ResolveDefinitions ==
  /\ turn.phase = "tools"
  /\ \E defs \in {ApplyStepConstraints(ResolveForSpecialist, turn.step)}
                 \cup (IF "db" \in ToolFaults THEN {{}} ELSE {}) :
       turn' = [turn EXCEPT !.phase = "provider", !.tools = defs]
  /\ UNCHANGED <<config, texts, clock, resumedAt, leadRows, recorded>>

\* ProviderRegistry.Get: with a name that is not registered the turn fails
\* without a word to the client.
GetProvider ==
  /\ turn.phase = "provider"
  /\ turn' = [turn EXCEPT !.phase = IF turn.provider \in Providers THEN "ask" ELSE "failed"]
  /\ UNCHANGED <<config, texts, clock, resumedAt, leadRows, recorded>>
-----------------------------------------------------------------------------
(* executeToolLoop. buildToolResultMessages sends the results of the       *)
(* iteration before, each with its call's id.                              *)

\* parseToolCalls: the model's calls with the ids it gave them.
parseToolCalls(calls) ==
  [i \in DOMAIN calls |->
     [tool |-> calls[i].tool, lead |-> calls[i].lead, column |-> calls[i].column, complete |-> calls[i].complete,
      id |-> <<turn.round + 1, i>>]]

\* GenerateResponse, once per iteration: a refusal or a timeout, an answer,
\* or calls.
\* Mutant: iterations are not counted.
GenerateResponseUncounted ==
  /\ turn.phase = "ask"
  /\ \/ turn' = [turn EXCEPT !.phase = "answered"]
     \/ \E calls \in [1..1 -> ToolCalls] :
          turn' = [turn EXCEPT !.phase = "run", !.calls = parseToolCalls(calls), !.results = <<>>]
  /\ UNCHANGED <<config, texts, clock, resumedAt, leadRows, recorded>>
GenerateResponse ==
  /\ turn.phase = "ask" /\ turn.round < MaxIterations
  /\ \/ "ai" \in ToolFaults /\ turn' = [turn EXCEPT !.phase = "fallback"]
     \/ turn' = [turn EXCEPT !.phase = "answered"]
     \/ \E n \in 1..MaxCalls : \E calls \in [1..n -> ToolCalls] :
          turn' = [turn EXCEPT !.phase = "run", !.round = @ + 1, !.calls = parseToolCalls(calls),
                               !.results = <<>>]
  /\ UNCHANGED <<config, texts, clock, resumedAt, leadRows, recorded>>

\* The loop is over: the client gets the fallback message, whatever tools did.
LoopExceeded ==
  /\ turn.phase = "ask" /\ turn.round >= MaxIterations
  /\ turn' = [turn EXCEPT !.phase = "fallback"]
  /\ UNCHANGED <<config, texts, clock, resumedAt, leadRows, recorded>>

Current == turn.calls[Len(turn.results) + 1]
CallWaits == turn.phase = "run" /\ Len(turn.results) < Len(turn.calls)
NewToolResult(id, ok, shown) == [id |-> id, ok |-> ok, shown |-> shown]
\* The result joins results, and the next call is looked at.
Answer(result) == turn' = [turn EXCEPT !.phase = "run", !.results = Append(@, result), !.read = <<>>]
toolSources == <<config, texts, clock, resumedAt>>

\* toolRegistry.Get: any registered tool may be run, also one the request
\* did not offer; another one is answered with the call's id.
ToolNotFound ==
  /\ CallWaits /\ Current.tool \notin Registered
  /\ Answer(NewToolResult(Current.id, FALSE, {}))
  /\ UNCHANGED <<toolSources, leadRows, recorded>>
\* A required argument is missing.
ArgumentMissing ==
  /\ CallWaits /\ Current.tool \in Registered /\ ~Current.complete
  /\ Answer(NewToolResult(NoId, FALSE, {}))
  /\ UNCHANGED <<toolSources, leadRows, recorded>>

Executes(names) == CallWaits /\ Current.tool \in names /\ Current.complete
\* Any Execute may fail in the database or the engine of automations, and
\* returns it as a result.
ExecuteFails ==
  /\ "db" \in ToolFaults /\ Executes(Registered)
  /\ Answer(NewToolResult(NoId, FALSE, {}))
  /\ UNCHANGED <<toolSources, leadRows, recorded>>

Returns(names, leads) ==
  /\ Executes(names) /\ Answer(NewToolResult(NoId, TRUE, leads))
  /\ UNCHANGED <<toolSources, leadRows, recorded>>
FindByTenantAndSearch == Home
SearchLeads == Returns({"search_leads"}, FindByTenantAndSearch)
\* LeadDetailAdapter: a lead of another firm is a lead not found.
FindByID(l) == {l} \cap Home
GetLeadDetail == Returns({"get_lead_detail"}, FindByID(Current.lead))
\* The conversation the model names, that of any lead: Execute does not take
\* the firm.
GetConversationHistory == Returns({"get_conversation_history"}, {Current.lead})
ListProducts == Returns({"list_products"}, {})
\* The leads of each column are counted by a statement of their own.
GetPipeline ==
  /\ Executes({"get_pipeline"})
  /\ IF PipelineColumns = <<>> THEN Answer(NewToolResult(NoId, TRUE, {}))
     ELSE turn' = [turn EXCEPT !.phase = "count"]
  /\ UNCHANGED <<toolSources, leadRows, recorded>>
CountByColumnID ==
  /\ turn.phase = "count"
  /\ LET column == PipelineColumns[Len(turn.read) + 1]
         counts == Append(turn.read, Cardinality({l \in Home : leadRows[l].column = column}))
     IN IF Len(counts) < Len(PipelineColumns) THEN turn' = [turn EXCEPT !.read = counts]
        ELSE Answer(NewToolResult(NoId, TRUE, {}))
  /\ UNCHANGED <<toolSources, leadRows, recorded>>

\* The adapters read the lead first; one of another firm is refused.
\* Mutant: the firm is not looked at.
ReadsLeadAnyFirm(name) ==
  /\ Executes({name})
  /\ turn' = [turn EXCEPT !.phase = "write", !.read = <<leadRows[Current.lead]>>]
  /\ UNCHANGED <<toolSources, leadRows, recorded>>
ReadsLead(name) ==
  /\ Executes({name})
  /\ IF Current.lead \in Home
     THEN turn' = [turn EXCEPT !.phase = "write", !.read = <<leadRows[Current.lead]>>]
     ELSE Answer(NewToolResult(NoId, FALSE, {}))
  /\ UNCHANGED <<toolSources, leadRows, recorded>>
MoveToColumn == ReadsLead("move_lead")
CreateNote == ReadsLead("create_note")
UpdateScore == ReadsLead("update_score")

\* TriggerByID refuses an automation that is not there or another firm's, and
\* one no executor is registered for; executeAndLog runs any other.
TriggerManually ==
  /\ Executes({"trigger_automation"})
  /\ \/ Answer(NewToolResult(NoId, FALSE, {}))
     \/ \E rule \in RuleRuns : turn' = [turn EXCEPT !.phase = rule]
  /\ UNCHANGED <<toolSources, leadRows, recorded>>
\* Conversation and specialist are the model's: neither is looked at. Without
\* a conversation of the AI there is nothing to switch.
SwitchSpecialist ==
  /\ Executes({"switch_specialist"})
  /\ \/ Answer(NewToolResult(NoId, FALSE, {})) /\ UNCHANGED recorded
     \/ Answer(NewToolResult(NoId, TRUE, {})) /\ recorded' = recorded \cup {Current}
  /\ UNCHANGED <<toolSources, leadRows>>

Writing(names) == turn.phase = "write" /\ Current.tool \in names
Done == recorded' = recorded \cup {Current}
\* What a tool that fails answers: executeAndLog puts the error of an
\* automation into its log, and TriggerByID tells of success.
Failed == NewToolResult(NoId, Current.tool = "trigger_automation", {})

\* A note is a row of its own.
SaveNote ==
  /\ Writing({"create_note"}) /\ Done
  /\ leadRows' = [leadRows EXCEPT ![Current.lead].notes = @ + 1]
  /\ Answer(NewToolResult(NoId, TRUE, {})) /\ UNCHANGED toolSources
\* NoteSaverAdapter writes it on whatever lead it is given.
RuleNotes ==
  /\ turn.phase = "ruleNote" /\ Done
  /\ leadRows' = [leadRows EXCEPT ![Current.lead].notes = @ + 1]
  /\ Answer(NewToolResult(NoId, TRUE, {})) /\ UNCHANGED toolSources
\* The score is saved with the whole row as it was read.
SaveScore ==
  /\ Writing({"update_score"}) /\ Done
  /\ leadRows' = [leadRows EXCEPT ![Current.lead] = [@ EXCEPT !.score = 1, !.column = Head(turn.read).column]]
  /\ Answer(NewToolResult(NoId, TRUE, {})) /\ UNCHANGED toolSources
\* The move of an automation goes through MoveLeadUseCase, too; the other
\* executors only log (Automations).
RuleMoves ==
  /\ turn.phase = "ruleMove"
  /\ IF Current.lead \in Home
     THEN turn' = [turn EXCEPT !.phase = "write", !.read = <<leadRows[Current.lead]>>]
     ELSE Answer(Failed)
  /\ UNCHANGED <<toolSources, leadRows, recorded>>
RuleStub ==
  /\ turn.phase = "ruleStub" /\ Answer(NewToolResult(NoId, TRUE, {}))
  /\ UNCHANGED <<toolSources, leadRows, recorded>>
\* The column is saved with the whole row; the movement is another row.
ToColumns == IF Current.tool = "move_lead" THEN {Current.column} ELSE LeadColumn
SaveMove ==
  /\ Writing({"move_lead", "trigger_automation"}) /\ Done
  /\ \E c \in ToColumns :
       leadRows' = [leadRows EXCEPT ![Current.lead] = [@ EXCEPT !.column = c, !.score = Head(turn.read).score]]
  /\ turn' = [turn EXCEPT !.phase = "movement"] /\ UNCHANGED toolSources
SaveFails ==
  /\ turn.phase \in {"count", "write", "movement"} \cup RuleRuns /\ "db" \in ToolFaults
  /\ Answer(Failed)
  /\ UNCHANGED <<toolSources, leadRows, recorded>>
SaveMovement ==
  /\ turn.phase = "movement" /\ Answer(NewToolResult(NoId, TRUE, {}))
  /\ UNCHANGED <<toolSources, leadRows, recorded>>

\* Every call has its result: those without an id get their call's, and the
\* results replace those of the iteration before.
\* Mutant: with the index the first loop left.
BackfillLast(results) ==
  [i \in DOMAIN results |->
     IF results[i].id = NoId THEN [results[i] EXCEPT !.id = turn.calls[Len(turn.calls)].id] ELSE results[i]]
Backfill(results) ==
  [i \in DOMAIN results |->
     IF results[i].id = NoId THEN [results[i] EXCEPT !.id = turn.calls[i].id] ELSE results[i]]
NextIteration ==
  /\ turn.phase = "run" /\ Len(turn.results) = Len(turn.calls)
  /\ turn' = [turn EXCEPT !.phase = "ask", !.results = Backfill(@)]
  /\ UNCHANGED <<toolSources, leadRows, recorded>>

BuildStep == Resolve \/ GetProvider \/ BuildPrompt \/ SpecialistGone \/ ReadHistory \/ ResolveDefinitions
LoopStep ==
  \/ GenerateResponse \/ LoopExceeded \/ NextIteration
  \/ ToolNotFound \/ ArgumentMissing \/ ExecuteFails
  \/ SearchLeads \/ GetLeadDetail \/ GetConversationHistory \/ ListProducts \/ GetPipeline \/ CountByColumnID
  \/ MoveToColumn \/ CreateNote \/ UpdateScore \/ TriggerManually \/ SwitchSpecialist
  \/ SaveNote \/ SaveScore \/ SaveMove \/ SaveMovement \/ SaveFails
  \/ RuleNotes \/ RuleMoves \/ RuleStub
ToolNext ==
  \/ BuildStep \/ LoopStep
  \/ \E names \in ToolSets : SetTools(names)
  \/ \E list \in StepLists : EditSteps(list)
  \/ \E name \in ProviderNames : HandleSaveAIConfig(name)
  \/ \E id \in Nat, filled \in BOOLEAN : StoreText(id, filled)
  \/ Resume \/ Passes
  \/ \E l \in LeadId, c \in LeadColumn : DragLead(l, c)
ToolSpec == ToolInit /\ [][ToolNext]_toolVars
-----------------------------------------------------------------------------
Asks == turn.phase = "ask"

\* What is sent to the model: every answer already given, once; messages,
\* none from before the AI was resumed; only tools the step allows; and, for
\* every call of the response before, in order, the result with its id.
RequestIsSound ==
  ToolTypeOK /\ (Asks =>
    /\ {turn.lines[i] : i \in DOMAIN turn.lines} = {k \in DOMAIN CollectedData : CollectedData[k] # ""}
    /\ \A i, j \in DOMAIN turn.lines : turn.lines[i] = turn.lines[j] => i = j
    /\ turn.messages # <<>> /\ Len(turn.messages) <= Window
    /\ \A i \in DOMAIN turn.messages :
         turn.messages[i] = Oi \/ turn.messages[i].at > turn.resumedAt \/ turn.resumedAt = 0
    /\ \A i, j \in DOMAIN turn.messages : i < j => turn.messages[i].stamp <= turn.messages[j].stamp
    /\ turn.step # <<>> => \A t \in turn.tools : t \notin Head(turn.step).restricted
    /\ turn.step # <<>> /\ Head(turn.step).forced # {} => turn.tools \subseteq Head(turn.step).forced
    /\ Len(turn.results) = Len(turn.calls)
    /\ \A i \in DOMAIN turn.calls : turn.results[i].id = turn.calls[i].id)

\* What the model is told of its calls is what was done for them: a tool that
\* tells of success has changed the database, unless it triggered an
\* automation (engine.go:92 drops the executor's error), and one that tells of
\* a failure has not, unless it is a move whose movement failed after the lead
\* was saved (move_lead.go:114). However the calls of a response mix firms, a
\* lead of another one is shown by its conversation's history alone, gets a
\* note from an automation alone, and is neither moved nor scored.
ToolsTellTruth ==
  /\ \A i \in DOMAIN turn.results : LET call == turn.calls[i] result == turn.results[i] IN
       /\ result.ok /\ call.tool \in LeadWrites \cup {"switch_specialist"} => call \in recorded
       /\ ~result.ok /\ call \in recorded => call.tool = "move_lead"
       /\ call.tool # "get_conversation_history" => result.shown \subseteq Home
  /\ \A call \in recorded :
       call.lead \in Home \/ call.tool \in {"trigger_automation", "switch_specialist"}
  /\ \A l \in LeadId \ Home :
       /\ leadRows[l].score = 0
       /\ leadRows[l].notes # 0 => \E call \in recorded : call.lead = l /\ call.tool = "trigger_automation"

\* However often the model calls tools, the turn ends.
LoopEnds == turn.phase = "ask" ~> turn.phase \in {"answered", "fallback"}
=============================================================================

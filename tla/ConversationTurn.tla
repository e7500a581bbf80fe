--------------------------- MODULE ConversationTurn ---------------------------
(***************************************************************************)
(* The turns of one AI conversation (ConversationEngine.HandleMessages)    *)
(* and the requests that write the same ConversationState row beside them: *)
(* the handoff use cases of the HTTP API and the playground's reset.       *)
(*                                                                         *)
(* Turns serialise on the conversation's turnLock (module KeyedMutex, here *)
(* its abstraction: one holder).  The HTTP requests do not take it.  Every *)
(* writer reads the whole row, works on its copy and saves the whole row   *)
(* back, so the read and the save are separate actions and everything a    *)
(* turn does in between, above all the call of the language model, is an   *)
(* interval in which others write.                                         *)
(*                                                                         *)
(* Cross-sell is not wired in cmd/api/main.go (CrossSellRuleRepo is nil),  *)
(* so its branches are dead and left out.                                  *)
(***************************************************************************)
EXTENDS Integers, Sequences

CONSTANTS
  Turn,        \* calls of HandleMessages that may overlap
  Request,     \* HTTP requests that may overlap with them
  Specialist,
  Removable,   \* specialists an admin may dissociate from the tenant or deactivate
  Column,      \* funnel columns
  EntryColumn, \* the entry column of the tenant's default funnel
  Steps,       \* qualification steps of each specialist
  Scoring,     \* scoring configuration of each specialist
  Unscored,    \* specialists without one
  LlmScores,   \* scores the language model may report for a step
  Tools,       \* tools the model calls
  RequestKinds,        \* kinds of HTTP request that arrive
  ResetCommandEnabled, \* configuration flag
  Faults,      \* what may fail
  NoTurn, NoRow, NoColumn

Outcome == {"em_andamento", "aprovado", "humano", "reprovado"}
Kind == {"activate", "deactivate", "reset"}
ColumnOrNone == Column \cup {NoColumn}

Step == [score : Int, target : ColumnOrNone]

ScoringConfig ==
  [threshold : Int, humanMin : Nat,
   qualified : ColumnOrNone, human : ColumnOrNone, disqualified : ColumnOrNone]

ASSUME EngineAssumption ==
  /\ NoTurn \notin Turn /\ NoColumn \notin Column
  /\ Removable \subseteq Specialist /\ EntryColumn \in Column
  /\ Steps \in [Specialist -> Seq(Step)]
  /\ Scoring \in [Specialist -> ScoringConfig] /\ Unscored \subseteq Specialist
  /\ LlmScores \subseteq Int
  /\ Tools \subseteq {"switch_specialist", "update_score", "move_lead"}
  /\ RequestKinds \subseteq Kind
  /\ ResetCommandEnabled \in BOOLEAN
  /\ Faults \subseteq {"db", "lead", "llm", "crash"}

\* ConversationState; collected is the set of step indices with an answer.
Row ==
  [specialist : Specialist, step : Nat, collected : SUBSET Nat, score : Int, handoff : BOOLEAN]

ASSUME NoRowAssumption == NoRow \notin Row

VARIABLES
  row,       \* the conversation_states row
  lead,      \* the lead of the conversation
  turnLock,  \* holder of the conversation's turn lock
  pc,        \* where each turn is
  routed,    \* the router's specialist for the turn's messages
  command,   \* the turn's message is /reset
  state,     \* the turn's in-memory copy of the row
  side,      \* a second copy, read by a tool or by the handoff use case
  plan,      \* the verdict on the current step: veto and target column
  request,   \* each HTTP request: its kind, stage and copy of the row
  handedOff, \* history: the last handoff request that was answered asked for a human
  muted      \* history: a human has owned the conversation since the turn's message came

turnVars == <<turnLock, pc, routed, command, state, side, plan>>
history == <<handedOff, muted>>
vars == <<row, lead, turnVars, request, history>>

Phase ==
  {"idle", "queued", "find", "resetFind", "resetSave", "resetLead", "heal", "llm", "toolSave",
   "score", "route", "handoffFind", "handoffSave", "move", "save", "send"}

Lead == [score : Int, column : Column, outcome : Outcome]
Plan == [veto : BOOLEAN, target : ColumnOrNone]
NoPlan == [veto |-> FALSE, target |-> NoColumn]
NoRequest == [kind |-> "none", stage |-> "idle", copy |-> NoRow]

TypeOK ==
  /\ row \in Row \cup {NoRow}
  /\ lead \in Lead
  /\ turnLock \in Turn \cup {NoTurn}
  /\ pc \in [Turn -> Phase]
  /\ routed \in [Turn -> Specialist]
  /\ command \in [Turn -> BOOLEAN]
  /\ state \in [Turn -> Row \cup {NoRow}]
  /\ side \in [Turn -> Row \cup {NoRow}]
  /\ plan \in [Turn -> Plan]
  /\ request \in [Request -> [kind : Kind \cup {"none"}, stage : {"idle", "save", "lead"},
                              copy : Row \cup {NoRow}]]
  /\ handedOff \in BOOLEAN
  /\ muted \in [Turn -> BOOLEAN]

Init ==
  /\ row = NoRow
  /\ lead = [score |-> 0, column |-> EntryColumn, outcome |-> "em_andamento"]
  /\ turnLock = NoTurn
  /\ pc = [t \in Turn |-> "idle"]
  /\ routed \in [Turn -> Specialist]
  /\ command = [t \in Turn |-> FALSE]
  /\ state = [t \in Turn |-> NoRow]
  /\ side = [t \in Turn |-> NoRow]
  /\ plan = [t \in Turn |-> NoPlan]
  /\ request = [q \in Request |-> NoRequest]
  /\ handedOff = FALSE
  /\ muted = [t \in Turn |-> FALSE]

-----------------------------------------------------------------------------
(* The domain operations on a row. *)

NewConversationState(s) ==
  [specialist |-> s, step |-> 0, collected |-> {}, score |-> 0, handoff |-> FALSE]

AdvanceStep(r, score) ==
  [r EXCEPT !.step = @ + 1, !.collected = @ \cup {r.step}, !.score = @ + score]

ActivateHandoff(r) == [r EXCEPT !.handoff = TRUE]
DeactivateHandoff(r) == [r EXCEPT !.handoff = FALSE]

\* Mutant: the answers survive the reset.
ResetKeepsAnswers(r) == [r EXCEPT !.step = 0, !.score = 0, !.handoff = FALSE]
Reset(r) == [r EXCEPT !.step = 0, !.collected = {}, !.score = 0, !.handoff = FALSE]

CalculateOutcome(sc, score) ==
  CASE score >= sc.threshold -> "aprovado"
    [] score < sc.threshold /\ sc.humanMin > 0 /\ score >= sc.humanMin -> "humano"
    [] OTHER -> "reprovado"

HandedOff(r) == r # NoRow /\ r.handoff

\* A write of the row; the history of each waiting or running message follows.
WriteRow(r) ==
  /\ row' = r
  /\ muted' = [t \in Turn |-> muted[t] /\ HandedOff(r)]

Goto(t, phase) == pc' = [pc EXCEPT ![t] = phase]

LockFree == turnLock = NoTurn

\* Mutant: a return without the deferred unlock.
KeepsLock == turnLock' = turnLock
Unlock == turnLock' = NoTurn

\* Mutant: the handoff flag is not looked at.
NeverSkips(r) == FALSE
SkipsAI(r) == r.handoff

\* Every return of HandleMessages: the deferred unlock, the locals are gone.
Return(t) ==
  /\ Goto(t, "idle")
  /\ Unlock
  /\ state' = [state EXCEPT ![t] = NoRow]
  /\ side' = [side EXCEPT ![t] = NoRow]
  /\ plan' = [plan EXCEPT ![t] = NoPlan]
  /\ UNCHANGED <<routed, command>>

-----------------------------------------------------------------------------
(* A turn. *)

\* The debouncer (or the playground) calls HandleMessages.
Arrive(t, s, isReset) ==
  /\ pc[t] = "idle"
  /\ isReset => ResetCommandEnabled
  /\ Goto(t, "queued")
  /\ routed' = [routed EXCEPT ![t] = s]
  /\ command' = [command EXCEPT ![t] = isReset]
  /\ muted' = [muted EXCEPT ![t] = HandedOff(row)]
  /\ UNCHANGED <<row, lead, turnLock, state, side, plan, request, handedOff>>

\* turnLock.Lock returns; /reset is intercepted before any state is loaded.
Enter(t) ==
  /\ pc[t] = "queued"
  /\ turnLock' = t
  /\ Goto(t, IF ResetCommandEnabled /\ command[t] THEN "resetFind" ELSE "find")
  /\ UNCHANGED <<row, lead, routed, command, state, side, plan, request, history>>
Lock(t) == LockFree /\ Enter(t)

\* ResetConversationUseCase.Execute on the /reset command.
ResetFind(t) ==
  /\ pc[t] = "resetFind"
  /\ IF row = NoRow
     THEN Goto(t, "resetLead") /\ UNCHANGED state
     ELSE Goto(t, "resetSave") /\ state' = [state EXCEPT ![t] = Reset(row)]
  /\ UNCHANGED <<row, lead, turnLock, routed, command, side, plan, request, history>>

ResetSave(t) ==
  /\ pc[t] = "resetSave"
  /\ WriteRow(state[t])
  /\ Goto(t, "resetLead")
  /\ handedOff' = FALSE
  /\ UNCHANGED <<lead, turnLock, routed, command, state, side, plan, request>>

\* A lead update is best effort: it may be lost when "lead" is a fault.
LeadBecomes(l) == lead' = l \/ ("lead" \in Faults /\ lead' = lead)

\* finish: the lead goes back to the entry column with score 0 (best effort),
\* the confirmation is sent.
LeadReset == LeadBecomes([lead EXCEPT !.score = 0, !.column = EntryColumn])

ResetLead(t) ==
  /\ pc[t] = "resetLead"
  /\ LeadReset
  /\ Return(t)
  /\ UNCHANGED <<row, request, history>>

\* FindByConversationID, or New and Create.
Find(t) ==
  /\ pc[t] = "find"
  /\ LET r == IF row = NoRow THEN NewConversationState(routed[t]) ELSE row
     IN WriteRow(r) /\ state' = [state EXCEPT ![t] = r]
  /\ Goto(t, "heal")
  /\ UNCHANGED <<lead, turnLock, routed, command, side, plan, request, handedOff>>

\* The persisted specialist stays unless it differs from the router's and is
\* confirmed removed or inactive; a human's conversation is left alone.
Keep(t) ==
  /\ pc[t] = "heal"
  /\ IF SkipsAI(state[t])
     THEN Return(t)
     ELSE Goto(t, "llm") /\ UNCHANGED <<turnLock, routed, command, state, side, plan>>
  /\ UNCHANGED <<row, lead, request, history>>

Heal(t) ==
  /\ pc[t] = "heal"
  /\ state[t].specialist # routed[t]
  /\ state[t].specialist \in Removable
  /\ LET r == [state[t] EXCEPT !.specialist = routed[t]]
     IN /\ WriteRow(r)
        /\ IF SkipsAI(r)
           THEN Return(t)
           ELSE /\ Goto(t, "llm")
                /\ state' = [state EXCEPT ![t] = r]
                /\ UNCHANGED <<turnLock, routed, command, side, plan>>
  /\ UNCHANGED <<lead, request, handedOff>>

\* The model calls the switch_specialist tool: another find of the row ...
ToolFind(t, s) ==
  /\ pc[t] = "llm"
  /\ "switch_specialist" \in Tools
  /\ row # NoRow
  /\ side' = [side EXCEPT ![t] = [row EXCEPT !.specialist = s]]
  /\ Goto(t, "toolSave")
  /\ UNCHANGED <<row, lead, turnLock, routed, command, state, plan, request, history>>

\* ... and its save, while the turn keeps the copy it found before.
ToolSave(t) ==
  /\ pc[t] = "toolSave"
  /\ WriteRow(side[t])
  /\ side' = [side EXCEPT ![t] = NoRow]
  /\ Goto(t, "llm")
  /\ UNCHANGED <<lead, turnLock, routed, command, state, plan, request, handedOff>>

\* The tools that write the lead.
LeadTool(t) ==
  /\ pc[t] = "llm"
  /\ \/ "update_score" \in Tools /\ \E n \in LlmScores : lead' = [lead EXCEPT !.score = n]
     \/ "move_lead" \in Tools /\ \E c \in Column : lead' = [lead EXCEPT !.column = c]
  /\ UNCHANGED <<row, turnVars, request, history>>

\* The request for the model cannot be built, the model fails, or it asks for
\* tools once too often: nothing is advanced.
LlmFails(t) ==
  /\ pc[t] = "llm"
  /\ "llm" \in Faults
  /\ Return(t)
  /\ UNCHANGED <<row, lead, request, history>>

\* The current step of the turn's copy.
HasStep(t) == state[t].step < Len(Steps[state[t].specialist])
CurrentStep(t) == Steps[state[t].specialist][state[t].step + 1]

\* An answer that completes no step.
AnswerOnly(t) ==
  /\ pc[t] = "llm"
  /\ Goto(t, "save")
  /\ UNCHANGED <<row, lead, turnLock, routed, command, state, side, plan, request, history>>

\* An answer that completes the current step, by rule with the step's score or
\* by the model's metadata with the model's; the copy in memory advances.
AnswerCompletes(t) ==
  /\ pc[t] = "llm"
  /\ HasStep(t)
  /\ \E score \in LlmScores \cup {CurrentStep(t).score}, veto \in BOOLEAN :
       /\ state' = [state EXCEPT ![t] = AdvanceStep(@, score)]
       /\ plan' = [plan EXCEPT ![t] = [veto |-> veto, target |-> CurrentStep(t).target]]
  /\ Goto(t, "score")
  /\ UNCHANGED <<row, lead, turnLock, routed, command, side, request, history>>

\* Mutant: the step's score is added to what the lead has.
AddsLeadScore(t) ==
  /\ pc[t] = "score"
  /\ LeadBecomes([lead EXCEPT !.score = @ + state[t].score - row.score])
  /\ Goto(t, "route")
  /\ UNCHANGED <<row, turnLock, routed, command, state, side, plan, request, history>>

\* The lead gets the sum, before the row does.
UpdateLeadScore(t) ==
  /\ pc[t] = "score"
  /\ LeadBecomes([lead EXCEPT !.score = state[t].score])
  /\ Goto(t, "route")
  /\ UNCHANGED <<row, turnLock, routed, command, state, side, plan, request, history>>

\* Column routing: the model's veto, then the step's own column, then the
\* outcome of the score.
OutcomeColumn(t, outcome) ==
  LET sc == Scoring[state[t].specialist]
  IN CASE outcome = "aprovado" -> sc.qualified
       [] outcome = "humano" -> sc.human
       [] outcome = "reprovado" /\ ~HasStep(t) -> sc.disqualified
       [] OTHER -> NoColumn

RouteTo(t, column) == plan' = [plan EXCEPT ![t].target = column]

Route(t) ==
  /\ pc[t] = "route"
  /\ LET sc == Scoring[state[t].specialist]
         scored == state[t].specialist \notin Unscored
         outcome == CalculateOutcome(sc, state[t].score)
         vetoed == scored /\ plan[t].veto /\ sc.disqualified # NoColumn
     IN \/ /\ vetoed
           /\ RouteTo(t, sc.disqualified)
           /\ Goto(t, "move")
           /\ UNCHANGED lead
        \/ /\ ~vetoed /\ plan[t].target = NoColumn /\ scored
           /\ LeadBecomes([lead EXCEPT !.outcome = outcome])
           /\ RouteTo(t, OutcomeColumn(t, outcome))
           /\ Goto(t, IF outcome = "humano" THEN "handoffFind" ELSE "move")
        \/ /\ ~vetoed /\ (plan[t].target # NoColumn \/ ~scored)
           /\ Goto(t, "move")
           /\ UNCHANGED <<lead, plan>>
  /\ UNCHANGED <<row, turnLock, routed, command, state, side, request, history>>

\* The scoring configuration cannot be loaded: only the step's own column counts.
RouteUnscored(t) ==
  /\ pc[t] = "route"
  /\ "db" \in Faults
  /\ Goto(t, "move")
  /\ UNCHANGED <<row, lead, turnLock, routed, command, state, side, plan, request, history>>

\* Outcome humano: ActivateHandoffUseCase finds the row for itself ...
HandoffFind(t) ==
  /\ pc[t] = "handoffFind"
  /\ IF HandedOff(row)
     THEN Goto(t, "move") /\ UNCHANGED side
     ELSE Goto(t, "handoffSave") /\ side' = [side EXCEPT ![t] = ActivateHandoff(row)]
  /\ UNCHANGED <<row, lead, turnLock, routed, command, state, plan, request, history>>

\* ... and saves it, while the turn keeps the copy it found before.
HandoffSave(t) ==
  /\ pc[t] = "handoffSave"
  /\ WriteRow(side[t])
  /\ side' = [side EXCEPT ![t] = NoRow]
  /\ Goto(t, "move")
  /\ UNCHANGED <<lead, turnLock, routed, command, state, plan, request, handedOff>>

MoveLeadToColumn(t) ==
  /\ pc[t] = "move"
  /\ IF plan[t].target = NoColumn
     THEN UNCHANGED lead
     ELSE LeadBecomes([lead EXCEPT !.column = plan[t].target])
  /\ Goto(t, "save")
  /\ UNCHANGED <<row, turnLock, routed, command, state, side, plan, request, history>>

\* Mutant: the answer is sent first, and the failing send returns.
SendsFirst(t) ==
  /\ pc[t] = "save"
  /\ Goto(t, "send")
  /\ UNCHANGED <<row, lead, turnLock, routed, command, state, side, plan, request, history>>

\* The whole in-memory copy is saved, before the answer is sent.
SaveState(t) ==
  /\ pc[t] = "save"
  /\ WriteRow(state[t])
  /\ Goto(t, "send")
  /\ UNCHANGED <<lead, turnLock, routed, command, state, side, plan, request, handedOff>>

\* The answer is sent, or fails to be; the turn ends either way.
Send(t) ==
  /\ pc[t] = "send"
  /\ Return(t)
  /\ UNCHANGED <<row, lead, request, history>>

\* A database call of the turn returns an error, and with it HandleMessages.
\* The errors of a tool and of the handoff use case do not end the turn.
DbFails(t) ==
  /\ "db" \in Faults
  /\ pc[t] \in {"resetFind", "resetSave", "find", "heal", "save"}
  /\ Return(t)
  /\ UNCHANGED <<row, lead, request, history>>

SideCallFails(t) ==
  /\ "db" \in Faults
  /\ \/ pc[t] = "toolSave" /\ Goto(t, "llm")
     \/ pc[t] \in {"handoffFind", "handoffSave"} /\ Goto(t, "move")
  /\ side' = [side EXCEPT ![t] = NoRow]
  /\ UNCHANGED <<row, lead, turnLock, routed, command, state, plan, request, history>>

Resets(t) == ResetFind(t) \/ ResetSave(t) \/ ResetLead(t)
Loads(t) == Find(t) \/ Keep(t) \/ Heal(t)
Generates(t) ==
  \/ \E s \in Specialist : ToolFind(t, s)
  \/ ToolSave(t) \/ LeadTool(t) \/ LlmFails(t) \/ AnswerOnly(t) \/ AnswerCompletes(t)
Commits(t) ==
  \/ UpdateLeadScore(t) \/ Route(t) \/ RouteUnscored(t) \/ HandoffFind(t) \/ HandoffSave(t)
  \/ MoveLeadToColumn(t) \/ SaveState(t) \/ Send(t)

\* What the holder of the lock does.
Works(t) == Resets(t) \/ Loads(t) \/ Generates(t) \/ Commits(t) \/ DbFails(t) \/ SideCallFails(t)

TurnStep(t) == Lock(t) \/ Works(t)

-----------------------------------------------------------------------------
(* HTTP requests: a find and a save of the row, without the turn lock. *)

RequestFind(q, kind) ==
  /\ request[q].stage = "idle"
  /\ kind \in RequestKinds
  /\ row # NoRow
  /\ \/ kind = "activate" /\ ~row.handoff /\ request' = [request EXCEPT ![q] =
          [kind |-> kind, stage |-> "save", copy |-> ActivateHandoff(row)]]
     \/ kind = "deactivate" /\ row.handoff /\ request' = [request EXCEPT ![q] =
          [kind |-> kind, stage |-> "save", copy |-> DeactivateHandoff(row)]]
     \/ kind = "reset" /\ request' = [request EXCEPT ![q] =
          [kind |-> kind, stage |-> "save", copy |-> Reset(row)]]
  /\ UNCHANGED <<row, lead, turnVars, history>>

\* A reset of a conversation that has no row yet.
RequestFindNone(q) ==
  /\ request[q].stage = "idle"
  /\ "reset" \in RequestKinds
  /\ row = NoRow
  /\ request' = [request EXCEPT ![q] = [kind |-> "reset", stage |-> "lead", copy |-> NoRow]]
  /\ UNCHANGED <<row, lead, turnVars, history>>

RequestSave(q) ==
  /\ request[q].stage = "save"
  /\ WriteRow(request[q].copy)
  /\ handedOff' = (request[q].kind = "activate")
  /\ request' = [request EXCEPT ![q] =
       IF @.kind = "reset" THEN [kind |-> "reset", stage |-> "lead", copy |-> NoRow] ELSE NoRequest]
  /\ UNCHANGED <<lead, turnVars>>

RequestResetLead(q) ==
  /\ request[q].stage = "lead"
  /\ LeadReset
  /\ request' = [request EXCEPT ![q] = NoRequest]
  /\ UNCHANGED <<row, turnVars, history>>

RequestFails(q) ==
  /\ "db" \in Faults
  /\ request[q].stage = "save"
  /\ request' = [request EXCEPT ![q] = NoRequest]
  /\ UNCHANGED <<row, lead, turnVars, history>>

RequestStep(q) ==
  \/ \E kind \in Kind : RequestFind(q, kind)
  \/ RequestFindNone(q) \/ RequestSave(q) \/ RequestResetLead(q) \/ RequestFails(q)

-----------------------------------------------------------------------------
\* The process dies and restarts: the row and the lead survive, the turns, the
\* requests and the lock do not.
Crash ==
  /\ "crash" \in Faults
  /\ turnLock' = NoTurn
  /\ pc' = [t \in Turn |-> "idle"]
  /\ state' = [t \in Turn |-> NoRow]
  /\ side' = [t \in Turn |-> NoRow]
  /\ plan' = [t \in Turn |-> NoPlan]
  /\ request' = [q \in Request |-> NoRequest]
  /\ UNCHANGED <<row, lead, routed, command, history>>

Next ==
  \/ \E t \in Turn, s \in Specialist, isReset \in BOOLEAN : Arrive(t, s, isReset)
  \/ \E t \in Turn : TurnStep(t)
  \/ \E q \in Request : RequestStep(q)
  \/ Crash

Spec == Init /\ [][Next]_vars

\* A running turn goes on: database calls return, the provider's HTTP client
\* has a timeout and the tool loop a maximum of iterations, so from "llm" the
\* turn either fails or answers.  The lock is handed to a waiter in the end.
Fairness ==
  \A t \in Turn :
    /\ SF_vars(Lock(t))
    /\ WF_vars(Resets(t) \/ Loads(t) \/ ToolSave(t) \/ Commits(t))
    /\ SF_vars(AnswerOnly(t) \/ AnswerCompletes(t) \/ LlmFails(t))

FairSpec == Spec /\ Fairness

-----------------------------------------------------------------------------
(* Properties that hold. *)

Running(t) == pc[t] \notin {"idle", "queued"}

\* The turns that have passed the lock are the one that holds it
\* (conversation_engine.go:197-202).
OneTurnAtATime == \A t \in Turn : Running(t) <=> turnLock = t

\* Whoever writes the row, and however stale its copy, the row is never torn:
\* it has an answer for exactly the steps before the current one
\* (gorm_conversation_state_repository.go:109 saves whole rows).
Untorn(r) == r # NoRow => r.collected = 0 .. (r.step - 1)
AnswersMatchStep == Untorn(row)

\* A message that came while a human owned the conversation, and that the
\* human owned all along, is not answered by the model, however long it queued
\* behind a turn in flight (conversation_engine.go:261-264).
Generating(t) ==
  Running(t) /\ pc[t] \notin {"find", "heal", "resetFind", "resetSave", "resetLead"}
HumanIsNotInterrupted == \A t \in Turn : Generating(t) => ~muted[t]

\* Between turns the lead's score is the conversation's: a failing model or a
\* failing send never leaves the two apart (conversation_engine.go:525-528).
LeadInStep == (turnLock = NoTurn /\ row # NoRow) => lead.score = row.score

\* A saved step never goes out of the row again except by a reset: turns do not
\* rewind the conversation (conversation_engine.go:96-99).
Resetting == \E t \in Turn : pc[t] = "resetSave"
NoRewind ==
  [][(row # NoRow /\ ~Resetting) => row'.step >= row.step /\ row.collected \subseteq row'.collected]_vars

\* Every message a turn was started for is dealt with: the turn takes the lock
\* and returns.
TurnsReturn == \A t \in Turn : (pc[t] = "queued") ~> (pc[t] = "idle")

-----------------------------------------------------------------------------
(* The inductive invariant behind the first three. *)

HoldsState == {"resetSave", "heal", "llm", "toolSave", "score", "route", "handoffFind",
               "handoffSave", "move", "save", "send"}

\* A phase that saves or evaluates a copy has one.
CopiesPresent ==
  /\ \A t \in Turn : pc[t] \in HoldsState => row # NoRow /\ state[t] # NoRow
  /\ \A t \in Turn : pc[t] \in {"toolSave", "handoffSave"} => side[t] # NoRow
  /\ \A q \in Request : request[q].stage = "save" => row # NoRow /\ request[q].copy # NoRow

\* No copy of the row is torn either, whoever holds it.
CopiesMatchStep ==
  /\ AnswersMatchStep
  /\ \A t \in Turn : Untorn(state[t]) /\ Untorn(side[t])
  /\ \A q \in Request : Untorn(request[q].copy)

\* A turn whose message came into a human's hands has read the flag.
MuteSeen == \A t \in Turn : (pc[t] = "heal" /\ muted[t]) => state[t].handoff

TurnInvariant ==
  /\ TypeOK
  /\ OneTurnAtATime
  /\ CopiesPresent
  /\ CopiesMatchStep
  /\ MuteSeen
  /\ HumanIsNotInterrupted

-----------------------------------------------------------------------------
(* What the repository says and the code does not do. *)

\* "Assumir conversa: seta ConversationState.HandoffActive = true" and "se
\* HandoffActive == true, ignora (humano atendendo)" (F16 design, v1.md:350, 232):
\* once a request to hand the conversation to a human has been answered, it is
\* handed over until it is given back.
HandoffHolds == handedOff => HandedOff(row)

=============================================================================

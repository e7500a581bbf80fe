------------------------ MODULE ConversationTurnProofs ------------------------
(***************************************************************************)
(* Proofs about the turns of a conversation, for every number of turns and *)
(* requests, every step list and scoring, and every combination of faults. *)
(***************************************************************************)
EXTENDS ConversationSerial, LockedTurn, TLAPS

USE EngineAssumption, NoRowAssumption

\* The initial states satisfy the invariant.
LEMMA InitTurnInvariant == Init => TurnInvariant
<1> SUFFICES ASSUME Init PROVE TurnInvariant
  OBVIOUS
<1>1. TypeOK
  <2> USE DEF Init
  <2>1. row \in Row \cup {NoRow} /\ turnLock \in Turn \cup {NoTurn} /\ handedOff \in BOOLEAN
    OBVIOUS
  <2>2. lead \in Lead
    BY DEF Lead, Outcome
  <2>3. pc \in [Turn -> Phase] /\ command \in [Turn -> BOOLEAN] /\ muted \in [Turn -> BOOLEAN]
    BY DEF Phase
  <2>4. state \in [Turn -> Row \cup {NoRow}] /\ side \in [Turn -> Row \cup {NoRow}]
    OBVIOUS
  <2>5. plan \in [Turn -> Plan]
    BY DEF Plan, NoPlan, ColumnOrNone
  <2>6. request \in [Request -> [kind : Kind \cup {"none"}, stage : {"idle", "save", "lead"}, copy : Row \cup {NoRow}]]
    BY DEF NoRequest
  <2> QED
    BY <2>1, <2>2, <2>3, <2>4, <2>5, <2>6 DEF TypeOK
<1>2. OneTurnAtATime /\ MuteSeen /\ HumanIsNotInterrupted
  BY DEF Init, OneTurnAtATime, Running, MuteSeen, HumanIsNotInterrupted, Generating
<1>3. CopiesPresent /\ CopiesMatchStep
  BY DEF Init, CopiesPresent, HoldsState, NoRequest, CopiesMatchStep, AnswersMatchStep, Untorn
<1> QED
  BY <1>1, <1>2, <1>3 DEF TurnInvariant

\* The domain operations stay within rows.
LEMMA RowOperations ==
  ASSUME NEW r \in Row
  PROVE  /\ ActivateHandoff(r) \in Row
         /\ DeactivateHandoff(r) \in Row
         /\ Reset(r) \in Row
         /\ \A s \in Specialist : [r EXCEPT !.specialist = s] \in Row
         /\ \A n \in Int : AdvanceStep(r, n) \in Row
<1>1. ActivateHandoff(r) \in Row /\ DeactivateHandoff(r) \in Row
  BY DEF Row, ActivateHandoff, DeactivateHandoff
<1>2. Reset(r) \in Row
  <2>1. {} \in SUBSET Nat /\ 0 \in Nat /\ 0 \in Int
    OBVIOUS
  <2> QED
    BY <2>1 DEF Row, Reset
<1>3. \A s \in Specialist : [r EXCEPT !.specialist = s] \in Row
  BY DEF Row
<1>4. ASSUME NEW n \in Int PROVE AdvanceStep(r, n) \in Row
  <2>1. r.collected \cup {r.step} \in SUBSET Nat /\ r.step + 1 \in Nat /\ r.score + n \in Int
    BY DEF Row
  <2> QED
    BY <2>1 DEF Row, AdvanceStep
<1> QED
  BY <1>1, <1>2, <1>3, <1>4

\* The current step of a turn's copy is one of its specialist's.
LEMMA CurrentStepType ==
  ASSUME TypeOK, NEW t \in Turn, state[t] # NoRow, HasStep(t)
  PROVE  CurrentStep(t).score \in Int /\ CurrentStep(t).target \in ColumnOrNone
<1>1. state[t] \in Row
  BY DEF TypeOK
<1>2. state[t].specialist \in Specialist /\ state[t].step \in Nat
  BY <1>1 DEF Row
<1>3. Steps[state[t].specialist] \in Seq(Step)
  BY <1>2
<1>4. state[t].step + 1 \in 1 .. Len(Steps[state[t].specialist])
  BY <1>2, <1>3 DEF HasStep
<1>5. CurrentStep(t) \in Step
  <2>0. PICK q \in Seq(Step) : q = Steps[state[t].specialist]
    BY <1>3
  <2>1. \A i \in 1 .. Len(q) : q[i] \in Step
    OBVIOUS
  <2> QED
    BY <1>4, <2>0, <2>1 DEF CurrentStep
<1> QED
  BY <1>5 DEF Step

\* A return leaves the turn's variables typed.
LEMMA ReturnTypes ==
  ASSUME TypeOK, NEW t \in Turn, Return(t)
  PROVE  /\ turnLock' \in Turn \cup {NoTurn}
         /\ pc' \in [Turn -> Phase]
         /\ routed' \in [Turn -> Specialist]
         /\ command' \in [Turn -> BOOLEAN]
         /\ state' \in [Turn -> Row \cup {NoRow}]
         /\ side' \in [Turn -> Row \cup {NoRow}]
         /\ plan' \in [Turn -> Plan]
BY DEF TypeOK, Return, Unlock, Goto, Phase, Plan, NoPlan, ColumnOrNone

\* A write of a row leaves the row and the history typed.
LEMMA WriteTypes ==
  ASSUME TypeOK, NEW r \in Row, WriteRow(r)
  PROVE  row' \in Row /\ muted' \in [Turn -> BOOLEAN]
<1>1. \A t \in Turn : (muted[t] /\ HandedOff(r)) \in BOOLEAN
  OBVIOUS
<1> QED
  BY <1>1 DEF WriteRow

\* The flag of a row is a truth value.
LEMMA HandedOffType == \A r : HandedOff(r) \in BOOLEAN
<1> SUFFICES ASSUME NEW r PROVE (r # NoRow /\ r.handoff) \in BOOLEAN
  BY DEF HandedOff
<1> QED
  OBVIOUS

\* A lead update leaves the lead typed.
LEMMA LeadTypes ==
  ASSUME TypeOK, NEW l \in Lead, LeadBecomes(l)
  PROVE  lead' \in Lead
BY DEF TypeOK, LeadBecomes

\* A reset leaves the lead typed.
LEMMA LeadResetTypes ==
  ASSUME TypeOK, LeadReset
  PROVE  lead' \in Lead
<1>1. EntryColumn \in Column /\ lead \in Lead
  BY DEF TypeOK
<1>2. [lead EXCEPT !.score = 0, !.column = EntryColumn] \in Lead
  <2>1. 0 \in Int
    OBVIOUS
  <2> QED
    BY <1>1, <2>1 DEF Lead
<1> QED
  BY <1>2, LeadTypes DEF LeadReset

\* Routing yields a column or none and one of the outcomes.
LEMMA RouteTypes ==
  ASSUME TypeOK, NEW t \in Turn, state[t] # NoRow
  PROVE  LET sc == Scoring[state[t].specialist]
         IN /\ CalculateOutcome(sc, state[t].score) \in Outcome
            /\ \A o \in Outcome : OutcomeColumn(t, o) \in ColumnOrNone
            /\ sc.disqualified \in ColumnOrNone
<1>1. PICK sc \in ScoringConfig : sc = Scoring[state[t].specialist]
  BY DEF TypeOK, Row
<1>2. sc.disqualified \in ColumnOrNone /\ sc.qualified \in ColumnOrNone /\ sc.human \in ColumnOrNone
  BY DEF ScoringConfig
<1>3. NoColumn \in ColumnOrNone
  BY DEF ColumnOrNone
<1>4. CalculateOutcome(sc, state[t].score) \in Outcome
  BY DEF CalculateOutcome, Outcome
<1>5. ASSUME NEW o \in Outcome PROVE OutcomeColumn(t, o) \in ColumnOrNone
  BY <1>1, <1>2, <1>3 DEF OutcomeColumn
<1> QED
  BY <1>1, <1>2, <1>4, <1>5

\* Every action keeps the types.
LEMMA TypeNext == TypeOK /\ CopiesPresent /\ [Next]_vars => TypeOK'
<1> SUFFICES ASSUME TypeOK, CopiesPresent, [Next]_vars PROVE TypeOK'
  OBVIOUS
<1> USE DEF TypeOK, CopiesPresent, HoldsState, Phase, Goto, turnVars, history
<1>1. ASSUME NEW t \in Turn, NEW s \in Specialist, NEW r \in BOOLEAN, Arrive(t, s, r) PROVE TypeOK'
  BY <1>1, HandedOffType DEF Arrive
<1>2. ASSUME NEW t \in Turn, Lock(t) PROVE TypeOK'
  BY <1>2 DEF Lock, Enter
<1>3. ASSUME NEW t \in Turn, ResetFind(t) PROVE TypeOK'
  <2>1. CASE row = NoRow
    <3>1. UNCHANGED state /\ pc' = [pc EXCEPT ![t] = "resetLead"]
      BY <1>3, <2>1 DEF ResetFind
    <3>2. UNCHANGED <<row, lead, turnLock, routed, command, side, plan, request, history>>
      BY <1>3 DEF ResetFind
    <3> QED
      BY <3>1, <3>2
  <2>2. CASE row # NoRow
    <3>1. Reset(row) \in Row
      BY <2>2, RowOperations
    <3>2. state' = [state EXCEPT ![t] = Reset(row)] /\ pc' = [pc EXCEPT ![t] = "resetSave"]
      BY <1>3, <2>2 DEF ResetFind
    <3>3. UNCHANGED <<row, lead, turnLock, routed, command, side, plan, request, history>>
      BY <1>3 DEF ResetFind
    <3> QED
      BY <3>1, <3>2, <3>3
  <2> QED
    BY <2>1, <2>2
<1>4. ASSUME NEW t \in Turn, ResetSave(t) PROVE TypeOK'
  BY <1>4, WriteTypes DEF ResetSave
<1>5. ASSUME NEW t \in Turn, ResetLead(t) PROVE TypeOK'
  BY <1>5, ReturnTypes, LeadResetTypes DEF ResetLead
<1>6. ASSUME NEW t \in Turn, Find(t) PROVE TypeOK'
  <2>1. NewConversationState(routed[t]) \in Row
    BY DEF NewConversationState, Row
  <2>2. PICK r \in Row : WriteRow(r) /\ state' = [state EXCEPT ![t] = r]
    BY <1>6, <2>1 DEF Find
  <2> QED
    BY <1>6, <2>2, WriteTypes DEF Find
<1>7. ASSUME NEW t \in Turn, Keep(t) PROVE TypeOK'
  BY <1>7, ReturnTypes, ZenonT(40) DEF Keep
<1>8. ASSUME NEW t \in Turn, Heal(t) PROVE TypeOK'
  <2>1. PICK r \in Row : r = [state[t] EXCEPT !.specialist = routed[t]]
    BY <1>8, RowOperations, ZenonT(40) DEF Heal
  <2>2. row' \in Row /\ muted' \in [Turn -> BOOLEAN]
    BY <1>8, <2>1, WriteTypes DEF Heal
  <2>3. CASE SkipsAI(r)
    BY <1>8, <2>1, <2>2, <2>3, ReturnTypes DEF Heal
  <2>4. CASE ~SkipsAI(r)
    <3>1. state' = [state EXCEPT ![t] = r] /\ pc' = [pc EXCEPT ![t] = "llm"]
      BY <1>8, <2>1, <2>4 DEF Heal
    <3>2. UNCHANGED <<turnLock, routed, command, side, plan, lead, request, handedOff>>
      BY <1>8, <2>1, <2>4 DEF Heal
    <3> QED
      BY <2>2, <3>1, <3>2
  <2> QED
    BY <2>3, <2>4
<1>9. ASSUME NEW t \in Turn, NEW s \in Specialist, ToolFind(t, s) PROVE TypeOK'
  BY <1>9, RowOperations DEF ToolFind
<1>10. ASSUME NEW t \in Turn, ToolSave(t) PROVE TypeOK'
  <2>1. side[t] \in Row
    BY <1>10 DEF ToolSave
  <2>2. side[t].specialist \in Specialist
    BY <2>1 DEF Row
  <2> QED
    BY <1>10, <2>1, <2>2, WriteTypes DEF ToolSave
<1>11. ASSUME NEW t \in Turn, LeadTool(t) PROVE TypeOK'
  BY <1>11, ZenonT(40) DEF LeadTool, Lead
<1>12. ASSUME NEW t \in Turn, LlmFails(t) PROVE TypeOK'
  BY <1>12, ReturnTypes DEF LlmFails
<1>13. ASSUME NEW t \in Turn, AnswerOnly(t) PROVE TypeOK'
  BY <1>13 DEF AnswerOnly
<1>14. ASSUME NEW t \in Turn, AnswerCompletes(t) PROVE TypeOK'
  <2>1. state[t] \in Row /\ CurrentStep(t).score \in Int /\ CurrentStep(t).target \in ColumnOrNone
    BY <1>14, CurrentStepType DEF AnswerCompletes
  <2>2. \A score \in LlmScores \cup {CurrentStep(t).score} : AdvanceStep(state[t], score) \in Row
    BY <2>1, RowOperations
  <2> QED
    BY <1>14, <2>1, <2>2 DEF AnswerCompletes, Plan
<1>15. ASSUME NEW t \in Turn, UpdateLeadScore(t) PROVE TypeOK'
  BY <1>15, ZenonT(40) DEF UpdateLeadScore, LeadBecomes, Row, Lead
<1>16. ASSUME NEW t \in Turn, Route(t) PROVE TypeOK'
  <2> DEFINE sc == Scoring[state[t].specialist]
             outcome == CalculateOutcome(sc, state[t].score)
  <2>1. state[t] # NoRow
    BY <1>16 DEF Route
  <2>2. outcome \in Outcome /\ OutcomeColumn(t, outcome) \in ColumnOrNone /\ sc.disqualified \in ColumnOrNone
    BY <2>1, RouteTypes
  <2>3. lead' \in Lead
    <3>1. [lead EXCEPT !.outcome = outcome] \in Lead
      BY <2>2 DEF Lead
    <3> QED
      BY <1>16, <3>1, LeadTypes DEF Route
  <2>4. plan' \in [Turn -> Plan]
    <3>1. ASSUME NEW c \in ColumnOrNone, RouteTo(t, c) PROVE plan' \in [Turn -> Plan]
      <4>0. plan[t] \in Plan
        OBVIOUS
      <4>1. [plan[t] EXCEPT !.target = c] \in Plan
        BY <3>1, <4>0 DEF Plan
      <4>2. plan' = [plan EXCEPT ![t] = [plan[t] EXCEPT !.target = c]]
        BY <3>1 DEF RouteTo
      <4> QED
        BY <4>1, <4>2
    <3> QED
      BY <1>16, <2>2, <3>1 DEF Route
  <2>5. pc' \in [Turn -> Phase]
    <3>1. PICK phase \in {"handoffFind", "move"} : pc' = [pc EXCEPT ![t] = phase]
      BY <1>16 DEF Route
    <3> QED
      BY <3>1
  <2> QED
    BY <1>16, <2>3, <2>4, <2>5 DEF Route
<1>17. ASSUME NEW t \in Turn, RouteUnscored(t) PROVE TypeOK'
  BY <1>17 DEF RouteUnscored
<1>18. ASSUME NEW t \in Turn, HandoffFind(t) PROVE TypeOK'
  <2>1. row \in Row
    BY <1>18 DEF HandoffFind
  <2>2. ActivateHandoff(row) \in Row
    BY <2>1, RowOperations
  <2>3. CASE HandedOff(row)
    BY <1>18, <2>3 DEF HandoffFind
  <2>4. CASE ~HandedOff(row)
    <3>1. side' = [side EXCEPT ![t] = ActivateHandoff(row)] /\ pc' = [pc EXCEPT ![t] = "handoffSave"]
      BY <1>18, <2>4 DEF HandoffFind
    <3>2. UNCHANGED <<row, lead, turnLock, routed, command, state, plan, request, history>>
      BY <1>18 DEF HandoffFind
    <3> QED
      BY <2>2, <3>1, <3>2
  <2> QED
    BY <2>3, <2>4
<1>19. ASSUME NEW t \in Turn, HandoffSave(t) PROVE TypeOK'
  BY <1>19, WriteTypes DEF HandoffSave
<1>20. ASSUME NEW t \in Turn, MoveLeadToColumn(t) PROVE TypeOK'
  BY <1>20, ZenonT(40) DEF MoveLeadToColumn, LeadBecomes, ColumnOrNone, Lead, Plan
<1>21. ASSUME NEW t \in Turn, SaveState(t) PROVE TypeOK'
  BY <1>21, WriteTypes DEF SaveState
<1>22. ASSUME NEW t \in Turn, Send(t) PROVE TypeOK'
  BY <1>22, ReturnTypes DEF Send
<1>23. ASSUME NEW t \in Turn, DbFails(t) PROVE TypeOK'
  BY <1>23, ReturnTypes DEF DbFails
<1>24. ASSUME NEW t \in Turn, SideCallFails(t) PROVE TypeOK'
  BY <1>24 DEF SideCallFails
<1>25. ASSUME NEW q \in Request, NEW k \in Kind, RequestFind(q, k) PROVE TypeOK'
  <2>1. row \in Row
    BY <1>25 DEF RequestFind
  <2>2. PICK r \in Row : request' = [request EXCEPT ![q] = [kind |-> k, stage |-> "save", copy |-> r]]
    BY <1>25, <2>1, RowOperations DEF RequestFind
  <2> QED
    BY <1>25, <2>2 DEF RequestFind
<1>26. ASSUME NEW q \in Request, RequestFindNone(q) PROVE TypeOK'
  BY <1>26 DEF RequestFindNone
<1>27. ASSUME NEW q \in Request, RequestSave(q) PROVE TypeOK'
  <2>1. request[q].copy \in Row
    BY <1>27 DEF RequestSave
  <2>2. row' \in Row /\ muted' \in [Turn -> BOOLEAN]
    BY <1>27, <2>1, WriteTypes DEF RequestSave
  <2>3. CASE request[q].kind = "reset"
    BY <1>27, <2>2, <2>3 DEF RequestSave
  <2>4. CASE request[q].kind # "reset"
    BY <1>27, <2>2, <2>4 DEF RequestSave, NoRequest
  <2> QED
    BY <2>3, <2>4
<1>28. ASSUME NEW q \in Request, RequestResetLead(q) PROVE TypeOK'
  BY <1>28, LeadResetTypes DEF RequestResetLead, NoRequest
<1>29. ASSUME NEW q \in Request, RequestFails(q) PROVE TypeOK'
  BY <1>29 DEF RequestFails, NoRequest
<1>30. CASE Crash
  BY <1>30 DEF Crash, NoRequest, NoPlan, Plan, ColumnOrNone
<1>31. CASE UNCHANGED vars
  BY <1>31 DEF vars
<1> HIDE DEF TypeOK, CopiesPresent, HoldsState, Phase, Goto, turnVars, history
<1>32. ASSUME NEW t \in Turn, TurnStep(t) PROVE TypeOK'
  BY <1>32, <1>2, <1>3, <1>4, <1>5, <1>6, <1>7, <1>8, <1>9, <1>10, <1>11, <1>12, <1>13,
     <1>14, <1>15, <1>16, <1>17, <1>18, <1>19, <1>20, <1>21, <1>22, <1>23, <1>24
     DEF TurnStep, Works, Resets, Loads, Generates, Commits
<1>33. ASSUME NEW q \in Request, RequestStep(q) PROVE TypeOK'
  BY <1>33, <1>25, <1>26, <1>27, <1>28, <1>29 DEF RequestStep
<1> QED
  BY <1>1, <1>30, <1>31, <1>32, <1>33 DEF Next

\* The lock is passed, held and released by one turn at a time.
LEMMA OneTurnNext == TypeOK /\ OneTurnAtATime /\ [Next]_vars => OneTurnAtATime'
<1> SUFFICES ASSUME TypeOK, OneTurnAtATime, [Next]_vars PROVE OneTurnAtATime'
  OBVIOUS
<1> USE DEF TypeOK, OneTurnAtATime, Running, Goto, turnVars, history
<1>1. ASSUME NEW t \in Turn, NEW s \in Specialist, NEW r \in BOOLEAN, Arrive(t, s, r) PROVE OneTurnAtATime'
  BY <1>1 DEF Arrive
<1>2. ASSUME NEW t \in Turn, Lock(t) PROVE OneTurnAtATime'
  BY <1>2 DEF Lock, Enter, LockFree
<1>3. ASSUME NEW t \in Turn, ResetFind(t) PROVE OneTurnAtATime'
  BY <1>3 DEF ResetFind
<1>4. ASSUME NEW t \in Turn, ResetSave(t) PROVE OneTurnAtATime'
  BY <1>4 DEF ResetSave
<1>5. ASSUME NEW t \in Turn, ResetLead(t) PROVE OneTurnAtATime'
  BY <1>5 DEF ResetLead, LeadReset, LeadBecomes, Return, Unlock
<1>6. ASSUME NEW t \in Turn, Find(t) PROVE OneTurnAtATime'
  BY <1>6 DEF Find, NewConversationState
<1>7. ASSUME NEW t \in Turn, Keep(t) PROVE OneTurnAtATime'
  <2>1. \/ Return(t)
        \/ UNCHANGED turnLock /\ pc' = [pc EXCEPT ![t] = "llm"]
    BY <1>7 DEF Keep
  <2>2. pc[t] = "heal"
    BY <1>7 DEF Keep
  <2>3. CASE Return(t)
    BY <2>2, <2>3 DEF Return, Unlock
  <2>4. CASE UNCHANGED turnLock /\ pc' = [pc EXCEPT ![t] = "llm"]
    BY <2>2, <2>4
  <2> QED
    BY <2>1, <2>3, <2>4
<1>8. ASSUME NEW t \in Turn, Heal(t) PROVE OneTurnAtATime'
  <2>1. \/ Return(t)
        \/ UNCHANGED turnLock /\ pc' = [pc EXCEPT ![t] = "llm"]
    BY <1>8 DEF Heal
  <2>2. pc[t] = "heal"
    BY <1>8 DEF Heal
  <2>3. CASE Return(t)
    BY <2>2, <2>3 DEF Return, Unlock
  <2>4. CASE UNCHANGED turnLock /\ pc' = [pc EXCEPT ![t] = "llm"]
    BY <2>2, <2>4
  <2> QED
    BY <2>1, <2>3, <2>4
<1>9. ASSUME NEW t \in Turn, NEW s \in Specialist, ToolFind(t, s) PROVE OneTurnAtATime'
  BY <1>9 DEF ToolFind
<1>10. ASSUME NEW t \in Turn, ToolSave(t) PROVE OneTurnAtATime'
  BY <1>10 DEF ToolSave
<1>11. ASSUME NEW t \in Turn, LeadTool(t) PROVE OneTurnAtATime'
  BY <1>11 DEF LeadTool
<1>12. ASSUME NEW t \in Turn, LlmFails(t) PROVE OneTurnAtATime'
  BY <1>12 DEF LlmFails, Return, Unlock
<1>13. ASSUME NEW t \in Turn, AnswerOnly(t) PROVE OneTurnAtATime'
  BY <1>13 DEF AnswerOnly
<1>14. ASSUME NEW t \in Turn, AnswerCompletes(t) PROVE OneTurnAtATime'
  BY <1>14 DEF AnswerCompletes
<1>15. ASSUME NEW t \in Turn, UpdateLeadScore(t) PROVE OneTurnAtATime'
  BY <1>15 DEF UpdateLeadScore, LeadBecomes
<1>16. ASSUME NEW t \in Turn, Route(t) PROVE OneTurnAtATime'
  BY <1>16 DEF Route, RouteTo, LeadBecomes
<1>17. ASSUME NEW t \in Turn, RouteUnscored(t) PROVE OneTurnAtATime'
  BY <1>17 DEF RouteUnscored
<1>18. ASSUME NEW t \in Turn, HandoffFind(t) PROVE OneTurnAtATime'
  BY <1>18, ZenonT(40) DEF HandoffFind
<1>19. ASSUME NEW t \in Turn, HandoffSave(t) PROVE OneTurnAtATime'
  BY <1>19 DEF HandoffSave
<1>20. ASSUME NEW t \in Turn, MoveLeadToColumn(t) PROVE OneTurnAtATime'
  BY <1>20 DEF MoveLeadToColumn, LeadBecomes
<1>21. ASSUME NEW t \in Turn, SaveState(t) PROVE OneTurnAtATime'
  BY <1>21 DEF SaveState
<1>22. ASSUME NEW t \in Turn, Send(t) PROVE OneTurnAtATime'
  BY <1>22 DEF Send, Return, Unlock
<1>23. ASSUME NEW t \in Turn, DbFails(t) PROVE OneTurnAtATime'
  BY <1>23 DEF DbFails, Return, Unlock
<1>24. ASSUME NEW t \in Turn, SideCallFails(t) PROVE OneTurnAtATime'
  BY <1>24 DEF SideCallFails
<1>25. ASSUME NEW q \in Request, NEW k \in Kind, RequestFind(q, k) PROVE OneTurnAtATime'
  BY <1>25 DEF RequestFind
<1>26. ASSUME NEW q \in Request, RequestFindNone(q) PROVE OneTurnAtATime'
  BY <1>26 DEF RequestFindNone
<1>27. ASSUME NEW q \in Request, RequestSave(q) PROVE OneTurnAtATime'
  BY <1>27 DEF RequestSave
<1>28. ASSUME NEW q \in Request, RequestResetLead(q) PROVE OneTurnAtATime'
  BY <1>28 DEF RequestResetLead, LeadReset, LeadBecomes
<1>29. ASSUME NEW q \in Request, RequestFails(q) PROVE OneTurnAtATime'
  BY <1>29 DEF RequestFails
<1>30. CASE Crash
  BY <1>30 DEF Crash
<1>31. CASE UNCHANGED vars
  BY <1>31 DEF vars
<1> HIDE DEF TypeOK, OneTurnAtATime, Running, Goto, turnVars, history
<1>32. ASSUME NEW t \in Turn, TurnStep(t) PROVE OneTurnAtATime'
  BY <1>32, <1>2, <1>3, <1>4, <1>5, <1>6, <1>7, <1>8, <1>9, <1>10, <1>11, <1>12, <1>13,
     <1>14, <1>15, <1>16, <1>17, <1>18, <1>19, <1>20, <1>21, <1>22, <1>23, <1>24
     DEF TurnStep, Works, Resets, Loads, Generates, Commits
<1>33. ASSUME NEW q \in Request, RequestStep(q) PROVE OneTurnAtATime'
  BY <1>33, <1>25, <1>26, <1>27, <1>28, <1>29 DEF RequestStep
<1> QED
  BY <1>1, <1>30, <1>31, <1>32, <1>33 DEF Next

\* A phase that needs a copy has read one.
LEMMA CopiesPresentNext == TypeOK /\ OneTurnAtATime /\ CopiesPresent /\ [Next]_vars => CopiesPresent'
<1> SUFFICES ASSUME TypeOK, OneTurnAtATime, CopiesPresent, [Next]_vars PROVE CopiesPresent'
  OBVIOUS
<1> USE DEF TypeOK, CopiesPresent, HoldsState, Goto, WriteRow, turnVars, history
<1>1. ASSUME NEW t \in Turn, NEW s \in Specialist, NEW r \in BOOLEAN, Arrive(t, s, r) PROVE CopiesPresent'
  BY <1>1 DEF Arrive
<1>2. ASSUME NEW t \in Turn, Lock(t) PROVE CopiesPresent'
  BY <1>2 DEF Lock, Enter
<1>3. ASSUME NEW t \in Turn, ResetFind(t) PROVE CopiesPresent'
  <2>1. CASE row = NoRow
    BY <1>3, <2>1 DEF ResetFind
  <2>2. CASE row # NoRow
    <3>1. PICK r \in Row : r = Reset(row)
      BY <2>2, RowOperations
    <3>2. state' = [state EXCEPT ![t] = r] /\ pc' = [pc EXCEPT ![t] = "resetSave"]
      BY <1>3, <2>2, <3>1 DEF ResetFind
    <3> QED
      BY <1>3, <2>2, <3>2 DEF ResetFind
  <2> QED
    BY <2>1, <2>2
<1>4. ASSUME NEW t \in Turn, ResetSave(t) PROVE CopiesPresent'
  BY <1>4 DEF ResetSave
<1>5. ASSUME NEW t \in Turn, ResetLead(t) PROVE CopiesPresent'
  BY <1>5 DEF ResetLead, LeadReset, LeadBecomes, Return
<1>6. ASSUME NEW t \in Turn, Find(t) PROVE CopiesPresent'
  <2>1. NewConversationState(routed[t]) \in Row
    BY DEF NewConversationState, Row
  <2>2. PICK r \in Row : row' = r /\ state' = [state EXCEPT ![t] = r]
    BY <1>6, <2>1 DEF Find
  <2> QED
    BY <1>6, <2>2 DEF Find
<1>7. ASSUME NEW t \in Turn, Keep(t) PROVE CopiesPresent'
  <2>1. CASE SkipsAI(state[t])
    <3>1. Return(t) /\ UNCHANGED <<row, lead, request, history>>
      BY <1>7, <2>1 DEF Keep
    <3> QED
      BY <3>1 DEF Return
  <2>2. CASE ~SkipsAI(state[t])
    BY <1>7, <2>2 DEF Keep
  <2> QED
    BY <2>1, <2>2
<1>8. ASSUME NEW t \in Turn, Heal(t) PROVE CopiesPresent'
  <2>1. PICK r \in Row : r = [state[t] EXCEPT !.specialist = routed[t]]
    BY <1>8, RowOperations DEF Heal
  <2>2. CASE SkipsAI(r)
    <3>1. Return(t) /\ WriteRow(r) /\ UNCHANGED <<lead, request>>
      BY <1>8, <2>1, <2>2 DEF Heal
    <3> QED
      BY <3>1 DEF Return
  <2>3. CASE ~SkipsAI(r)
    <3>1. state' = [state EXCEPT ![t] = r] /\ pc' = [pc EXCEPT ![t] = "llm"]
      BY <1>8, <2>1, <2>3 DEF Heal
    <3>2. UNCHANGED <<turnLock, routed, command, side, plan, lead, request>> /\ WriteRow(r)
      BY <1>8, <2>1, <2>3 DEF Heal
    <3> QED
      BY <1>8, <3>1, <3>2 DEF Heal
  <2> QED
    BY <2>2, <2>3
<1>9. ASSUME NEW t \in Turn, NEW s \in Specialist, ToolFind(t, s) PROVE CopiesPresent'
  <2>1. PICK r \in Row : r = [row EXCEPT !.specialist = s]
    BY <1>9, RowOperations DEF ToolFind
  <2>2. side' = [side EXCEPT ![t] = r]
    BY <1>9, <2>1 DEF ToolFind
  <2> QED
    BY <1>9, <2>2 DEF ToolFind
<1>10. ASSUME NEW t \in Turn, ToolSave(t) PROVE CopiesPresent'
  BY <1>10 DEF ToolSave
<1>11. ASSUME NEW t \in Turn, LeadTool(t) PROVE CopiesPresent'
  BY <1>11 DEF LeadTool
<1>12. ASSUME NEW t \in Turn, LlmFails(t) PROVE CopiesPresent'
  BY <1>12 DEF LlmFails, Return
<1>13. ASSUME NEW t \in Turn, AnswerOnly(t) PROVE CopiesPresent'
  BY <1>13 DEF AnswerOnly
<1>14. ASSUME NEW t \in Turn, AnswerCompletes(t) PROVE CopiesPresent'
  <2>1. state[t] \in Row /\ CurrentStep(t).score \in Int
    BY <1>14, CurrentStepType DEF AnswerCompletes
  <2>2. PICK r \in Row : state' = [state EXCEPT ![t] = r]
    BY <1>14, <2>1, RowOperations DEF AnswerCompletes
  <2> QED
    BY <1>14, <2>2 DEF AnswerCompletes
<1>15. ASSUME NEW t \in Turn, UpdateLeadScore(t) PROVE CopiesPresent'
  BY <1>15 DEF UpdateLeadScore, LeadBecomes
<1>16. ASSUME NEW t \in Turn, Route(t) PROVE CopiesPresent'
  BY <1>16 DEF Route, RouteTo, LeadBecomes
<1>17. ASSUME NEW t \in Turn, RouteUnscored(t) PROVE CopiesPresent'
  BY <1>17 DEF RouteUnscored
<1>18. ASSUME NEW t \in Turn, HandoffFind(t) PROVE CopiesPresent'
  <2>1. PICK r \in Row : r = ActivateHandoff(row)
    BY <1>18, RowOperations DEF HandoffFind
  <2>2. CASE HandedOff(row)
    BY <1>18, <2>2 DEF HandoffFind
  <2>3. CASE ~HandedOff(row)
    <3>1. side' = [side EXCEPT ![t] = r] /\ pc' = [pc EXCEPT ![t] = "handoffSave"]
      BY <1>18, <2>1, <2>3 DEF HandoffFind
    <3> QED
      BY <1>18, <3>1 DEF HandoffFind
  <2> QED
    BY <2>2, <2>3
<1>19. ASSUME NEW t \in Turn, HandoffSave(t) PROVE CopiesPresent'
  BY <1>19 DEF HandoffSave
<1>20. ASSUME NEW t \in Turn, MoveLeadToColumn(t) PROVE CopiesPresent'
  BY <1>20 DEF MoveLeadToColumn, LeadBecomes
<1>21. ASSUME NEW t \in Turn, SaveState(t) PROVE CopiesPresent'
  BY <1>21 DEF SaveState
<1>22. ASSUME NEW t \in Turn, Send(t) PROVE CopiesPresent'
  BY <1>22 DEF Send, Return
<1>23. ASSUME NEW t \in Turn, DbFails(t) PROVE CopiesPresent'
  BY <1>23 DEF DbFails, Return
<1>24. ASSUME NEW t \in Turn, SideCallFails(t) PROVE CopiesPresent'
  BY <1>24 DEF SideCallFails
<1>25. ASSUME NEW q \in Request, NEW k \in Kind, RequestFind(q, k) PROVE CopiesPresent'
  <2>1. row \in Row
    BY <1>25 DEF RequestFind
  <2>2. PICK r \in Row : request' = [request EXCEPT ![q] = [kind |-> k, stage |-> "save", copy |-> r]]
    BY <1>25, <2>1, RowOperations DEF RequestFind
  <2> QED
    BY <1>25, <2>1, <2>2 DEF RequestFind
<1>26. ASSUME NEW q \in Request, RequestFindNone(q) PROVE CopiesPresent'
  BY <1>26 DEF RequestFindNone
<1>27. ASSUME NEW q \in Request, RequestSave(q) PROVE CopiesPresent'
  BY <1>27 DEF RequestSave, NoRequest
<1>28. ASSUME NEW q \in Request, RequestResetLead(q) PROVE CopiesPresent'
  BY <1>28 DEF RequestResetLead, LeadReset, LeadBecomes, NoRequest
<1>29. ASSUME NEW q \in Request, RequestFails(q) PROVE CopiesPresent'
  BY <1>29 DEF RequestFails, NoRequest
<1>30. CASE Crash
  BY <1>30 DEF Crash, NoRequest
<1>31. CASE UNCHANGED vars
  BY <1>31 DEF vars
<1> HIDE DEF TypeOK, CopiesPresent, HoldsState, Goto, WriteRow, turnVars, history
<1>32. ASSUME NEW t \in Turn, TurnStep(t) PROVE CopiesPresent'
  BY <1>32, <1>2, <1>3, <1>4, <1>5, <1>6, <1>7, <1>8, <1>9, <1>10, <1>11, <1>12, <1>13,
     <1>14, <1>15, <1>16, <1>17, <1>18, <1>19, <1>20, <1>21, <1>22, <1>23, <1>24
     DEF TurnStep, Works, Resets, Loads, Generates, Commits
<1>33. ASSUME NEW q \in Request, RequestStep(q) PROVE CopiesPresent'
  BY <1>33, <1>25, <1>26, <1>27, <1>28, <1>29 DEF RequestStep
<1> QED
  BY <1>1, <1>30, <1>31, <1>32, <1>33 DEF Next

\* No operation on a row tears it.
LEMMA UntornOperations ==
  ASSUME NEW r \in Row, Untorn(r)
  PROVE  /\ Untorn(ActivateHandoff(r))
         /\ Untorn(DeactivateHandoff(r))
         /\ Untorn(Reset(r))
         /\ \A s \in Specialist : Untorn([r EXCEPT !.specialist = s])
         /\ \A n \in Int : Untorn(AdvanceStep(r, n))
<1>1. r.collected = 0 .. (r.step - 1) /\ r.step \in Nat
  BY DEF Untorn, Row
<1>2. /\ ActivateHandoff(r).step = r.step /\ ActivateHandoff(r).collected = r.collected
      /\ DeactivateHandoff(r).step = r.step /\ DeactivateHandoff(r).collected = r.collected
  BY DEF ActivateHandoff, DeactivateHandoff, Row
<1>3. Reset(r).step = 0 /\ Reset(r).collected = {}
  BY DEF Reset, Row
<1>4. \A s \in Specialist : [r EXCEPT !.specialist = s].step = r.step
                            /\ [r EXCEPT !.specialist = s].collected = r.collected
  BY DEF Row
<1>5. \A n \in Int : AdvanceStep(r, n).step = r.step + 1
                     /\ AdvanceStep(r, n).collected = r.collected \cup {r.step}
  BY DEF AdvanceStep, Row
<1>6. 0 .. (r.step - 1) \cup {r.step} = 0 .. ((r.step + 1) - 1)
  BY <1>1
<1>7. {} = 0 .. (0 - 1)
  OBVIOUS
<1> QED
  BY <1>1, <1>2, <1>3, <1>4, <1>5, <1>6, <1>7 DEF Untorn

\* A new conversation is not torn, and neither is what is not there.
LEMMA UntornNew ==
  Untorn(NoRow) /\ \A s \in Specialist : Untorn(NewConversationState(s))
<1>1. {} = 0 .. (0 - 1)
  OBVIOUS
<1> QED
  BY <1>1 DEF Untorn, NewConversationState

\* No write and no read tears a row.
LEMMA CopiesMatchNext == TypeOK /\ CopiesPresent /\ CopiesMatchStep /\ [Next]_vars => CopiesMatchStep'
<1> SUFFICES ASSUME TypeOK, CopiesPresent, CopiesMatchStep, [Next]_vars PROVE CopiesMatchStep'
  OBVIOUS
<1> USE DEF TypeOK, CopiesPresent, HoldsState, CopiesMatchStep, AnswersMatchStep, Goto, WriteRow, turnVars, history
<1>1. ASSUME NEW t \in Turn, NEW s \in Specialist, NEW r \in BOOLEAN, Arrive(t, s, r) PROVE CopiesMatchStep'
  BY <1>1 DEF Arrive
<1>2. ASSUME NEW t \in Turn, Lock(t) PROVE CopiesMatchStep'
  BY <1>2 DEF Lock, Enter
<1>3. ASSUME NEW t \in Turn, ResetFind(t) PROVE CopiesMatchStep'
  <2>1. CASE row = NoRow
    BY <1>3, <2>1 DEF ResetFind
  <2>2. CASE row # NoRow
    <3>1. PICK r \in Row : r = Reset(row) /\ Untorn(r)
      BY <2>2, RowOperations, UntornOperations
    <3>2. state' = [state EXCEPT ![t] = r]
      BY <1>3, <2>2, <3>1 DEF ResetFind
    <3> QED
      BY <1>3, <3>1, <3>2 DEF ResetFind
  <2> QED
    BY <2>1, <2>2
<1>4. ASSUME NEW t \in Turn, ResetSave(t) PROVE CopiesMatchStep'
  BY <1>4 DEF ResetSave
<1>5. ASSUME NEW t \in Turn, ResetLead(t) PROVE CopiesMatchStep'
  BY <1>5, UntornNew DEF ResetLead, LeadReset, LeadBecomes, Return
<1>6. ASSUME NEW t \in Turn, Find(t) PROVE CopiesMatchStep'
  <2>1. PICK r : Untorn(r) /\ row' = r /\ state' = [state EXCEPT ![t] = r]
    BY <1>6, UntornNew DEF Find
  <2> QED
    BY <1>6, <2>1 DEF Find
<1>7. ASSUME NEW t \in Turn, Keep(t) PROVE CopiesMatchStep'
  <2>1. CASE SkipsAI(state[t])
    <3>1. Return(t) /\ UNCHANGED <<row, lead, request, history>>
      BY <1>7, <2>1 DEF Keep
    <3> QED
      BY <3>1, UntornNew DEF Return
  <2>2. CASE ~SkipsAI(state[t])
    BY <1>7, <2>2 DEF Keep
  <2> QED
    BY <2>1, <2>2
<1>8. ASSUME NEW t \in Turn, Heal(t) PROVE CopiesMatchStep'
  <2>1. PICK r \in Row : r = [state[t] EXCEPT !.specialist = routed[t]]
    BY <1>8, RowOperations DEF Heal
  <2>5. Untorn(r)
    BY <1>8, <2>1, UntornOperations DEF Heal
  <2>2. CASE SkipsAI(r)
    <3>1. Return(t) /\ WriteRow(r) /\ UNCHANGED <<lead, request>>
      BY <1>8, <2>1, <2>2 DEF Heal
    <3> QED
      BY <2>5, <3>1, UntornNew DEF Return
  <2>3. CASE ~SkipsAI(r)
    <3>1. state' = [state EXCEPT ![t] = r] /\ pc' = [pc EXCEPT ![t] = "llm"]
      BY <1>8, <2>1, <2>3 DEF Heal
    <3>2. UNCHANGED <<turnLock, routed, command, side, plan, lead, request>> /\ WriteRow(r)
      BY <1>8, <2>1, <2>3 DEF Heal
    <3> QED
      BY <1>8, <2>5, <3>1, <3>2 DEF Heal
  <2> QED
    BY <2>2, <2>3
<1>9. ASSUME NEW t \in Turn, NEW s \in Specialist, ToolFind(t, s) PROVE CopiesMatchStep'
  <2>1. PICK r \in Row : r = [row EXCEPT !.specialist = s] /\ Untorn(r)
    BY <1>9, RowOperations, UntornOperations DEF ToolFind
  <2>2. side' = [side EXCEPT ![t] = r]
    BY <1>9, <2>1 DEF ToolFind
  <2> QED
    BY <1>9, <2>1, <2>2 DEF ToolFind
<1>10. ASSUME NEW t \in Turn, ToolSave(t) PROVE CopiesMatchStep'
  BY <1>10, UntornNew DEF ToolSave
<1>11. ASSUME NEW t \in Turn, LeadTool(t) PROVE CopiesMatchStep'
  BY <1>11 DEF LeadTool
<1>12. ASSUME NEW t \in Turn, LlmFails(t) PROVE CopiesMatchStep'
  BY <1>12, UntornNew DEF LlmFails, Return
<1>13. ASSUME NEW t \in Turn, AnswerOnly(t) PROVE CopiesMatchStep'
  BY <1>13 DEF AnswerOnly
<1>14. ASSUME NEW t \in Turn, AnswerCompletes(t) PROVE CopiesMatchStep'
  <2>1. state[t] \in Row /\ CurrentStep(t).score \in Int
    BY <1>14, CurrentStepType DEF AnswerCompletes
  <2>2. PICK n \in Int : state' = [state EXCEPT ![t] = AdvanceStep(state[t], n)]
    BY <1>14, <2>1 DEF AnswerCompletes
  <2>3. Untorn(state[t])
    OBVIOUS
  <2>4. PICK r : state' = [state EXCEPT ![t] = r] /\ Untorn(r)
    BY <2>1, <2>2, <2>3, UntornOperations
  <2> QED
    BY <1>14, <2>4 DEF AnswerCompletes
<1>15. ASSUME NEW t \in Turn, UpdateLeadScore(t) PROVE CopiesMatchStep'
  BY <1>15 DEF UpdateLeadScore, LeadBecomes
<1>16. ASSUME NEW t \in Turn, Route(t) PROVE CopiesMatchStep'
  BY <1>16 DEF Route, RouteTo, LeadBecomes
<1>17. ASSUME NEW t \in Turn, RouteUnscored(t) PROVE CopiesMatchStep'
  BY <1>17 DEF RouteUnscored
<1>18. ASSUME NEW t \in Turn, HandoffFind(t) PROVE CopiesMatchStep'
  <2>1. PICK r \in Row : r = ActivateHandoff(row) /\ Untorn(r)
    BY <1>18, RowOperations, UntornOperations DEF HandoffFind
  <2>2. CASE HandedOff(row)
    BY <1>18, <2>2 DEF HandoffFind
  <2>3. CASE ~HandedOff(row)
    <3>1. side' = [side EXCEPT ![t] = r]
      BY <1>18, <2>1, <2>3 DEF HandoffFind
    <3> QED
      BY <1>18, <2>1, <3>1 DEF HandoffFind
  <2> QED
    BY <2>2, <2>3
<1>19. ASSUME NEW t \in Turn, HandoffSave(t) PROVE CopiesMatchStep'
  BY <1>19, UntornNew DEF HandoffSave
<1>20. ASSUME NEW t \in Turn, MoveLeadToColumn(t) PROVE CopiesMatchStep'
  BY <1>20 DEF MoveLeadToColumn, LeadBecomes
<1>21. ASSUME NEW t \in Turn, SaveState(t) PROVE CopiesMatchStep'
  BY <1>21 DEF SaveState
<1>22. ASSUME NEW t \in Turn, Send(t) PROVE CopiesMatchStep'
  BY <1>22, UntornNew DEF Send, Return
<1>23. ASSUME NEW t \in Turn, DbFails(t) PROVE CopiesMatchStep'
  BY <1>23, UntornNew DEF DbFails, Return
<1>24. ASSUME NEW t \in Turn, SideCallFails(t) PROVE CopiesMatchStep'
  BY <1>24, UntornNew DEF SideCallFails
<1>25. ASSUME NEW q \in Request, NEW k \in Kind, RequestFind(q, k) PROVE CopiesMatchStep'
  <2>1. row \in Row
    BY <1>25 DEF RequestFind
  <2>2. PICK r \in Row : /\ request' = [request EXCEPT ![q] = [kind |-> k, stage |-> "save", copy |-> r]]
                         /\ Untorn(r)
    BY <1>25, <2>1, RowOperations, UntornOperations DEF RequestFind
  <2> QED
    BY <1>25, <2>2 DEF RequestFind
<1>26. ASSUME NEW q \in Request, RequestFindNone(q) PROVE CopiesMatchStep'
  BY <1>26, UntornNew DEF RequestFindNone
<1>27. ASSUME NEW q \in Request, RequestSave(q) PROVE CopiesMatchStep'
  BY <1>27, UntornNew DEF RequestSave, NoRequest
<1>28. ASSUME NEW q \in Request, RequestResetLead(q) PROVE CopiesMatchStep'
  BY <1>28, UntornNew DEF RequestResetLead, LeadReset, LeadBecomes, NoRequest
<1>29. ASSUME NEW q \in Request, RequestFails(q) PROVE CopiesMatchStep'
  BY <1>29, UntornNew DEF RequestFails, NoRequest
<1>30. CASE Crash
  BY <1>30, UntornNew DEF Crash, NoRequest
<1>31. CASE UNCHANGED vars
  BY <1>31 DEF vars
<1> HIDE DEF TypeOK, CopiesPresent, HoldsState, CopiesMatchStep, AnswersMatchStep, Goto, WriteRow, turnVars, history
<1>32. ASSUME NEW t \in Turn, TurnStep(t) PROVE CopiesMatchStep'
  BY <1>32, <1>2, <1>3, <1>4, <1>5, <1>6, <1>7, <1>8, <1>9, <1>10, <1>11, <1>12, <1>13,
     <1>14, <1>15, <1>16, <1>17, <1>18, <1>19, <1>20, <1>21, <1>22, <1>23, <1>24
     DEF TurnStep, Works, Resets, Loads, Generates, Commits
<1>33. ASSUME NEW q \in Request, RequestStep(q) PROVE CopiesMatchStep'
  BY <1>33, <1>25, <1>26, <1>27, <1>28, <1>29 DEF RequestStep
<1> QED
  BY <1>1, <1>30, <1>31, <1>32, <1>33 DEF Next

\* Who answers a message has seen that no human owns it.
LEMMA MutedNext == TypeOK /\ CopiesPresent /\ MuteSeen /\ HumanIsNotInterrupted /\ [Next]_vars => (MuteSeen /\ HumanIsNotInterrupted)'
<1> SUFFICES ASSUME TypeOK, CopiesPresent, MuteSeen, HumanIsNotInterrupted, [Next]_vars PROVE (MuteSeen /\ HumanIsNotInterrupted)'
  OBVIOUS
<1> USE DEF TypeOK, CopiesPresent, HoldsState, MuteSeen, HumanIsNotInterrupted, Generating, Running, Goto, WriteRow, turnVars, history
<1>1. ASSUME NEW t \in Turn, NEW s \in Specialist, NEW r \in BOOLEAN, Arrive(t, s, r) PROVE (MuteSeen /\ HumanIsNotInterrupted)'
  BY <1>1 DEF Arrive
<1>2. ASSUME NEW t \in Turn, Lock(t) PROVE (MuteSeen /\ HumanIsNotInterrupted)'
  BY <1>2 DEF Lock, Enter, LockFree
<1>3. ASSUME NEW t \in Turn, ResetFind(t) PROVE (MuteSeen /\ HumanIsNotInterrupted)'
  BY <1>3, ZenonT(40) DEF ResetFind
<1>4. ASSUME NEW t \in Turn, ResetSave(t) PROVE (MuteSeen /\ HumanIsNotInterrupted)'
  BY <1>4 DEF ResetSave
<1>5. ASSUME NEW t \in Turn, ResetLead(t) PROVE (MuteSeen /\ HumanIsNotInterrupted)'
  BY <1>5 DEF ResetLead, LeadReset, LeadBecomes, Return, SkipsAI
<1>6. ASSUME NEW t \in Turn, Find(t) PROVE (MuteSeen /\ HumanIsNotInterrupted)'
  <2>1. NewConversationState(routed[t]) \in Row
    BY DEF NewConversationState, Row
  <2>2. PICK r \in Row : WriteRow(r) /\ state' = [state EXCEPT ![t] = r]
    BY <1>6, <2>1 DEF Find
  <2>3. \A u \in Turn : muted'[u] => muted[u] /\ r.handoff
    BY <2>2 DEF HandedOff
  <2>4. pc' = [pc EXCEPT ![t] = "heal"]
    BY <1>6 DEF Find
  <2> QED
    BY <2>2, <2>3, <2>4
<1>7. ASSUME NEW t \in Turn, Keep(t) PROVE (MuteSeen /\ HumanIsNotInterrupted)'
  <2>1. CASE SkipsAI(state[t])
    <3>1. Return(t) /\ UNCHANGED <<row, lead, request, history>>
      BY <1>7, <2>1 DEF Keep, SkipsAI
    <3> QED
      BY <3>1 DEF Return
  <2>2. CASE ~SkipsAI(state[t])
    BY <1>7, <2>2 DEF Keep, SkipsAI
  <2> QED
    BY <2>1, <2>2
<1>8. ASSUME NEW t \in Turn, Heal(t) PROVE (MuteSeen /\ HumanIsNotInterrupted)'
  <2>1. PICK r \in Row : r = [state[t] EXCEPT !.specialist = routed[t]]
    BY <1>8, RowOperations, ZenonT(40) DEF Heal
  <2>4. r.handoff = state[t].handoff
    BY <1>8, <2>1 DEF Heal, Row
  <2>2. CASE SkipsAI(r)
    <3>1. Return(t) /\ WriteRow(r) /\ UNCHANGED <<lead, request>>
      BY <1>8, <2>1, <2>2 DEF Heal
    <3> QED
      BY <3>1 DEF Return
  <2>3. CASE ~SkipsAI(r)
    <3>1. state' = [state EXCEPT ![t] = r] /\ pc' = [pc EXCEPT ![t] = "llm"]
      BY <1>8, <2>1, <2>3 DEF Heal
    <3>2. UNCHANGED <<turnLock, routed, command, side, plan, lead, request>> /\ WriteRow(r)
      BY <1>8, <2>1, <2>3 DEF Heal
    <3> QED
      BY <1>8, <2>3, <2>4, <3>1, <3>2 DEF Heal, SkipsAI
  <2> QED
    BY <2>2, <2>3
<1>9. ASSUME NEW t \in Turn, NEW s \in Specialist, ToolFind(t, s) PROVE (MuteSeen /\ HumanIsNotInterrupted)'
  BY <1>9 DEF ToolFind
<1>10. ASSUME NEW t \in Turn, ToolSave(t) PROVE (MuteSeen /\ HumanIsNotInterrupted)'
  BY <1>10 DEF ToolSave
<1>11. ASSUME NEW t \in Turn, LeadTool(t) PROVE (MuteSeen /\ HumanIsNotInterrupted)'
  BY <1>11 DEF LeadTool
<1>12. ASSUME NEW t \in Turn, LlmFails(t) PROVE (MuteSeen /\ HumanIsNotInterrupted)'
  BY <1>12 DEF LlmFails, Return, SkipsAI
<1>13. ASSUME NEW t \in Turn, AnswerOnly(t) PROVE (MuteSeen /\ HumanIsNotInterrupted)'
  BY <1>13 DEF AnswerOnly
<1>14. ASSUME NEW t \in Turn, AnswerCompletes(t) PROVE (MuteSeen /\ HumanIsNotInterrupted)'
  BY <1>14 DEF AnswerCompletes
<1>15. ASSUME NEW t \in Turn, UpdateLeadScore(t) PROVE (MuteSeen /\ HumanIsNotInterrupted)'
  BY <1>15 DEF UpdateLeadScore, LeadBecomes
<1>16. ASSUME NEW t \in Turn, Route(t) PROVE (MuteSeen /\ HumanIsNotInterrupted)'
  BY <1>16 DEF Route, RouteTo, LeadBecomes
<1>17. ASSUME NEW t \in Turn, RouteUnscored(t) PROVE (MuteSeen /\ HumanIsNotInterrupted)'
  BY <1>17 DEF RouteUnscored
<1>18. ASSUME NEW t \in Turn, HandoffFind(t) PROVE (MuteSeen /\ HumanIsNotInterrupted)'
  BY <1>18, ZenonT(40) DEF HandoffFind
<1>19. ASSUME NEW t \in Turn, HandoffSave(t) PROVE (MuteSeen /\ HumanIsNotInterrupted)'
  BY <1>19 DEF HandoffSave
<1>20. ASSUME NEW t \in Turn, MoveLeadToColumn(t) PROVE (MuteSeen /\ HumanIsNotInterrupted)'
  BY <1>20 DEF MoveLeadToColumn, LeadBecomes
<1>21. ASSUME NEW t \in Turn, SaveState(t) PROVE (MuteSeen /\ HumanIsNotInterrupted)'
  BY <1>21 DEF SaveState
<1>22. ASSUME NEW t \in Turn, Send(t) PROVE (MuteSeen /\ HumanIsNotInterrupted)'
  BY <1>22 DEF Send, Return, SkipsAI
<1>23. ASSUME NEW t \in Turn, DbFails(t) PROVE (MuteSeen /\ HumanIsNotInterrupted)'
  BY <1>23 DEF DbFails, Return, SkipsAI
<1>24. ASSUME NEW t \in Turn, SideCallFails(t) PROVE (MuteSeen /\ HumanIsNotInterrupted)'
  BY <1>24 DEF SideCallFails
<1>25. ASSUME NEW q \in Request, NEW k \in Kind, RequestFind(q, k) PROVE (MuteSeen /\ HumanIsNotInterrupted)'
  BY <1>25 DEF RequestFind
<1>26. ASSUME NEW q \in Request, RequestFindNone(q) PROVE (MuteSeen /\ HumanIsNotInterrupted)'
  BY <1>26 DEF RequestFindNone
<1>27. ASSUME NEW q \in Request, RequestSave(q) PROVE (MuteSeen /\ HumanIsNotInterrupted)'
  BY <1>27 DEF RequestSave
<1>28. ASSUME NEW q \in Request, RequestResetLead(q) PROVE (MuteSeen /\ HumanIsNotInterrupted)'
  BY <1>28 DEF RequestResetLead, LeadReset, LeadBecomes
<1>29. ASSUME NEW q \in Request, RequestFails(q) PROVE (MuteSeen /\ HumanIsNotInterrupted)'
  BY <1>29 DEF RequestFails
<1>30. CASE Crash
  BY <1>30 DEF Crash
<1>31. CASE UNCHANGED vars
  BY <1>31 DEF vars
<1> HIDE DEF TypeOK, CopiesPresent, HoldsState, MuteSeen, HumanIsNotInterrupted, Generating, Running, Goto, WriteRow, turnVars, history
<1>32. ASSUME NEW t \in Turn, TurnStep(t) PROVE (MuteSeen /\ HumanIsNotInterrupted)'
  BY <1>32, <1>2, <1>3, <1>4, <1>5, <1>6, <1>7, <1>8, <1>9, <1>10, <1>11, <1>12, <1>13,
     <1>14, <1>15, <1>16, <1>17, <1>18, <1>19, <1>20, <1>21, <1>22, <1>23, <1>24
     DEF TurnStep, Works, Resets, Loads, Generates, Commits
<1>33. ASSUME NEW q \in Request, RequestStep(q) PROVE (MuteSeen /\ HumanIsNotInterrupted)'
  BY <1>33, <1>25, <1>26, <1>27, <1>28, <1>29 DEF RequestStep
<1> QED
  BY <1>1, <1>30, <1>31, <1>32, <1>33 DEF Next

\* Every action keeps the invariant.
LEMMA TurnInvariantNext == TurnInvariant /\ [Next]_vars => TurnInvariant'
<1> SUFFICES ASSUME TurnInvariant, [Next]_vars PROVE TurnInvariant'
  OBVIOUS
<1>1. TypeOK /\ OneTurnAtATime /\ CopiesPresent /\ CopiesMatchStep /\ MuteSeen /\ HumanIsNotInterrupted
  BY DEF TurnInvariant
<1>2. TypeOK' /\ OneTurnAtATime' /\ CopiesPresent' /\ CopiesMatchStep'
  BY <1>1, TypeNext, OneTurnNext, CopiesPresentNext, CopiesMatchNext
<1>3. MuteSeen' /\ HumanIsNotInterrupted'
  BY <1>1, MutedNext
<1> QED
  BY <1>2, <1>3 DEF TurnInvariant

\* The invariant holds of every behaviour: types, the turn lock's exclusion,
\* the copies of the row and what a turn has seen of the handoff.
THEOREM TurnInvariantHolds == Spec => []TurnInvariant
<1> QED
  BY InitTurnInvariant, TurnInvariantNext, PTL DEF Spec

\* At most one turn of the conversation is past its lock, whatever fails.
THEOREM OneTurnAtATimeHolds == Spec => []OneTurnAtATime
<1>1. TurnInvariant => OneTurnAtATime
  BY DEF TurnInvariant
<1> QED
  BY <1>1, TurnInvariantHolds, PTL

\* The row always has an answer for exactly the steps that are done, although
\* requests and turns overwrite each other's whole rows.
THEOREM AnswersMatchStepHolds == Spec => []AnswersMatchStep
<1>1. TurnInvariant => AnswersMatchStep
  BY DEF TurnInvariant, CopiesMatchStep
<1> QED
  BY <1>1, TurnInvariantHolds, PTL

\* The model never answers a message that a human has owned since it came.
THEOREM HumanIsNotInterruptedHolds == Spec => []HumanIsNotInterrupted
<1>1. TurnInvariant => HumanIsNotInterrupted
  BY DEF TurnInvariant
<1> QED
  BY <1>1, TurnInvariantHolds, PTL
-----------------------------------------------------------------------------
(* Turns alone on the row: they implement the serial conversation.            *)

\* A turn that moves while no other runs is the only one with copies.
LEMMA FreshOfOne ==
  ASSUME TypeOK, OneTurnAtATime, NEW t \in Turn, turnLock \in {t, NoTurn},
         \A u \in Turn \ {t} : pc'[u] = pc[u], Fresh(t)'
  PROVE  CopiesFresh'
<1>1. ASSUME NEW u \in Turn, u # t PROVE pc'[u] \in {"idle", "queued"}
  BY <1>1 DEF OneTurnAtATime, Running
<1>2. ASSUME NEW u \in Turn, u # t PROVE Fresh(u)'
  BY <1>1, <1>2 DEF Fresh, Before, After
<1> QED
  BY <1>2 DEF CopiesFresh

\* The score of a turn's current step is one that a step may be worth.
LEMMA CurrentStepWorth ==
  ASSUME TypeOK, NEW t \in Turn, state[t] # NoRow, HasStep(t)
  PROVE  CurrentStep(t).score \in Worth
<1>1. PICK s \in Specialist : s = state[t].specialist
  BY DEF TypeOK, Row
<1>2. PICK n \in Nat : n = state[t].step
  BY DEF TypeOK, Row
<1>3. Steps[s] \in Seq(Step)
  OBVIOUS
<1>4. n + 1 \in 1 .. Len(Steps[s])
  BY <1>1, <1>2, <1>3 DEF HasStep
<1>5. CurrentStep(t).score = Steps[s][n + 1].score
  BY <1>1, <1>2 DEF CurrentStep
<1>6. Steps[s][n + 1].score \in StepScores
  BY <1>4 DEF StepScores
<1> QED
  BY <1>5, <1>6 DEF Worth

\* A completed step puts the copy one step on.
LEMMA AdvanceIsOneOn ==
  ASSUME NEW r \in Row, NEW n \in Worth
  PROVE  OneStepOn(AdvanceStep(r, n), r)
<1>1. AdvanceStep(r, n).step = r.step + 1 /\ AdvanceStep(r, n).score = r.score + n
  BY DEF AdvanceStep, Row
<1> QED
  BY <1>1 DEF OneStepOn

\* A returned turn has nothing to say about the row.
LEMMA ReturnedFresh ==
  ASSUME TypeOK, NEW t \in Turn, Return(t)
  PROVE  Fresh(t)' /\ \A u \in Turn \ {t} : pc'[u] = pc[u]
BY DEF TypeOK, Return, Goto, Fresh, Before, After

\* A turn that goes to a phase with the copies the phase asks for.
LEMMA FreshMove ==
  ASSUME TypeOK, NEW t \in Turn, NEW phase \in Phase, Goto(t, phase),
         phase \in Before => SameProgress(state'[t], row'),
         phase \in After => SameProgress(state'[t], row') \/ OneStepOn(state'[t], row'),
         phase \in {"toolSave", "handoffSave"} => SameProgress(side'[t], row'),
         phase = "resetSave" => state'[t].step = 0 /\ state'[t].score = 0
  PROVE  Fresh(t)' /\ \A u \in Turn \ {t} : pc'[u] = pc[u]
<1>1. pc'[t] = phase /\ \A u \in Turn \ {t} : pc'[u] = pc[u]
  BY DEF Goto, TypeOK
<1> QED
  BY <1>1 DEF Fresh

\* Changing the specialist or the handoff is no progress.
LEMMA SameOperations ==
  ASSUME NEW r \in Row
  PROVE  /\ SameProgress(r, r) /\ SameProgress(ActivateHandoff(r), r)
         /\ \A s \in Specialist : SameProgress([r EXCEPT !.specialist = s], r)
         /\ Reset(r).step = 0 /\ Reset(r).score = 0
BY DEF SameProgress, ActivateHandoff, Reset, Row

\* Progress is compared by equality.
LEMMA SameIsEqual ==
  /\ \A r, q, p : SameProgress(r, q) /\ SameProgress(p, q) => SameProgress(r, p)
  /\ \A r, q, p : OneStepOn(r, q) /\ SameProgress(p, q) => OneStepOn(r, p)
  /\ \A r, q, p : OneStepOn(r, q) /\ SameProgress(q, p) => OneStepOn(r, p)
  /\ \A r, q : SameProgress(r, q) => SameProgress(q, r)
BY DEF SameProgress, OneStepOn

\* Every step of a turn that runs alone keeps its copies fresh.
LEMMA FreshStep ==
  ASSUME TurnInvariant, CopiesFresh, NEW t \in Turn, TurnStep(t)
  PROVE  CopiesFresh'
<1>0. TypeOK /\ OneTurnAtATime /\ CopiesPresent
  BY DEF TurnInvariant
<1>a. /\ pc[t] \in Before => SameProgress(state[t], row)
      /\ pc[t] \in After => SameProgress(state[t], row) \/ OneStepOn(state[t], row)
      /\ pc[t] \in {"toolSave", "handoffSave"} => SameProgress(side[t], row)
      /\ pc[t] = "resetSave" => state[t].step = 0 /\ state[t].score = 0
  BY DEF CopiesFresh, Fresh
<1>b. /\ pc[t] \in HoldsState => row \in Row /\ state[t] \in Row
      /\ pc[t] \in {"toolSave", "handoffSave"} => side[t] \in Row
      /\ row # NoRow => row \in Row
      /\ routed[t] \in Specialist
      /\ pc \in [Turn -> Phase] /\ state \in [Turn -> Row \cup {NoRow}] /\ side \in [Turn -> Row \cup {NoRow}]
  BY <1>0 DEF TypeOK, CopiesPresent
<1> DEFINE Goal == Fresh(t)' /\ \A u \in Turn \ {t} : pc'[u] = pc[u]
<1> HIDE DEF Goal
<1> USE DEF Before, After, HoldsState, Phase
<1>m. ASSUME NEW phase \in Phase, Goto(t, phase),
             phase \in Before => SameProgress(state'[t], row'),
             phase \in After => SameProgress(state'[t], row') \/ OneStepOn(state'[t], row'),
             phase \in {"toolSave", "handoffSave"} => SameProgress(side'[t], row'),
             phase = "resetSave" => state'[t].step = 0 /\ state'[t].score = 0
      PROVE  Goal
  <2> HIDE DEF Before, After, HoldsState, Phase
  <2> QED
    BY <1>0, <1>m, FreshMove DEF Goal
<1>r. Return(t) => Goal
  BY <1>0, ReturnedFresh DEF Goal
<1>1. CASE Lock(t)
  <2>1. turnLock = NoTurn
    BY <1>1 DEF Lock, Enter, LockFree
  <2>2. PICK phase \in {"resetFind", "find"} : Goto(t, phase)
    BY <1>1 DEF Lock, Enter
  <2>3. Goal
    BY <1>m, <2>2
  <2> QED
    BY <1>0, <2>1, <2>3, FreshOfOne DEF Goal
<1>2. ASSUME ~Lock(t) PROVE turnLock = t
  <2>1. Running(t)
    BY <1>2 DEF TurnStep, Works, Resets, ResetFind, ResetSave, ResetLead, Loads, Find, Keep, Heal, Generates, ToolFind,
       ToolSave, LeadTool, LlmFails, AnswerOnly, AnswerCompletes, Commits, UpdateLeadScore, Route, RouteUnscored,
       HandoffFind, HandoffSave, MoveLeadToColumn, SaveState, Send, DbFails, SideCallFails, Running
  <2> QED
    BY <1>0, <2>1 DEF OneTurnAtATime
<1>3. ASSUME ResetFind(t) PROVE Goal
  <2>1. CASE row = NoRow
    <3>1. Goto(t, "resetLead")
      BY <1>3, <2>1 DEF ResetFind
    <3> QED
      BY <1>m, <3>1
  <2>2. CASE row # NoRow
    <3>1. Goto(t, "resetSave") /\ state' = [state EXCEPT ![t] = Reset(row)]
      BY <1>3, <2>2 DEF ResetFind
    <3>2. state'[t].step = 0 /\ state'[t].score = 0
      BY <1>b, <2>2, <3>1, SameOperations
    <3> QED
      BY <1>m, <3>1, <3>2
  <2> QED
    BY <2>1, <2>2
<1>4. ASSUME ResetSave(t) PROVE Goal
  <2>1. Goto(t, "resetLead")
    BY <1>4 DEF ResetSave
  <2> QED
    BY <1>m, <2>1
<1>5. ASSUME ResetLead(t) PROVE Goal
  BY <1>5, <1>r DEF ResetLead
<1>6. ASSUME Find(t) PROVE Goal
  <2>1. PICK r : row' = r /\ state' = [state EXCEPT ![t] = r] /\ Goto(t, "heal")
    BY <1>6 DEF Find, WriteRow
  <2>2. SameProgress(state'[t], row')
    BY <1>b, <2>1 DEF SameProgress
  <2> QED
    BY <1>m, <2>1, <2>2
<1>7. ASSUME Keep(t) PROVE Goal
  <2>1. \/ Return(t)
        \/ Goto(t, "llm") /\ UNCHANGED <<row, state>>
    BY <1>7 DEF Keep
  <2>2. pc[t] = "heal"
    BY <1>7 DEF Keep
  <2> QED
    BY <1>a, <1>m, <1>r, <2>1, <2>2
<1>8. ASSUME Heal(t) PROVE Goal
  <2> DEFINE r == [state[t] EXCEPT !.specialist = routed[t]]
  <2>1. \/ Return(t)
        \/ Goto(t, "llm") /\ state' = [state EXCEPT ![t] = r] /\ row' = r
    BY <1>8 DEF Heal, WriteRow
  <2>2. state' = [state EXCEPT ![t] = r] /\ row' = r => SameProgress(state'[t], row')
    BY <1>b DEF SameProgress
  <2> QED
    BY <1>m, <1>r, <2>1, <2>2
<1>9. ASSUME NEW s \in Specialist, ToolFind(t, s) PROVE Goal
  <2>1. /\ pc[t] = "llm" /\ Goto(t, "toolSave") /\ UNCHANGED <<row, state>>
        /\ side' = [side EXCEPT ![t] = [row EXCEPT !.specialist = s]]
    BY <1>9 DEF ToolFind
  <2>2. side'[t] = [row EXCEPT !.specialist = s]
    BY <1>b, <2>1
  <2>3. SameProgress(side'[t], row') /\ SameProgress(state'[t], row')
    BY <1>a, <1>b, <2>1, <2>2, SameOperations
  <2> QED
    BY <1>m, <2>1, <2>3
<1>10. ASSUME ToolSave(t) PROVE Goal
  <2>1. pc[t] = "toolSave" /\ Goto(t, "llm") /\ row' = side[t] /\ UNCHANGED state
    BY <1>10 DEF ToolSave, WriteRow
  <2>2. SameProgress(state'[t], row')
    BY <1>a, <2>1, SameIsEqual
  <2> QED
    BY <1>m, <2>1, <2>2
<1>11. ASSUME LeadTool(t) PROVE Goal
  <2>1. pc[t] = "llm" /\ UNCHANGED <<pc, row, state>>
    BY <1>11 DEF LeadTool, turnVars
  <2>2. Goto(t, "llm")
    BY <1>b, <2>1 DEF Goto
  <2> QED
    BY <1>a, <1>m, <2>1, <2>2
<1>12. ASSUME LlmFails(t) PROVE Goal
  BY <1>12, <1>r DEF LlmFails
<1>13. ASSUME AnswerOnly(t) PROVE Goal
  <2>1. pc[t] = "llm" /\ Goto(t, "save") /\ UNCHANGED <<row, state>>
    BY <1>13 DEF AnswerOnly
  <2> QED
    BY <1>a, <1>m, <2>1
<1>14. ASSUME AnswerCompletes(t) PROVE Goal
  <2>1. pc[t] = "llm" /\ Goto(t, "score") /\ UNCHANGED row /\ HasStep(t)
    BY <1>14 DEF AnswerCompletes
  <2>2. PICK n \in LlmScores \cup {CurrentStep(t).score} : state' = [state EXCEPT ![t] = AdvanceStep(@, n)]
    BY <1>14 DEF AnswerCompletes
  <2>3. n \in Worth
    BY <1>0, <1>b, <2>1, <2>2, CurrentStepWorth, NoRowAssumption DEF Worth
  <2>4. state'[t] = AdvanceStep(state[t], n)
    BY <1>b, <2>2
  <2>5. OneStepOn(state'[t], state[t])
    BY <1>b, <2>1, <2>3, <2>4, AdvanceIsOneOn
  <2>6. OneStepOn(state'[t], row')
    BY <1>a, <2>1, <2>5, SameIsEqual
  <2> QED
    BY <1>m, <2>1, <2>6
<1>15. ASSUME UpdateLeadScore(t) PROVE Goal
  <2>1. pc[t] = "score" /\ Goto(t, "route") /\ UNCHANGED <<row, state>>
    BY <1>15 DEF UpdateLeadScore
  <2> QED
    BY <1>a, <1>m, <2>1
<1>16. ASSUME Route(t) \/ RouteUnscored(t) PROVE Goal
  <2>1. pc[t] = "route" /\ UNCHANGED <<row, state>>
    BY <1>16 DEF Route, RouteUnscored
  <2>2. PICK phase \in {"move", "handoffFind"} : Goto(t, phase)
    BY <1>16 DEF Route, RouteUnscored
  <2> QED
    BY <1>a, <1>m, <2>1, <2>2
<1>17. ASSUME HandoffFind(t) PROVE Goal
  <2>1. pc[t] = "handoffFind" /\ UNCHANGED <<row, state>>
    BY <1>17 DEF HandoffFind
  <2>2. CASE HandedOff(row)
    <3>1. Goto(t, "move")
      BY <1>17, <2>2 DEF HandoffFind
    <3> QED
      BY <1>a, <1>m, <2>1, <3>1
  <2>3. CASE ~HandedOff(row)
    <3>1. Goto(t, "handoffSave") /\ side' = [side EXCEPT ![t] = ActivateHandoff(row)]
      BY <1>17, <2>3 DEF HandoffFind
    <3>2. SameProgress(side'[t], row')
      BY <1>b, <2>1, <3>1, SameOperations
    <3> QED
      BY <1>a, <1>m, <2>1, <3>1, <3>2
  <2> QED
    BY <2>2, <2>3
<1>18. ASSUME HandoffSave(t) PROVE Goal
  <2>1. pc[t] = "handoffSave" /\ Goto(t, "move") /\ row' = side[t] /\ UNCHANGED state
    BY <1>18 DEF HandoffSave, WriteRow
  <2>2. SameProgress(state'[t], row') \/ OneStepOn(state'[t], row')
    BY <1>a, <2>1, SameIsEqual
  <2> QED
    BY <1>m, <2>1, <2>2
<1>19. ASSUME MoveLeadToColumn(t) PROVE Goal
  <2>1. pc[t] = "move" /\ Goto(t, "save") /\ UNCHANGED <<row, state>>
    BY <1>19 DEF MoveLeadToColumn
  <2> QED
    BY <1>a, <1>m, <2>1
<1>20. ASSUME SaveState(t) PROVE Goal
  <2>1. Goto(t, "send")
    BY <1>20 DEF SaveState
  <2> QED
    BY <1>m, <2>1
<1>21. ASSUME Send(t) \/ DbFails(t) PROVE Goal
  BY <1>21, <1>r DEF Send, DbFails
<1>22. ASSUME SideCallFails(t) PROVE Goal
  <2>1. UNCHANGED <<row, state>>
    BY <1>22 DEF SideCallFails
  <2>2. \/ pc[t] = "toolSave" /\ Goto(t, "llm")
        \/ pc[t] \in {"handoffFind", "handoffSave"} /\ Goto(t, "move")
    BY <1>22 DEF SideCallFails
  <2> QED
    BY <1>a, <1>m, <2>1, <2>2
<1> HIDE DEF Before, After, HoldsState, Phase
<1>23. ASSUME ~Lock(t) PROVE Goal
  BY <1>23, <1>3, <1>4, <1>5, <1>6, <1>7, <1>8, <1>9, <1>10, <1>11, <1>12, <1>13, <1>14, <1>15, <1>16, <1>17,
     <1>18, <1>19, <1>20, <1>21, <1>22
  DEF TurnStep, Works, Resets, Loads, Generates, Commits
<1>24. ASSUME ~Lock(t) PROVE CopiesFresh'
  BY <1>0, <1>2, <1>23, <1>24, FreshOfOne DEF Goal
<1> QED
  BY <1>1, <1>24

\* A write of the row is a stutter, a completed step or, by a reset, a restart.
Serially ==
  \/ SerialStep' = SerialStep /\ SerialScore' = SerialScore
  \/ SerialStep' = SerialStep + 1 /\ \E n \in Worth : SerialScore' = SerialScore + n
  \/ Resetting /\ SerialStep' = 0 /\ SerialScore' = 0

\* Seen as progress, every step of a turn that is alone moves on or stutters.
LEMMA StepIsSerial ==
  ASSUME TurnInvariant, CopiesFresh, NEW t \in Turn, TurnStep(t)
  PROVE  Serially /\ (row # NoRow => row' # NoRow)
<1>0. TypeOK /\ CopiesPresent /\ Fresh(t)
  BY DEF TurnInvariant, CopiesFresh
<1> DEFINE Goal == Serially /\ (row # NoRow => row' # NoRow)
<1>1. UNCHANGED row => Goal
  BY DEF Serially, SerialStep, SerialScore
<1>2. ASSUME ResetSave(t) PROVE Goal
  <2>1. pc[t] = "resetSave" /\ row' = state[t]
    BY <1>2 DEF ResetSave, WriteRow
  <2>2. state[t] # NoRow /\ state[t].step = 0 /\ state[t].score = 0
    BY <1>0, <2>1 DEF CopiesPresent, HoldsState, Fresh
  <2>3. Resetting
    BY <2>1 DEF Resetting
  <2> QED
    BY <2>1, <2>2, <2>3 DEF Serially, SerialStep, SerialScore
<1>3. ASSUME Find(t) PROVE Goal
  <2>1. row' = IF row = NoRow THEN NewConversationState(routed[t]) ELSE row
    BY <1>3 DEF Find, WriteRow
  <2>2. NewConversationState(routed[t]).step = 0 /\ NewConversationState(routed[t]).score = 0
    BY DEF NewConversationState
  <2>3. NewConversationState(routed[t]) \in Row
    BY <1>0 DEF NewConversationState, Row, TypeOK
  <2>4. CASE row = NoRow
    BY <2>1, <2>2, <2>3, <2>4, NoRowAssumption DEF Serially, SerialStep, SerialScore
  <2>5. CASE row # NoRow
    BY <1>1, <2>1, <2>5
  <2> QED
    BY <2>4, <2>5
<1>4. ASSUME Heal(t) PROVE Goal
  <2>1. pc[t] = "heal" /\ row' = [state[t] EXCEPT !.specialist = routed[t]]
    BY <1>4 DEF Heal, WriteRow
  <2>2. row # NoRow /\ state[t] \in Row /\ SameProgress(state[t], row) /\ routed[t] \in Specialist
    BY <1>0, <2>1 DEF CopiesPresent, HoldsState, Fresh, Before, TypeOK
  <2>3. /\ [state[t] EXCEPT !.specialist = routed[t]] \in Row
        /\ SameProgress([state[t] EXCEPT !.specialist = routed[t]], state[t])
    BY <2>2, RowOperations, SameOperations
  <2>4. row' \in Row /\ SameProgress(row', state[t])
    BY <2>1, <2>3
  <2>5. SameProgress(row', row)
    BY <2>2, <2>4 DEF SameProgress
  <2> QED
    BY <2>2, <2>4, <2>5, NoRowAssumption DEF Serially, SerialStep, SerialScore, SameProgress
<1>5. ASSUME ToolSave(t) \/ HandoffSave(t) PROVE Goal
  <2>1. pc[t] \in {"toolSave", "handoffSave"} /\ row' = side[t]
    BY <1>5 DEF ToolSave, HandoffSave, WriteRow
  <2>2. row # NoRow /\ side[t] # NoRow /\ SameProgress(side[t], row)
    BY <1>0, <2>1 DEF CopiesPresent, HoldsState, Fresh
  <2> QED
    BY <2>1, <2>2 DEF Serially, SerialStep, SerialScore, SameProgress
<1>6. ASSUME SaveState(t) PROVE Goal
  <2>1. pc[t] = "save" /\ row' = state[t]
    BY <1>6 DEF SaveState, WriteRow
  <2>2. row # NoRow /\ state[t] # NoRow /\ (SameProgress(state[t], row) \/ OneStepOn(state[t], row))
    BY <1>0, <2>1 DEF CopiesPresent, HoldsState, Fresh, After
  <2>3. CASE SameProgress(state[t], row)
    BY <2>1, <2>2, <2>3 DEF Serially, SerialStep, SerialScore, SameProgress
  <2>4. CASE OneStepOn(state[t], row)
    BY <2>1, <2>2, <2>4 DEF Serially, SerialStep, SerialScore, OneStepOn
  <2> QED
    BY <2>2, <2>3, <2>4
<1>7. \/ UNCHANGED row
      \/ ResetSave(t) \/ Find(t) \/ Heal(t) \/ ToolSave(t) \/ HandoffSave(t) \/ SaveState(t)
  BY DEF TurnStep, Works, Lock, Enter, Resets, ResetFind, ResetLead, Loads, Keep, Generates, ToolFind, LeadTool, LlmFails,
         AnswerOnly, AnswerCompletes, Commits, UpdateLeadScore, Route, RouteUnscored, HandoffFind, MoveLeadToColumn,
         Send, DbFails, SideCallFails
<1> HIDE DEF Goal
<1>8. Goal
  BY <1>1, <1>2, <1>3, <1>4, <1>5, <1>6, <1>7
<1> QED
  BY <1>8 DEF Goal

\* Without requests, the turns' copies stay fresh and progress is serial.
LEMMA SerialNext ==
  Request = {} /\ TurnInvariant /\ CopiesFresh /\ [Next]_vars
  => CopiesFresh' /\ Serially /\ (row # NoRow => row' # NoRow)
<1> SUFFICES ASSUME Request = {}, TurnInvariant, CopiesFresh, [Next]_vars
             PROVE  CopiesFresh' /\ Serially /\ (row # NoRow => row' # NoRow)
  OBVIOUS
<1>0. UNCHANGED row => Serially /\ (row # NoRow => row' # NoRow)
  BY DEF Serially, SerialStep, SerialScore
<1>1. ASSUME NEW t \in Turn, NEW s \in Specialist, NEW r \in BOOLEAN, Arrive(t, s, r)
      PROVE  CopiesFresh' /\ UNCHANGED row
  <2>1. pc[t] = "idle" /\ pc' = [pc EXCEPT ![t] = "queued"] /\ UNCHANGED <<row, state, side>>
    BY <1>1 DEF Arrive, Goto
  <2>2. ASSUME NEW u \in Turn PROVE Fresh(u)'
    <3>1. pc'[u] = "queued" \/ pc'[u] = pc[u]
      BY <2>1 DEF TurnInvariant, TypeOK
    <3> QED
      BY <2>1, <3>1 DEF CopiesFresh, Fresh, Before, After
  <2> QED
    BY <2>1, <2>2 DEF CopiesFresh
<1>2. ASSUME NEW t \in Turn, TurnStep(t) PROVE CopiesFresh' /\ Serially /\ (row # NoRow => row' # NoRow)
  BY <1>2, FreshStep, StepIsSerial
<1>3. CASE Crash
  <2>1. \A u \in Turn : Fresh(u)'
    BY <1>3 DEF Crash, Fresh, Before, After
  <2>2. UNCHANGED row
    BY <1>3 DEF Crash
  <2> QED
    BY <1>0, <2>1, <2>2 DEF CopiesFresh
<1>4. CASE UNCHANGED vars
  <2>1. \A u \in Turn : Fresh(u)'
    BY <1>4 DEF vars, turnVars, CopiesFresh, Fresh
  <2>2. UNCHANGED row
    BY <1>4 DEF vars
  <2> QED
    BY <1>0, <2>1, <2>2 DEF CopiesFresh
<1> QED
  BY <1>0, <1>1, <1>2, <1>3, <1>4 DEF Next

\* A serial step, read in the row's own terms, does not rewind.
LEMMA SerialIsNoRewind ==
  ASSUME TypeOK, TypeOK', AnswersMatchStep, AnswersMatchStep', Serially, row # NoRow, row' # NoRow, ~Resetting
  PROVE  row'.step >= row.step /\ row.collected \subseteq row'.collected
<1>1. row \in Row /\ row' \in Row
  BY DEF TypeOK
<1>2. row.step \in Nat /\ row'.step \in Nat /\ row'.step >= row.step
  BY <1>1 DEF Serially, SerialStep, SerialScore, Row
<1>3. row.collected = 0 .. (row.step - 1) /\ row'.collected = 0 .. (row'.step - 1)
  BY DEF AnswersMatchStep, Untorn
<1> QED
  BY <1>2, <1>3

\* The turns of a conversation without requests keep their copies fresh.
LEMMA CopiesFreshHolds ==
  ASSUME Request = {}
  PROVE  Spec => []CopiesFresh
<1>1. Init => CopiesFresh
  BY DEF Init, CopiesFresh, Fresh, Before, After
<1>2. TurnInvariant /\ CopiesFresh /\ [Next]_vars => CopiesFresh'
  BY SerialNext
<1> QED
  BY <1>1, <1>2, TurnInvariantHolds, PTL DEF Spec

\* Where no request writes the row, turns never rewind the conversation: a saved
\* step stays done and answered until a reset, whatever fails or dies between.
THEOREM NoRewindHolds ==
  ASSUME Request = {}
  PROVE  Spec => NoRewind
<1>1. TurnInvariant /\ TurnInvariant' /\ CopiesFresh /\ [Next]_vars
      => [(row # NoRow /\ ~Resetting) => row'.step >= row.step /\ row.collected \subseteq row'.collected]_vars
  BY SerialNext, SerialIsNoRewind DEF TurnInvariant, CopiesMatchStep
<1> QED
  BY <1>1, TurnInvariantHolds, CopiesFreshHolds, PTL DEF Spec, NoRewind

\* Where no request writes the row, overlapping turns implement the conversation
\* with one speaker at a time: every step is completed on top of the last one.
THEOREM ImplementsSerialConversationHolds ==
  ASSUME Request = {}
  PROVE  Spec => ImplementsSerialConversation
<1>1. Init => Serial!Init
  BY DEF Init, Serial!Init
<1>2. TurnInvariant /\ CopiesFresh /\ [Next]_vars => [Serial!Next]_(Serial!vars)
  <2>1. SerialStep' = SerialStep /\ SerialScore' = SerialScore => UNCHANGED Serial!vars
    BY DEF SerialStep, SerialScore, Serial!vars
  <2>2. SerialStep' = SerialStep + 1 /\ (\E n \in Worth : SerialScore' = SerialScore + n) => Serial!CompleteStep
    BY DEF SerialStep, SerialScore, Serial!CompleteStep
  <2>3. SerialStep' = 0 /\ SerialScore' = 0 => Serial!Restart
    BY DEF SerialStep, SerialScore, Serial!Restart
  <2>4. Serially => [Serial!Next]_(Serial!vars)
    BY <2>1, <2>2, <2>3 DEF Serially, Serial!Next
  <2> QED
    BY <2>4, SerialNext
<1> QED
  BY <1>1, <1>2, TurnInvariantHolds, CopiesFreshHolds, PTL DEF Spec, ImplementsSerialConversation, Serial!Spec

-----------------------------------------------------------------------------
(* The lead's score. *)

\* A turn that goes to a phase: what the lead was given of it.
LEMMA AheadMove ==
  ASSUME TypeOK, OneTurnAtATime, NEW t \in Turn, turnLock \in {t, NoTurn}, NEW phase \in Phase, Goto(t, phase),
         LeadOneStepAhead',
         phase \in Committed => state'[t].step = row'.step \/ lead'.score = state'[t].score,
         phase = "resetLead" => SerialStep' = 0
  PROVE  LeadAhead'
<1>1. pc'[t] = phase
  BY DEF Goto, TypeOK
<1>2. ASSUME NEW u \in Turn, u # t PROVE pc'[u] \notin Committed \cup {"resetLead"}
  BY <1>2 DEF Goto, TypeOK, OneTurnAtATime, Running, Committed
<1> QED
  BY <1>1, <1>2 DEF LeadAhead

\* A row with the same progress is as far behind the lead.
LEMMA AheadOfSame ==
  ASSUME LeadOneStepAhead, lead'.score = lead.score,
         row' = row \/ row' = NoRow \/ row'.step = 0 \/ (row # NoRow /\ SameProgress(row', row))
  PROVE  LeadOneStepAhead'
BY DEF LeadOneStepAhead, SameProgress

\* Every step of a turn leaves the lead where the row is or one step ahead.
LEMMA AheadStep ==
  ASSUME ScoresAreTold, TurnInvariant, CopiesFresh, LeadAhead, NEW t \in Turn, TurnStep(t)
  PROVE  LeadAhead'
<1>0. TypeOK /\ OneTurnAtATime /\ CopiesPresent /\ LeadOneStepAhead
  BY DEF TurnInvariant, LeadAhead
<1>1. turnLock \in {t, NoTurn}
  BY <1>0 DEF OneTurnAtATime, TurnStep, Works, Lock, Enter, LockFree, Resets, ResetFind, ResetSave, ResetLead, Loads, Find, Keep,
     Heal, Generates, ToolFind, ToolSave, LeadTool, LlmFails, AnswerOnly, AnswerCompletes, Commits, UpdateLeadScore,
     Route, RouteUnscored, HandoffFind, HandoffSave, MoveLeadToColumn, SaveState, Send, DbFails, SideCallFails, Running
<1>2. /\ pc[t] \in Committed => state[t].step = row.step \/ lead.score = state[t].score
      /\ pc[t] = "resetLead" => SerialStep = 0
  BY DEF LeadAhead
<1>3. /\ pc[t] \in Before => SameProgress(state[t], row)
      /\ pc[t] \in After => SameProgress(state[t], row) \/ OneStepOn(state[t], row)
      /\ pc[t] \in {"toolSave", "handoffSave"} => SameProgress(side[t], row)
      /\ pc[t] = "resetSave" => state[t].step = 0
  BY DEF CopiesFresh, Fresh
<1>4. /\ pc[t] \in HoldsState => row \in Row /\ row # NoRow /\ state[t] \in Row
      /\ routed[t] \in Specialist
      /\ lead \in [score : Int, column : Column, outcome : Outcome]
  BY <1>0, NoRowAssumption DEF TypeOK, CopiesPresent, Lead
<1>m. ASSUME NEW phase \in Phase, Goto(t, phase), LeadOneStepAhead',
             phase \in Committed => state'[t].step = row'.step \/ lead'.score = state'[t].score,
             phase = "resetLead" => SerialStep' = 0
      PROVE  LeadAhead'
  BY <1>0, <1>1, <1>m, AheadMove
<1>s. ASSUME lead'.score = lead.score,
             row' = row \/ row' = NoRow \/ row'.step = 0 \/ (row # NoRow /\ SameProgress(row', row))
      PROVE  LeadOneStepAhead'
  BY <1>0, <1>s, AheadOfSame
<1>e. SameProgress(state[t], row) => state[t].step = row.step
  BY DEF SameProgress
<1> USE DEF Committed, Phase, Before, After, HoldsState
<1>r. ASSUME Return(t), UNCHANGED <<row, lead>> PROVE LeadAhead'
  <2>1. Goto(t, "idle")
    BY <1>r DEF Return
  <2> QED
    BY <1>m, <1>r, <1>s, <2>1
<1>5. ASSUME Lock(t) PROVE LeadAhead'
  <2>1. PICK phase \in {"resetFind", "find"} : Goto(t, phase) /\ UNCHANGED <<row, lead>>
    BY <1>5 DEF Lock, Enter
  <2> QED
    BY <1>m, <1>s, <2>1
<1>6. ASSUME ResetFind(t) PROVE LeadAhead'
  <2>1. /\ UNCHANGED <<row, lead>>
        /\ (Goto(t, "resetLead") /\ row = NoRow) \/ Goto(t, "resetSave")
    BY <1>6 DEF ResetFind
  <2>2. row = NoRow => SerialStep' = 0
    BY <2>1 DEF SerialStep
  <2> QED
    BY <1>m, <1>s, <2>1, <2>2
<1>7. ASSUME ResetSave(t) PROVE LeadAhead'
  <2>1. pc[t] = "resetSave" /\ Goto(t, "resetLead") /\ row' = state[t] /\ UNCHANGED lead
    BY <1>7 DEF ResetSave, WriteRow
  <2>2. SerialStep' = 0
    BY <1>3, <2>1 DEF SerialStep
  <2> QED
    BY <1>3, <1>m, <1>s, <2>1, <2>2
<1>8. ASSUME ResetLead(t) PROVE LeadAhead'
  <2>1. pc[t] = "resetLead" /\ Goto(t, "idle") /\ UNCHANGED row
    BY <1>8 DEF ResetLead, Return
  <2>2. LeadOneStepAhead'
    BY <1>2, <2>1 DEF LeadOneStepAhead, SerialStep
  <2> QED
    BY <1>m, <2>1, <2>2
<1>9. ASSUME Find(t) PROVE LeadAhead'
  <2>1. Goto(t, "heal") /\ UNCHANGED lead /\ row' = IF row = NoRow THEN NewConversationState(routed[t]) ELSE row
    BY <1>9 DEF Find, WriteRow
  <2>2. row' = row \/ row'.step = 0
    BY <2>1 DEF NewConversationState
  <2> QED
    BY <1>m, <1>s, <2>1, <2>2
<1>10. ASSUME Keep(t) PROVE LeadAhead'
  <2>1. UNCHANGED <<row, lead>> /\ (Return(t) \/ Goto(t, "llm"))
    BY <1>10 DEF Keep
  <2> QED
    BY <1>m, <1>r, <1>s, <2>1
<1>11. ASSUME Heal(t) PROVE LeadAhead'
  <2>1. /\ pc[t] = "heal" /\ row' = [state[t] EXCEPT !.specialist = routed[t]] /\ UNCHANGED lead
        /\ Goto(t, "idle") \/ Goto(t, "llm")
    BY <1>11 DEF Heal, WriteRow, Return
  <2>2. SameProgress(row', state[t])
    BY <1>4, <2>1, SameOperations
  <2>3. SameProgress(row', row) /\ row # NoRow
    BY <1>3, <1>4, <2>1, <2>2, SameIsEqual
  <2> QED
    BY <1>m, <1>s, <2>1, <2>3
<1>12. ASSUME NEW s \in Specialist, ToolFind(t, s) PROVE LeadAhead'
  <2>1. Goto(t, "toolSave") /\ UNCHANGED <<row, lead>>
    BY <1>12 DEF ToolFind
  <2> QED
    BY <1>m, <1>s, <2>1
<1>13. ASSUME ToolSave(t) PROVE LeadAhead'
  <2>1. pc[t] = "toolSave" /\ Goto(t, "llm") /\ row' = side[t] /\ UNCHANGED lead
    BY <1>13 DEF ToolSave, WriteRow
  <2> QED
    BY <1>3, <1>4, <1>m, <1>s, <2>1
<1>14. ASSUME LeadTool(t) PROVE LeadAhead'
  <2>1. pc[t] = "llm" /\ UNCHANGED <<row, pc>> /\ \E c \in Column : lead' = [lead EXCEPT !.column = c]
    BY <1>14 DEF LeadTool, ScoresAreTold, turnVars
  <2>2. lead'.score = lead.score
    BY <1>4, <2>1
  <2>3. Goto(t, "llm")
    BY <1>0, <2>1 DEF Goto, TypeOK
  <2> QED
    BY <1>m, <1>s, <2>1, <2>2, <2>3
<1>15. ASSUME LlmFails(t) \/ Send(t) \/ DbFails(t) PROVE LeadAhead'
  BY <1>15, <1>r DEF LlmFails, Send, DbFails
<1>16. ASSUME AnswerOnly(t) PROVE LeadAhead'
  <2>1. pc[t] = "llm" /\ Goto(t, "save") /\ UNCHANGED <<row, lead, state>>
    BY <1>16 DEF AnswerOnly
  <2> QED
    BY <1>3, <1>e, <1>m, <1>s, <2>1
<1>17. ASSUME AnswerCompletes(t) PROVE LeadAhead'
  <2>1. Goto(t, "score") /\ UNCHANGED <<row, lead>>
    BY <1>17 DEF AnswerCompletes
  <2> QED
    BY <1>m, <1>s, <2>1
<1>18. ASSUME UpdateLeadScore(t) PROVE LeadAhead'
  <2>1. pc[t] = "score" /\ Goto(t, "route") /\ UNCHANGED <<row, state>>
    BY <1>18 DEF UpdateLeadScore
  <2>2. lead'.score = state[t].score
    BY <1>4, <1>18 DEF UpdateLeadScore, LeadBecomes, ScoresAreTold
  <2>3. \E n \in {0} \cup Worth : state[t].score = row.score + n
    <3>1. SameProgress(state[t], row) => state[t].score = row.score + 0
      BY <1>4, <2>1 DEF SameProgress, Row
    <3>2. OneStepOn(state[t], row) => \E n \in Worth : state[t].score = row.score + n
      BY DEF OneStepOn
    <3>3. SameProgress(state[t], row) \/ OneStepOn(state[t], row)
      BY <1>3, <2>1
    <3> QED
      BY <3>1, <3>2, <3>3
  <2>4. LeadOneStepAhead'
    BY <2>1, <2>2, <2>3 DEF LeadOneStepAhead
  <2> QED
    BY <1>m, <2>1, <2>2, <2>4
<1>19. ASSUME Route(t) \/ RouteUnscored(t) \/ MoveLeadToColumn(t) PROVE LeadAhead'
  <2>1. pc[t] \in {"route", "move"} /\ UNCHANGED <<row, state>>
    BY <1>19 DEF Route, RouteUnscored, MoveLeadToColumn
  <2>2. PICK phase \in {"handoffFind", "move", "save"} : Goto(t, phase)
    BY <1>19 DEF Route, RouteUnscored, MoveLeadToColumn
  <2>3. \/ lead' = lead
        \/ \E o : lead' = [lead EXCEPT !.outcome = o]
        \/ \E c : lead' = [lead EXCEPT !.column = c]
    BY <1>19 DEF Route, RouteUnscored, MoveLeadToColumn, LeadBecomes
  <2>4. lead'.score = lead.score
    BY <1>4, <2>3
  <2> QED
    BY <1>2, <1>m, <1>s, <2>1, <2>2, <2>4
<1>20. ASSUME HandoffFind(t) PROVE LeadAhead'
  <2>1. pc[t] = "handoffFind" /\ UNCHANGED <<row, lead, state>>
    BY <1>20 DEF HandoffFind
  <2>2. PICK phase \in {"handoffSave", "move"} : Goto(t, phase)
    BY <1>20 DEF HandoffFind
  <2> QED
    BY <1>2, <1>m, <1>s, <2>1, <2>2
<1>21. ASSUME HandoffSave(t) PROVE LeadAhead'
  <2>1. pc[t] = "handoffSave" /\ Goto(t, "move") /\ row' = side[t] /\ UNCHANGED <<lead, state>>
    BY <1>21 DEF HandoffSave, WriteRow
  <2>2. SameProgress(row', row) /\ row # NoRow /\ row'.step = row.step
    BY <1>3, <1>4, <2>1 DEF SameProgress
  <2> QED
    BY <1>2, <1>m, <1>s, <2>1, <2>2
<1>22. ASSUME SaveState(t) PROVE LeadAhead'
  <2>1. pc[t] = "save" /\ Goto(t, "send") /\ row' = state[t] /\ UNCHANGED lead
    BY <1>22 DEF SaveState, WriteRow
  <2>2. CASE state[t].step = row.step
    <3>1. SameProgress(row', row) /\ row # NoRow
      BY <1>3, <1>4, <2>1, <2>2 DEF OneStepOn, Row
    <3> QED
      BY <1>m, <1>s, <2>1, <3>1
  <2>3. CASE state[t].step # row.step
    <3>1. lead'.score = row'.score /\ row'.score \in Int
      BY <1>2, <1>4, <2>1, <2>3 DEF Row
    <3>2. LeadOneStepAhead'
      BY <3>1 DEF LeadOneStepAhead
    <3> QED
      BY <1>m, <2>1, <3>2
  <2> QED
    BY <2>2, <2>3
<1>23. ASSUME SideCallFails(t) PROVE LeadAhead'
  <2>1. UNCHANGED <<row, lead, state>>
    BY <1>23 DEF SideCallFails
  <2>2. Goto(t, "llm") \/ (pc[t] \in Committed /\ Goto(t, "move"))
    BY <1>23 DEF SideCallFails
  <2> QED
    BY <1>2, <1>m, <1>s, <2>1, <2>2
<1> HIDE DEF Committed, Phase, Before, After, HoldsState
<1> QED
  BY <1>5, <1>6, <1>7, <1>8, <1>9, <1>10, <1>11, <1>12, <1>13, <1>14, <1>15, <1>16, <1>17, <1>18, <1>19, <1>20,
     <1>21, <1>22, <1>23
  DEF TurnStep, Works, Resets, Loads, Generates, Commits

\* Whatever fails or dies between the lead's write and the row's, and however
\* often the step is answered again, the lead is at most one step ahead of a
\* conversation that has done a step, as long as no update of it is lost
\* (ScoresAreTold).
THEOREM LeadOneStepAheadHolds ==
  ASSUME ScoresAreTold
  PROVE  Spec => []LeadOneStepAhead
<1>1. Init => LeadAhead
  BY DEF Init, LeadAhead, LeadOneStepAhead, Committed
<1>2. TurnInvariant /\ CopiesFresh /\ LeadAhead /\ [Next]_vars => LeadAhead'
  <2> SUFFICES ASSUME TurnInvariant, CopiesFresh, LeadAhead, [Next]_vars PROVE LeadAhead'
    OBVIOUS
  <2>1. ASSUME NEW t \in Turn, NEW s \in Specialist, NEW r \in BOOLEAN, Arrive(t, s, r) PROVE LeadAhead'
    <3>1. pc[t] = "idle" /\ pc' = [pc EXCEPT ![t] = "queued"] /\ UNCHANGED <<row, lead, state>>
      BY <2>1 DEF Arrive, Goto
    <3>2. \A u \in Turn : pc'[u] = pc[u] \/ (u = t /\ pc'[u] = "queued")
      BY <3>1 DEF TurnInvariant, TypeOK
    <3> QED
      BY <3>1, <3>2 DEF LeadAhead, LeadOneStepAhead, SerialStep, Committed
  <2>2. ASSUME NEW t \in Turn, TurnStep(t) PROVE LeadAhead'
    BY <2>2, AheadStep
  <2>3. CASE Crash
    BY <2>3 DEF Crash, LeadAhead, LeadOneStepAhead, Committed
  <2>4. CASE UNCHANGED vars
    BY <2>4 DEF vars, turnVars, LeadAhead, LeadOneStepAhead, SerialStep, Committed
  <2> QED
    BY <2>1, <2>2, <2>3, <2>4 DEF ScoresAreTold, Next
<1>3. LeadAhead => LeadOneStepAhead
  BY DEF LeadAhead
<1>4. Spec => []CopiesFresh
  BY CopiesFreshHolds DEF ScoresAreTold
<1> QED
  BY <1>1, <1>2, <1>3, <1>4, TurnInvariantHolds, PTL DEF Spec

\* A turn that goes to a phase with the lead that phase asks for.
LEMMA LeadMove ==
  ASSUME TypeOK, OneTurnAtATime, NEW t \in Turn, turnLock \in {t, NoTurn}, NEW phase \in Phase, Goto(t, phase),
         phase \in Committed => lead'.score = state'[t].score,
         phase = "resetLead" => SerialScore' = 0,
         phase \notin Committed \cup {"resetLead"} => lead'.score = SerialScore'
  PROVE  LeadFollows'
<1>1. pc'[t] = phase
  BY DEF Goto, TypeOK
<1>2. ASSUME NEW u \in Turn, u # t PROVE pc'[u] \notin Committed \cup {"resetLead"}
  BY <1>2 DEF Goto, TypeOK, OneTurnAtATime, Running, Committed
<1>3. \A u \in Turn : (pc'[u] \in Committed => lead'.score = state'[u].score) /\ (pc'[u] = "resetLead" => SerialScore' = 0)
  BY <1>1, <1>2
<1>4. (\A u \in Turn : pc'[u] \notin Committed \cup {"resetLead"}) => lead'.score = SerialScore'
  BY <1>1
<1> QED
  BY <1>3, <1>4 DEF LeadFollows

\* A best-effort update of the lead that does not fail.
LEMMA LeadIsUpdated ==
  ASSUME LeadIsTold, NEW l, LeadBecomes(l)
  PROVE  lead' = l
BY DEF LeadIsTold, ScoresAreTold, LeadBecomes

\* Every step of a turn keeps the lead and the row together.
LEMMA LeadStep ==
  ASSUME LeadIsTold, TurnInvariant, CopiesFresh, LeadFollows, NEW t \in Turn, TurnStep(t)
  PROVE  LeadFollows'
<1>0. TypeOK /\ OneTurnAtATime /\ CopiesPresent
  BY DEF TurnInvariant
<1>1. turnLock \in {t, NoTurn}
  BY <1>0 DEF OneTurnAtATime, TurnStep, Works, Lock, Enter, LockFree, Resets, ResetFind, ResetSave, ResetLead, Loads, Find, Keep,
     Heal, Generates, ToolFind, ToolSave, LeadTool, LlmFails, AnswerOnly, AnswerCompletes, Commits, UpdateLeadScore,
     Route, RouteUnscored, HandoffFind, HandoffSave, MoveLeadToColumn, SaveState, Send, DbFails, SideCallFails, Running
<1>2. (pc[t] \in Committed => lead.score = state[t].score) /\ (pc[t] = "resetLead" => SerialScore = 0)
  BY DEF LeadFollows
<1>3. pc[t] \notin Committed \cup {"resetLead"} => lead.score = SerialScore
  <2>1. ASSUME NEW u \in Turn, u # t PROVE pc[u] \notin Committed \cup {"resetLead"}
    BY <1>0, <1>1, <2>1 DEF OneTurnAtATime, Running, Committed
  <2> QED
    BY <2>1 DEF LeadFollows
<1>4. /\ pc[t] \in Before => SameProgress(state[t], row)
      /\ pc[t] \in HoldsState => row # NoRow /\ state[t] # NoRow
      /\ pc[t] \in {"toolSave", "handoffSave"} => side[t] # NoRow /\ SameProgress(side[t], row)
      /\ pc[t] = "resetSave" => state[t].score = 0
  BY <1>0 DEF CopiesFresh, Fresh, CopiesPresent, HoldsState, Before
<1>m. ASSUME NEW phase \in Phase, Goto(t, phase),
             phase \in Committed => lead'.score = state'[t].score,
             phase = "resetLead" => SerialScore' = 0,
             phase \notin Committed \cup {"resetLead"} => lead'.score = SerialScore'
      PROVE  LeadFollows'
  BY <1>0, <1>1, <1>m, LeadMove
<1>s. /\ UNCHANGED row => SerialScore' = SerialScore
      /\ row # NoRow => SerialScore = row.score
      /\ row = NoRow => SerialScore = 0
      /\ row' # NoRow => SerialScore' = row'.score
  BY DEF SerialScore
<1>l. lead \in [score : Int, column : Column, outcome : Outcome]
  BY <1>0 DEF TypeOK, Lead
<1>p. \A r, q : SameProgress(r, q) => r.score = q.score
  BY DEF SameProgress
<1> USE DEF Committed, Phase, Before, HoldsState
<1>r. ASSUME Return(t), UNCHANGED <<row, lead>>, pc[t] \notin Committed, pc[t] # "resetLead" PROVE LeadFollows'
  <2>1. Goto(t, "idle")
    BY <1>r DEF Return
  <2> QED
    BY <1>3, <1>r, <1>m, <1>s, <2>1
<1>5. ASSUME Lock(t) PROVE LeadFollows'
  <2>1. PICK phase \in {"resetFind", "find"} : Goto(t, phase)
    BY <1>5 DEF Lock, Enter
  <2>2. pc[t] = "queued" /\ UNCHANGED <<row, lead>>
    BY <1>5 DEF Lock, Enter
  <2> QED
    BY <1>3, <1>m, <1>s, <2>1, <2>2
<1>6. ASSUME ResetFind(t) PROVE LeadFollows'
  <2>1. \/ Goto(t, "resetLead") /\ row = NoRow
        \/ Goto(t, "resetSave")
    BY <1>6 DEF ResetFind
  <2>2. pc[t] = "resetFind" /\ UNCHANGED <<row, lead>>
    BY <1>6 DEF ResetFind
  <2> QED
    BY <1>3, <1>m, <1>s, <2>1, <2>2
<1>7. ASSUME ResetSave(t) PROVE LeadFollows'
  <2>1. pc[t] = "resetSave" /\ Goto(t, "resetLead") /\ row' = state[t]
    BY <1>7 DEF ResetSave, WriteRow
  <2> QED
    BY <1>4, <1>m, <1>s, <2>1
<1>8. ASSUME ResetLead(t) PROVE LeadFollows'
  <2>1. pc[t] = "resetLead" /\ Goto(t, "idle") /\ UNCHANGED row
    BY <1>8 DEF ResetLead, Return
  <2>2. lead'.score = 0
    BY <1>8, <1>l, LeadIsUpdated DEF ResetLead, LeadReset
  <2> QED
    BY <1>2, <1>m, <1>s, <2>1, <2>2
<1>9. ASSUME Find(t) PROVE LeadFollows'
  <2>1. pc[t] = "find" /\ Goto(t, "heal") /\ UNCHANGED lead
    BY <1>9 DEF Find
  <2>2. row' = IF row = NoRow THEN NewConversationState(routed[t]) ELSE row
    BY <1>9 DEF Find, WriteRow
  <2>3. NewConversationState(routed[t]).score = 0
    BY DEF NewConversationState
  <2>4. SerialScore' = SerialScore
    BY <1>s, <2>2, <2>3 DEF SerialScore
  <2> QED
    BY <1>3, <1>m, <2>1, <2>4
<1>10. ASSUME Keep(t) PROVE LeadFollows'
  <2>1. pc[t] = "heal" /\ UNCHANGED <<row, lead>> /\ (Return(t) \/ Goto(t, "llm"))
    BY <1>10 DEF Keep
  <2> QED
    BY <1>3, <1>m, <1>r, <1>s, <2>1
<1>11. ASSUME Heal(t) PROVE LeadFollows'
  <2>1. /\ pc[t] = "heal" /\ row' = [state[t] EXCEPT !.specialist = routed[t]] /\ UNCHANGED lead
        /\ Goto(t, "idle") \/ Goto(t, "llm")
    BY <1>11 DEF Heal, WriteRow, Return
  <2>2. state[t] \in Row /\ row # NoRow /\ routed[t] \in Specialist
    BY <1>0, <1>4, <2>1 DEF TypeOK
  <2>3. row' \in Row /\ row'.score = state[t].score
    BY <2>1, <2>2 DEF Row
  <2>4. SerialScore' = SerialScore
    BY <1>4, <1>p, <1>s, <2>1, <2>2, <2>3, NoRowAssumption
  <2> QED
    BY <1>3, <1>m, <2>1, <2>4
<1>12. ASSUME NEW s \in Specialist, ToolFind(t, s) PROVE LeadFollows'
  <2>1. pc[t] = "llm" /\ UNCHANGED <<row, lead>> /\ Goto(t, "toolSave")
    BY <1>12 DEF ToolFind
  <2> QED
    BY <1>3, <1>m, <1>s, <2>1
<1>13. ASSUME ToolSave(t) PROVE LeadFollows'
  <2>1. pc[t] = "toolSave" /\ Goto(t, "llm") /\ row' = side[t] /\ UNCHANGED lead
    BY <1>13 DEF ToolSave, WriteRow
  <2>2. SerialScore' = SerialScore
    BY <1>4, <1>p, <1>s, <2>1
  <2> QED
    BY <1>3, <1>m, <2>1, <2>2
<1>14. ASSUME LeadTool(t) PROVE LeadFollows'
  <2>1. pc[t] = "llm" /\ UNCHANGED <<row, pc>> /\ \E c \in Column : lead' = [lead EXCEPT !.column = c]
    BY <1>14 DEF LeadTool, LeadIsTold, ScoresAreTold, turnVars
  <2>2. lead'.score = lead.score
    BY <1>l, <2>1
  <2>3. Goto(t, "llm")
    BY <1>0, <2>1 DEF Goto, TypeOK
  <2> QED
    BY <1>3, <1>m, <1>s, <2>1, <2>2, <2>3
<1>15. ASSUME LlmFails(t) PROVE LeadFollows'
  BY <1>15, <1>r DEF LlmFails
<1>16. ASSUME AnswerOnly(t) PROVE LeadFollows'
  <2>1. pc[t] = "llm" /\ Goto(t, "save") /\ UNCHANGED <<row, lead, state>>
    BY <1>16 DEF AnswerOnly
  <2>2. lead.score = state[t].score
    BY <1>3, <1>4, <1>p, <1>s, <2>1
  <2> QED
    BY <1>m, <2>1, <2>2
<1>17. ASSUME AnswerCompletes(t) PROVE LeadFollows'
  <2>1. pc[t] = "llm" /\ Goto(t, "score") /\ UNCHANGED <<row, lead>>
    BY <1>17 DEF AnswerCompletes
  <2> QED
    BY <1>3, <1>m, <1>s, <2>1
<1>18. ASSUME UpdateLeadScore(t) PROVE LeadFollows'
  <2>1. Goto(t, "route") /\ UNCHANGED <<row, state>>
    BY <1>18 DEF UpdateLeadScore
  <2>2. lead'.score = state[t].score
    BY <1>18, <1>l, LeadIsUpdated DEF UpdateLeadScore
  <2> QED
    BY <1>m, <2>1, <2>2
<1>19. ASSUME Route(t) \/ RouteUnscored(t) \/ MoveLeadToColumn(t) PROVE LeadFollows'
  <2>1. pc[t] \in {"route", "move"} /\ UNCHANGED <<row, state>>
    BY <1>19 DEF Route, RouteUnscored, MoveLeadToColumn
  <2>2. PICK phase \in {"handoffFind", "move", "save"} : Goto(t, phase)
    BY <1>19 DEF Route, RouteUnscored, MoveLeadToColumn
  <2>3. \/ lead' = lead
        \/ \E o : lead' = [lead EXCEPT !.outcome = o]
        \/ \E c : lead' = [lead EXCEPT !.column = c]
    BY <1>19 DEF Route, RouteUnscored, MoveLeadToColumn, LeadBecomes
  <2>4. lead'.score = lead.score
    BY <1>l, <2>3
  <2> QED
    BY <1>2, <1>m, <2>1, <2>2, <2>4
<1>20. ASSUME HandoffFind(t) \/ HandoffSave(t) PROVE LeadFollows'
  <2>1. pc[t] \in {"handoffFind", "handoffSave"} /\ UNCHANGED <<lead, state>>
    BY <1>20 DEF HandoffFind, HandoffSave
  <2>2. PICK phase \in {"handoffSave", "move"} : Goto(t, phase)
    BY <1>20 DEF HandoffFind, HandoffSave
  <2> QED
    BY <1>2, <1>m, <2>1, <2>2
<1>21. ASSUME SaveState(t) PROVE LeadFollows'
  <2>1. pc[t] = "save" /\ Goto(t, "send") /\ row' = state[t] /\ UNCHANGED lead
    BY <1>21 DEF SaveState, WriteRow
  <2>2. SerialScore' = lead.score
    BY <1>2, <1>4, <1>s, <2>1
  <2> QED
    BY <1>m, <2>1, <2>2
<1>22. ASSUME Send(t) PROVE LeadFollows'
  BY <1>22, <1>r DEF Send
<1>23. ~DbFails(t) /\ ~SideCallFails(t)
  BY DEF LeadIsTold, DbFails, SideCallFails
<1> HIDE DEF Committed, Phase, Before, HoldsState
<1> QED
  BY <1>5, <1>6, <1>7, <1>8, <1>9, <1>10, <1>11, <1>12, <1>13, <1>14, <1>15, <1>16, <1>17, <1>18, <1>19, <1>20,
     <1>21, <1>22, <1>23
  DEF TurnStep, Works, Resets, Loads, Generates, Commits

\* Where nothing fails but the model and the send (LeadIsTold: no statement
\* fails, the process does not die, no request writes the row and no tool scores
\* the lead), the lead's score is the row's whenever no turn is under way.
THEOREM LeadInStepHolds ==
  ASSUME LeadIsTold
  PROVE  Spec => []LeadInStep
<1>1. Init => LeadFollows
  BY DEF Init, LeadFollows, SerialScore, Committed
<1>2. TurnInvariant /\ CopiesFresh /\ LeadFollows /\ [Next]_vars => LeadFollows'
  <2> SUFFICES ASSUME TurnInvariant, CopiesFresh, LeadFollows, [Next]_vars PROVE LeadFollows'
    OBVIOUS
  <2>1. ASSUME NEW t \in Turn, NEW s \in Specialist, NEW r \in BOOLEAN, Arrive(t, s, r) PROVE LeadFollows'
    <3>1. pc[t] = "idle" /\ pc' = [pc EXCEPT ![t] = "queued"] /\ UNCHANGED <<row, lead, state>>
      BY <2>1 DEF Arrive, Goto
    <3>2. \A u \in Turn : pc'[u] = pc[u] \/ (u = t /\ pc'[u] = "queued")
      BY <3>1 DEF TurnInvariant, TypeOK
    <3> QED
      BY <3>1, <3>2 DEF LeadFollows, SerialScore, Committed
  <2>2. ASSUME NEW t \in Turn, TurnStep(t) PROVE LeadFollows'
    BY <2>2, LeadStep
  <2>3. ~Crash
    BY DEF LeadIsTold, Crash
  <2>4. CASE UNCHANGED vars
    BY <2>4 DEF vars, turnVars, LeadFollows, SerialScore, Committed
  <2> QED
    BY <2>1, <2>2, <2>3, <2>4 DEF LeadIsTold, ScoresAreTold, Next
<1>3. TurnInvariant /\ LeadFollows => LeadInStep
  <2> SUFFICES ASSUME TurnInvariant, LeadFollows, turnLock = NoTurn, row # NoRow PROVE lead.score = row.score
    BY DEF LeadInStep
  <2>1. \A t \in Turn : pc[t] \in {"idle", "queued"}
    BY DEF TurnInvariant, TypeOK, OneTurnAtATime, Running
  <2> QED
    BY <2>1 DEF LeadFollows, SerialScore, Committed
<1>4. Spec => []CopiesFresh
  BY CopiesFreshHolds DEF LeadIsTold, ScoresAreTold
<1> QED
  BY <1>1, <1>2, <1>3, <1>4, TurnInvariantHolds, PTL DEF Spec

-----------------------------------------------------------------------------
(* The turns with the engine's mutex. *)

MutexProofs == INSTANCE KeyedMutexProofs
  WITH Proc <- Goroutine, NoProc <- NoTurn, pc <- lockPc, key <- lockKey, obj <- lockObj

\* The assumptions of the mutex hold of the goroutines here.
LEMMA MutexAssumptions ==
  /\ NoTurn \notin Goroutine /\ NoObject \notin Object
  /\ MutexProofs!IsFiniteSet(Goroutine)
BY LockedAssumption DEF Goroutine, IsFiniteSet, MutexProofs!IsFiniteSet

\* The mutex of the proofs is the turns' mutex: its cardinalities,
LEMMA SameCardinality ==
  ASSUME NEW S
  PROVE  MutexProofs!Cardinality(S) = Mutex!Cardinality(S)
BY DEF MutexProofs!Cardinality, Mutex!Cardinality

\* its invariant,
LEMMA SameInvariant == MutexProofs!LockInvariant <=> Mutex!LockInvariant
BY SameCardinality
   DEF MutexProofs!LockInvariant, Mutex!LockInvariant, MutexProofs!TypeOK, Mutex!TypeOK,
       MutexProofs!Phase, Mutex!Phase, MutexProofs!MapMutex, Mutex!MapMutex,
       MutexProofs!PointerWhileCounted, Mutex!PointerWhileCounted,
       MutexProofs!EntryPinned, Mutex!EntryPinned, MutexProofs!NoIdleEntry, Mutex!NoIdleEntry,
       MutexProofs!ObjectOfOneKey, Mutex!ObjectOfOneKey, MutexProofs!HolderInside, Mutex!HolderInside,
       MutexProofs!RefsExact, Mutex!RefsExact, MutexProofs!Counted, Mutex!Counted,
       MutexProofs!Referrers, Mutex!Referrers

\* its initial states
LEMMA SameInit == MutexProofs!Init <=> Mutex!Init
BY DEF MutexProofs!Init, Mutex!Init

\* and its steps.
LEMMA SameNext == [Mutex!Next]_(Mutex!vars) => [MutexProofs!Next]_(MutexProofs!vars)
BY DEF Mutex!Next, MutexProofs!Next, Mutex!vars, MutexProofs!vars,
       MutexProofs!Step, Mutex!Step, MutexProofs!Call, Mutex!Call,
       MutexProofs!LockMap, Mutex!LockMap, MutexProofs!LookupExisting, Mutex!LookupExisting,
       MutexProofs!LookupNew, Mutex!LookupNew, MutexProofs!NewObject, Mutex!NewObject,
       MutexProofs!Referrers, Mutex!Referrers, MutexProofs!Acquire, Mutex!Acquire,
       MutexProofs!Release, Mutex!Release, MutexProofs!Evict, Mutex!Evict,
       MutexProofs!OneMore, Mutex!OneMore, MutexProofs!LastReference, Mutex!LastReference,
       MutexProofs!Unlocked, Mutex!Unlocked

\* A fresh mutex satisfies its invariant.
LEMMA MutexInit == Mutex!Init => Mutex!LockInvariant
BY MutexProofs!InitInvariant, MutexAssumptions, SameInit, SameInvariant

\* A restart makes a fresh mutex; every other step is one of the mutex, or none.
LEMMA MutexNext == LockedInvariant /\ [LockedNext]_lockedVars => Mutex!LockInvariant'
<1> SUFFICES ASSUME LockedInvariant, [LockedNext]_lockedVars PROVE Mutex!LockInvariant'
  OBVIOUS
<1>1. CASE Restart
  <2>1. lockKey \in [Goroutine -> Key]
    BY DEF LockedInvariant, Mutex!LockInvariant, Mutex!TypeOK
  <2>2. Mutex!Init'
    BY <1>1, <2>1 DEF Restart, Mutex!Init
  <2>3. Mutex!Init' => Mutex!LockInvariant'
    BY MutexInit, PTL
  <2> QED
    BY <2>2, <2>3
<1>2. CASE ~Restart
  <2>1. [Mutex!Next]_(Mutex!vars)
    BY <1>2, LockedAssumption
       DEF LockedNext, lockedVars, mutexVars, Begin, InLock, Bookkeeping, TakeLock, Proceed, OtherStep,
           Goroutine, Mutex!Next, Mutex!Step, Mutex!vars
  <2>2. MutexProofs!LockInvariant'
    BY <2>1, MutexProofs!NextKeepsInvariant, MutexAssumptions, SameNext, SameInvariant DEF LockedInvariant
  <2>3. MutexProofs!LockInvariant' => Mutex!LockInvariant'
    BY SameInvariant, PTL
  <2> QED
    BY <2>2, <2>3
<1> QED
  BY <1>1, <1>2

\* The mutex of a conversation is free only while no turn of it is running:
\* what Acquire asks of the mutex is what the turns ask of their lock.
LEMMA FreeMutexFreeLock ==
  ASSUME TypeOK, LockedInvariant, NEW t \in Turn, pc[t] = "queued", Mutex!Acquire(t)
  PROVE  LockFree
<1> SUFFICES ASSUME NEW u \in Turn, turnLock = u PROVE FALSE
  BY DEF LockFree, TypeOK
<1>1. Running(u)
  BY DEF LockedInvariant, OneTurnAtATime
<1>2. lockPc[u] = "held" /\ lockKey[u] = Conversation /\ lockPc[t] = "wait" /\ lockKey[t] = Conversation
  BY <1>1 DEF LockedInvariant, Mutex!Acquire
<1>3. lockObj[u] = lockObj[t]
  BY <1>2 DEF LockedInvariant, Mutex!LockInvariant, Mutex!EntryPinned, Mutex!Counted, Goroutine
<1>4. lockMu[lockObj[u]] = u
  BY <1>2 DEF LockedInvariant, Mutex!LockInvariant, Mutex!HolderInside, Goroutine
<1> QED
  BY <1>3, <1>4 DEF Mutex!Acquire

\* Every step with the mutex is a step of the turns with their lock, or none.
LEMMA LockedStepIsStep == TypeOK /\ LockedInvariant /\ [LockedNext]_lockedVars => [Next]_vars
<1> SUFFICES ASSUME TypeOK, LockedInvariant, [LockedNext]_lockedVars PROVE [Next]_vars
  OBVIOUS
<1>1. ASSUME NEW t \in Turn, TakeLock(t) PROVE Lock(t)
  BY <1>1, FreeMutexFreeLock DEF TakeLock, Enter, Lock
<1> QED
  BY <1>1
     DEF LockedNext, lockedVars, Begin, InLock, Proceed, OtherStep, Restart, Next, TurnStep

\* The holder of the lock either goes on or returns; no other turn moves.
LEMMA WorkMoves ==
  ASSUME TypeOK, NEW t \in Turn, Works(t)
  PROVE  /\ Running(t) /\ pc'[t] # "queued"
         /\ \A u \in Turn \ {t} : pc'[u] = pc[u]
<1> USE DEF TypeOK, Running, Goto
<1>1. CASE Resets(t)
  BY <1>1 DEF Resets, ResetFind, ResetSave, ResetLead, Return
<1>2. CASE Loads(t)
  BY <1>2 DEF Loads, Find, Keep, Heal, Return
<1>3. CASE Generates(t)
  BY <1>3 DEF Generates, ToolFind, ToolSave, LeadTool, LlmFails, AnswerOnly, AnswerCompletes, Return, turnVars
<1>4. CASE Commits(t)
  <2>1. CASE UpdateLeadScore(t) \/ Route(t) \/ RouteUnscored(t)
    BY <2>1 DEF UpdateLeadScore, Route, RouteUnscored
  <2>2. CASE HandoffFind(t) \/ HandoffSave(t) \/ MoveLeadToColumn(t) \/ SaveState(t) \/ Send(t)
    BY <2>2 DEF HandoffFind, HandoffSave, MoveLeadToColumn, SaveState, Send, Return
  <2> QED
    BY <1>4, <2>1, <2>2 DEF Commits
<1>5. CASE DbFails(t) \/ SideCallFails(t)
  BY <1>5 DEF DbFails, SideCallFails, Return
<1> QED
  BY <1>1, <1>2, <1>3, <1>4, <1>5 DEF Works

\* Where a turn is in the mutex goes with where it is in HandleMessages.
LockPlaces ==
  /\ \A t \in Turn :
       /\ pc[t] = "idle" => lockPc[t] \in {"idle", "leave", "evict"}
       /\ pc[t] = "queued" => lockPc[t] \in {"enter", "lookup", "wait"}
       /\ Running(t) => lockPc[t] = "held"
       /\ lockPc[t] # "idle" => lockKey[t] = Conversation
  /\ \A t \in OtherTurn : lockPc[t] # "idle" => lockKey[t] # Conversation

\* No step parts the two.
LEMMA LockPlacesNext ==
  TypeOK /\ LockedInvariant /\ [LockedNext]_lockedVars => LockPlaces'
<1> SUFFICES ASSUME TypeOK, LockedInvariant, [LockedNext]_lockedVars PROVE LockPlaces'
  OBVIOUS
<1>0. /\ LockPlaces /\ lockPc \in [Turn \cup OtherTurn -> Mutex!Phase]
      /\ lockKey \in [Turn \cup OtherTurn -> Key] /\ Turn \cap OtherTurn = {}
  BY LockedAssumption DEF LockedInvariant, LockPlaces, Mutex!LockInvariant, Mutex!TypeOK, Goroutine
<1> USE <1>0 DEF LockPlaces, Running, TypeOK
<1>1. ASSUME NEW t \in Turn, NEW s \in Specialist, NEW r \in BOOLEAN, Begin(t, s, r) PROVE LockPlaces'
  BY <1>1 DEF Begin, Arrive, Goto, Mutex!Call
<1>2. ASSUME NEW t \in Turn, InLock(t) PROVE LockPlaces'
  <2>1. pc' = pc
    BY <1>2 DEF InLock, vars, turnVars
  <2>2. CASE Mutex!LockMap(t)
    BY <2>1, <2>2 DEF Mutex!LockMap
  <2>3. CASE Mutex!LookupExisting(t) \/ Mutex!LookupNew(t)
    BY <2>1, <2>3 DEF Mutex!LookupExisting, Mutex!LookupNew
  <2>4. CASE Mutex!Evict(t)
    BY <2>1, <2>4 DEF Mutex!Evict
  <2> QED
    BY <1>2, <2>2, <2>3, <2>4 DEF InLock, Bookkeeping
<1>3. ASSUME NEW t \in Turn, TakeLock(t) PROVE LockPlaces'
  BY <1>3 DEF TakeLock, Enter, Goto, Mutex!Acquire
<1>4. ASSUME NEW t \in Turn, Proceed(t) PROVE LockPlaces'
  BY <1>4, WorkMoves DEF Proceed, mutexVars, Mutex!Release
<1>5. ASSUME NEW t \in OtherTurn, OtherStep(t) PROVE LockPlaces'
  <2>1. CASE Mutex!Step(t)
    BY <1>5, <2>1 DEF OtherStep, vars, turnVars, Mutex!Step, Mutex!LockMap, Mutex!LookupExisting,
                      Mutex!LookupNew, Mutex!Evict, Mutex!Acquire, Mutex!Release
  <2>2. ASSUME NEW k \in Key \ {Conversation}, Mutex!Call(t, k) PROVE LockPlaces'
    BY <1>5, <2>2 DEF OtherStep, vars, turnVars, Mutex!Call
  <2> QED
    BY <1>5, <2>1, <2>2 DEF OtherStep
<1>6. ASSUME NEW q \in Request, RequestStep(q), UNCHANGED mutexVars PROVE LockPlaces'
  BY <1>6 DEF mutexVars, turnVars, RequestStep, RequestFind, RequestFindNone, RequestSave, RequestResetLead, RequestFails
<1>7. CASE Restart
  BY <1>7 DEF Restart, Crash, Goroutine
<1>8. CASE UNCHANGED lockedVars
  BY <1>8 DEF lockedVars, mutexVars, vars, turnVars
<1> QED
  BY <1>1, <1>2, <1>3, <1>4, <1>5, <1>6, <1>7, <1>8 DEF LockedNext

\* The invariant of the turns with the mutex holds at the start ...
LEMMA InitLocked == LockedInit => TurnInvariant /\ LockedInvariant
<1> SUFFICES ASSUME LockedInit PROVE TurnInvariant /\ LockedInvariant
  OBVIOUS
<1>1. TurnInvariant
  BY InitTurnInvariant DEF LockedInit
<1>2. Mutex!LockInvariant
  BY MutexInit DEF LockedInit
<1>3. LockPlaces
  BY DEF LockedInit, Init, Mutex!Init, LockPlaces, Running, Goroutine
<1> QED
  BY <1>1, <1>2, <1>3 DEF LockedInvariant, LockPlaces, TurnInvariant

\* ... and no step breaks it.
LEMMA LockedNextKeeps ==
  TurnInvariant /\ LockedInvariant /\ [LockedNext]_lockedVars => TurnInvariant' /\ LockedInvariant'
<1> SUFFICES ASSUME TurnInvariant, LockedInvariant, [LockedNext]_lockedVars
             PROVE  TurnInvariant' /\ LockedInvariant'
  OBVIOUS
<1>1. TurnInvariant'
  BY LockedStepIsStep, TurnInvariantNext DEF TurnInvariant
<1>2. Mutex!LockInvariant' /\ LockPlaces'
  BY MutexNext, LockPlacesNext DEF TurnInvariant
<1> QED
  BY <1>1, <1>2 DEF LockedInvariant, LockPlaces, TurnInvariant

\* A turn runs exactly while it is between Lock and Unlock of the conversation's
\* entry of the engine's keyedMutex, whatever conversations share the map.
THEOREM LockedInvariantHolds == LockedSpec => []LockedInvariant
BY InitLocked, LockedNextKeeps, PTL DEF LockedSpec

\* With the refcounted mutex of keyed_mutex.go, shared with every other
\* conversation, the turns behave as with a plain lock of their own: what is
\* proved of Spec holds of the composition.
THEOREM LockedTurnsAreTurns == LockedSpec => Spec
<1>1. LockedInit => Init
  BY DEF LockedInit
<1>2. TurnInvariant /\ LockedInvariant /\ [LockedNext]_lockedVars => [Next]_vars
  BY LockedStepIsStep DEF TurnInvariant
<1> QED
  BY <1>1, <1>2, InitLocked, LockedNextKeeps, PTL DEF LockedSpec, Spec

\* One turn at a time, with the mutex the turns really take.
THEOREM LockedTurnsAreAlone == LockedSpec => []OneTurnAtATime
BY LockedTurnsAreTurns, OneTurnAtATimeHolds, PTL

\* Nor do turns with that mutex rewind the conversation, and they implement the
\* serial one, where no request writes the row.
THEOREM LockedTurnsAreSerial ==
  ASSUME Request = {}
  PROVE  LockedSpec => NoRewind /\ ImplementsSerialConversation
BY LockedTurnsAreTurns, NoRewindHolds, ImplementsSerialConversationHolds, PTL
=============================================================================

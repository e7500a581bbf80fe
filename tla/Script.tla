--------------------------------- MODULE Script ---------------------------------
(***************************************************************************)
(* What one specialist asks and how the answers are scored: its steps, its *)
(* thresholds and its cross-sell rules (src/internal/specialist).          *)
(*                                                                         *)
(* The order of steps and rules is a column without a unique key, kept by  *)
(* the use cases in statements of their own: read the rows, decide in      *)
(* memory, write some of them back.                                        *)
(***************************************************************************)
EXTENDS Specialists

CONSTANTS
  Owning,        \* the specialist
  Step,          \* ids of steps
  Rule,          \* ids of cross-sell rules
  StepScore,     \* scores a form may give a step
  Threshold,     \* thresholds a form may give
  ScriptRequest, \* requests in flight
  ScriptFaults   \* {"db"} when a statement may fail

VARIABLES
  step,      \* rows of steps, or NoRow
  scoring,   \* the row of scoring_configs, or NoRow
  rule,      \* rows of cross_sell_rules, or NoRow
  scriptReq, \* requests in flight
  stepsRaced, rulesRaced, ruleDeleted \* history, see Writes

scriptRows == <<step, scoring, rule>>
scriptVars == <<scriptRows, scriptReq, stepsRaced, rulesRaced, ruleDeleted>>

StepRow == [order : Int, score : StepScore, required : BOOLEAN]
ScoringRow == [threshold : Nat, human : Nat]
RuleRow == [order : Nat, active : BOOLEAN]

ASSUME ScriptAssumption ==
  /\ Owning \in Specialist /\ Threshold \subseteq Nat
  /\ IsFiniteSet(Step) /\ IsFiniteSet(Rule) /\ NoRow \notin StepRow \cup RuleRow

ScriptIdle == [phase |-> "none"]
StepPhase == {"max", "saveStep", "delete", "reorder", "list", "swap"}
RulePhase == {"insertRule", "saveRule", "deleteRule", "listRules", "saveNeighbor"}
ScoringPhase == {"config", "saveScoring"}

ScriptTypeOK ==
  /\ step \in [Step -> StepRow \cup {NoRow}]
  /\ scoring \in ScoringRow \cup {NoRow}
  /\ rule \in [Rule -> RuleRow \cup {NoRow}]
  /\ \A r \in ScriptRequest : scriptReq[r].phase \in {"none"} \cup StepPhase \cup RulePhase \cup ScoringPhase
  /\ {stepsRaced, rulesRaced, ruleDeleted} \subseteq BOOLEAN

ScriptInit ==
  /\ step = [x \in Step |-> NoRow] /\ rule = [x \in Rule |-> NoRow] /\ scoring = NoRow
  /\ scriptReq = [r \in ScriptRequest |-> ScriptIdle]
  /\ stepsRaced = FALSE /\ rulesRaced = FALSE /\ ruleDeleted = FALSE

-----------------------------------------------------------------------------
At(r, phase) == scriptReq[r].phase = phase
Goes(r, q) == scriptReq' = [scriptReq EXCEPT ![r] = q]
Quiet == UNCHANGED <<stepsRaced, rulesRaced, ruleDeleted>>
Reads(r, q) == Goes(r, q) /\ Quiet /\ UNCHANGED scriptRows
Others(r, phases) == \E x \in ScriptRequest \ {r} : scriptReq[x].phase \in phases

\* History: a write to the steps, or to the rules, while another request that
\* has read them is still under way.
WritesSteps(r) ==
  /\ stepsRaced' = (stepsRaced \/ Others(r, StepPhase))
  /\ UNCHANGED <<scoring, rule, rulesRaced, ruleDeleted>>
WritesRules(r) ==
  /\ rulesRaced' = (rulesRaced \/ Others(r, RulePhase))
  /\ UNCHANGED <<step, scoring, stepsRaced>>

\* A statement fails: what was written before it stays.
ScriptFails(r) ==
  /\ "db" \in ScriptFaults /\ ~At(r, "none")
  /\ Goes(r, ScriptIdle)
  /\ stepsRaced' = (stepsRaced \/ At(r, "reorder"))
  /\ rulesRaced' = (rulesRaced \/ At(r, "saveRule"))
  /\ UNCHANGED <<scriptRows, ruleDeleted>>

FindSteps == {x \in Step : step[x] # NoRow}
FindRules == {x \in Rule : rule[x] # NoRow}
\* An id is new.
Unused(x) == \A r \in ScriptRequest : "id" \in DOMAIN scriptReq[r] => scriptReq[r].id # x

\* What ORDER BY and sort.Slice may return: ties in any order.
Sorted(rows, ids) ==
  {q \in [1..Cardinality(ids) -> ids] :
     \A i, j \in 1..Cardinality(ids) : i < j => q[i] # q[j] /\ rows[q[i]].order <= rows[q[j]].order}
Position(q, x) == {i \in DOMAIN q : q[i] = x}

-----------------------------------------------------------------------------
(* Steps. *)

CreateStep(r) ==
  /\ At(r, "none") /\ specialist[Owning] # NoRow /\ IsActive(Owning)
  /\ Reads(r, [phase |-> "max", order |-> Max({step[x].order : x \in FindSteps} \cup {0}) + 1])

\* GORM writes the default TRUE of the column for FALSE.
NewStep(order, score) == [order |-> order, score |-> score, required |-> TRUE]
InsertStep(r, x, score) ==
  /\ At(r, "max") /\ step[x] = NoRow /\ Unused(x)
  /\ step' = [step EXCEPT ![x] = NewStep(scriptReq[r].order, score)]
  /\ WritesSteps(r) /\ Goes(r, ScriptIdle)

FindStep(r, x, phase) ==
  /\ At(r, "none") /\ step[x] # NoRow
  /\ Reads(r, [phase |-> phase, id |-> x, row |-> step[x]])
UpdateStep(r, x) == FindStep(r, x, "saveStep")
\* Save writes every column, and a row that is gone once more.
SaveStep(r, score, required) ==
  LET q == scriptReq[r] IN
  /\ At(r, "saveStep")
  /\ step' = [step EXCEPT ![q.id] = [q.row EXCEPT !.score = score, !.required = required]]
  /\ WritesSteps(r) /\ Goes(r, ScriptIdle)

DeleteStep(r, x) == FindStep(r, x, "delete")
DropStep(r) ==
  LET q == scriptReq[r] IN
  /\ At(r, "delete")
  /\ step' = [step EXCEPT ![q.id] = NoRow]
  /\ WritesSteps(r)
  /\ Goes(r, IF step[q.id] = NoRow THEN ScriptIdle ELSE [q EXCEPT !.phase = "reorder"])
\* Mutant: the one after the deleted one keeps its place.
CloseGapLate(row, order) == IF row.order > order + 1 THEN row.order - 1 ELSE row.order
CloseGap(row, order) == IF row.order > order THEN row.order - 1 ELSE row.order
ReorderAfterDelete(r) ==
  /\ At(r, "reorder")
  /\ step' = [x \in Step |-> IF step[x] = NoRow THEN NoRow
                             ELSE [step[x] EXCEPT !.order = CloseGap(step[x], scriptReq[r].row.order)]]
  /\ WritesSteps(r) /\ Goes(r, ScriptIdle)

\* The list is read after the step: one that vanished in between is at
\* position 0 of it, has the first of the list below it, and above it the
\* handler panics and answers 500.
MoveStep(r, x, dir) ==
  /\ At(r, "none") /\ step[x] # NoRow
  /\ Reads(r, [phase |-> "list", id |-> x, order |-> step[x].order, dir |-> dir])
Neighbors(rows, ids, x, dir) ==
  UNION {LET at == IF Position(q, x) = {} THEN 0 ELSE CHOOSE i \in Position(q, x) : TRUE
             to == IF dir = "up" THEN at - 1 ELSE at + 1
         IN IF to \in DOMAIN q THEN {q[to]} ELSE {} : q \in Sorted(rows, ids)}
ListSteps(r) ==
  LET q == scriptReq[r]
      near == Neighbors(step, FindSteps, q.id, q.dir)
  IN /\ At(r, "list")
     /\ \/ near = {} /\ Reads(r, ScriptIdle)
        \/ \E n \in near : Reads(r, [phase |-> "swap", id |-> q.id, order |-> q.order,
                                     neighbor |-> n, its |-> step[n].order])
\* One transaction, by id.
WithOrder(row, order) == IF row = NoRow THEN NoRow ELSE [row EXCEPT !.order = order]
SwapOrder(r) ==
  LET q == scriptReq[r] IN
  /\ At(r, "swap")
  /\ step' = [step EXCEPT ![q.id] = WithOrder(step[q.id], q.its),
                         ![q.neighbor] = WithOrder(step[q.neighbor], q.order)]
  /\ WritesSteps(r) /\ Goes(r, ScriptIdle)

-----------------------------------------------------------------------------
(* Thresholds. *)

TotalScore == MapThenSumSet(LAMBDA x : step[x].score, FindSteps)

UpdateScoring(r, form) ==
  /\ At(r, "none")
  /\ Reads(r, [phase |-> "config", form |-> form, total |-> TotalScore])

\* The first threshold of a specialist is not held against the total.
NewScoringConfig(threshold) == threshold > 0
UpdateThreshold(threshold, total) == threshold > 0 /\ threshold <= total
UpdateThresholdHumanoMin(human, threshold, total) == human <= threshold /\ human <= total
FindConfig(r) ==
  LET q == scriptReq[r]
      f == q.form
      mayStand == IF scoring = NoRow THEN NewScoringConfig(f.threshold)
                  ELSE UpdateThreshold(f.threshold, q.total)
  IN /\ At(r, "config")
     /\ Reads(r, IF mayStand /\ UpdateThresholdHumanoMin(f.human, f.threshold, q.total)
                 THEN [phase |-> "saveScoring", form |-> f] ELSE ScriptIdle)

\* Save: the unique key makes the second first row an update.
SaveScoring(r) ==
  /\ At(r, "saveScoring")
  /\ scoring' = scriptReq[r].form
  /\ Goes(r, ScriptIdle) /\ Quiet /\ UNCHANGED <<step, rule>>

-----------------------------------------------------------------------------
(* Cross-sell rules. *)

NewCrossSellRule(order) == [order |-> order, active |-> TRUE]
CreateRule(r) ==
  /\ At(r, "none") /\ specialist[Owning] # NoRow
  /\ Reads(r, [phase |-> "insertRule", order |-> Cardinality(FindRules) + 1])
InsertRule(r, x) ==
  /\ At(r, "insertRule") /\ rule[x] = NoRow /\ Unused(x)
  /\ rule' = [rule EXCEPT ![x] = NewCrossSellRule(scriptReq[r].order)]
  /\ WritesRules(r) /\ Goes(r, ScriptIdle) /\ UNCHANGED ruleDeleted

FindRule(r, x, phase) ==
  /\ At(r, "none") /\ rule[x] # NoRow
  /\ Reads(r, [phase |-> phase, id |-> x, row |-> rule[x]])
UpdateRule(r, x, active) ==
  /\ At(r, "none") /\ rule[x] # NoRow
  /\ Reads(r, [phase |-> "saveRule", id |-> x, row |-> [rule[x] EXCEPT !.active = active]])
\* Save brings back a rule that is gone.
SaveRule(r) ==
  LET q == scriptReq[r] IN
  /\ At(r, "saveRule")
  /\ rule' = [rule EXCEPT ![q.id] = q.row]
  /\ WritesRules(r) /\ Goes(r, ScriptIdle) /\ UNCHANGED ruleDeleted

\* No rule is renumbered.
DeleteRule(r, x) == FindRule(r, x, "deleteRule")
DropRule(r) ==
  LET q == scriptReq[r] IN
  /\ At(r, "deleteRule")
  /\ rule' = [rule EXCEPT ![q.id] = NoRow]
  /\ ruleDeleted' = TRUE
  /\ WritesRules(r) /\ Goes(r, ScriptIdle)

MoveRule(r, x, dir) ==
  /\ At(r, "none") /\ rule[x] # NoRow
  /\ Reads(r, [phase |-> "listRules", id |-> x, row |-> rule[x], dir |-> dir])
ListRules(r) ==
  LET q == scriptReq[r]
      near == Neighbors(rule, FindRules, q.id, q.dir)
  IN /\ At(r, "listRules")
     /\ \/ near = {} /\ Reads(r, ScriptIdle)
        \/ \E n \in near : Reads(r, [phase |-> "saveNeighbor", id |-> q.id, row |-> q.row,
                                     neighbor |-> n, its |-> rule[n]])
\* Two saves of whole rows as they were read, the orders exchanged.
Exchanged(q) == [q.its EXCEPT !.order = q.row.order]
SaveNeighbor(r) ==
  LET q == scriptReq[r] IN
  /\ At(r, "saveNeighbor")
  /\ rule' = [rule EXCEPT ![q.neighbor] = Exchanged(q)]
  /\ WritesRules(r)
  /\ Goes(r, [phase |-> "saveRule", id |-> q.id, row |-> [q.row EXCEPT !.order = q.its.order]])
  /\ UNCHANGED ruleDeleted

-----------------------------------------------------------------------------
StepForms(r) ==
  \/ CreateStep(r)
  \/ \E x \in Step :
       \/ UpdateStep(r, x) \/ DeleteStep(r, x)
       \/ MoveStep(r, x, "up") \/ MoveStep(r, x, "down")
       \/ \E score \in StepScore : InsertStep(r, x, score)
  \/ \E score \in StepScore, required \in BOOLEAN : SaveStep(r, score, required)
  \/ DropStep(r) \/ ReorderAfterDelete(r) \/ ListSteps(r) \/ SwapOrder(r)
ScoringForms(r) ==
  \/ \E threshold \in Threshold, human \in Threshold \cup {0} :
       UpdateScoring(r, [threshold |-> threshold, human |-> human])
  \/ FindConfig(r) \/ SaveScoring(r)
RuleForms(r) ==
  \/ CreateRule(r)
  \/ \E x \in Rule :
       DeleteRule(r, x) \/ \E active \in BOOLEAN : UpdateRule(r, x, active)
RuleMoves(r) == \E x \in Rule : MoveRule(r, x, "up") \/ MoveRule(r, x, "down")
\* The section of the page sends the same, but no update.
RuleSection(r) ==
  \/ CreateRule(r)
  \/ \E x \in Rule : DeleteRule(r, x) \/ MoveRule(r, x, "up") \/ MoveRule(r, x, "down")
RuleStatements(r) ==
  \/ \E x \in Rule : InsertRule(r, x)
  \/ SaveRule(r) \/ DropRule(r) \/ ListRules(r) \/ SaveNeighbor(r)

ScriptNext ==
  \E r \in ScriptRequest :
    \/ StepForms(r) \/ ScoringForms(r) \/ RuleForms(r) \/ RuleMoves(r) \/ RuleSection(r) \/ RuleStatements(r)
    \/ ScriptFails(r)
ScriptSpec == ScriptInit /\ [][ScriptNext]_scriptVars

-----------------------------------------------------------------------------
\* The steps are numbered from 1 without a gap and no two alike, as the turn
\* that asks them assumes, however they were created, moved and deleted, as
\* long as no two requests overlapped and none stopped between its delete and
\* its renumbering (delete_step.go:23-27, move_step.go:40-70).
Orders(rows, ids) == {rows[x].order : x \in ids}
StepsDense ==
  ~stepsRaced /\ (\A r \in ScriptRequest : ~At(r, "reorder"))
  => Orders(step, FindSteps) = 1..Cardinality(FindSteps)

\* The rules, tried in their order, have one each until one is deleted: the
\* next takes the count plus one, which the last may have
\* (create_cross_sell_rule.go:44).
RulesDistinct ==
  ~rulesRaced /\ ~ruleDeleted /\ (\A r \in ScriptRequest : ~At(r, "saveRule"))
    => Cardinality(Orders(rule, FindRules)) = Cardinality(FindRules)

\* Steps and rules keep their order.
ScriptInOrder == StepsDense /\ RulesDistinct
=============================================================================

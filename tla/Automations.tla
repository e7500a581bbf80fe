------------------------------ MODULE Automations ------------------------------
(***************************************************************************)
(* The automations of a column (src/internal/automation) over the leads of *)
(* module LeadBoard: what the engine runs inside the request that put a    *)
(* lead into the column, the ticker that expires leads, and the panel's    *)
(* edits of the automations beside both.                                   *)
(*                                                                         *)
(* An automation that moves the lead calls MoveLeadUseCase again, which    *)
(* triggers the automations of the next column before the rest of this     *)
(* one's run: rest is that stack.  Sending messages, switching specialists *)
(* and routing by product are stubs that change nothing ("stub").          *)
(***************************************************************************)
EXTENDS LeadBoard

CONSTANTS
  Automation,
  AutoForm,   \* what the panel's form can carry
  MaxRest     \* bound of the call stack

AutoType == {"move_funnel", "auto_note", "stub", "expiration"}
AutoRow ==
  [type : AutoType, column : ColumnId, target : ColumnId \cup {None}, funnel : Funnel \cup {None},
   action : {"archive", "delete", "none"}, hours : {"none", "below1", "whole"},
   active : BOOLEAN, priority : Nat]

ASSUME AutoAssumption ==
  /\ AutoForm \subseteq AutoRow /\ NoRow \notin AutoRow /\ IsFiniteSet(Automation)
  /\ MaxRest \in Nat

VARIABLES
  automation, \* rows of automations
  execLog,    \* execution_logs, as <<automation, lead, status>>
  notes,      \* leads with an automatic note
  ticker,     \* the expiration ticker
  autoReq     \* the panel's requests: a copy of the row to save

autoRows == <<automation, execLog, notes>>
autoVars == <<autoRows, ticker, autoReq>>

Resting == [phase |-> "rest"]
NoEdit == [phase |-> "none"]

AutoTypeOK ==
  /\ automation \in [Automation -> AutoRow \cup {NoRow}]
  /\ execLog \subseteq Automation \X Lead \X {"success", "error"}
  /\ notes \subseteq Lead
  /\ ticker.phase \in {"rest", "list", "lead", "moving"}
  /\ autoReq.phase \in {"none", "save"}

AutoInit ==
  /\ automation = [a \in Automation |-> NoRow]
  /\ execLog = {} /\ notes = {}
  /\ ticker = Resting
  /\ autoReq = NoEdit

-----------------------------------------------------------------------------
(* The engine. *)

\* main.go registers no executor for expiration nor for rate limits.
Registered == {"move_funnel", "auto_note", "stub"}

\* Mutant: the query is not narrowed to the column.
FindByTenant(c) == {a \in Automation : automation[a] # NoRow /\ automation[a].active}
FindByColumn(c) ==
  {a \in Automation : automation[a] # NoRow /\ automation[a].column = c /\ automation[a].active}

\* The runs of a column's automations, by priority; each keeps its copy.
Run(a, l) == [do |-> "run", auto |-> a, row |-> automation[a], lead |-> l]
Log(t, status) == [do |-> "log", auto |-> t.auto, lead |-> t.lead, status |-> status]
InOrder(s) ==
  \A i, j \in DOMAIN s : i < j => automation[s[i]].priority <= automation[s[j]].priority
Orders(S) ==
  {s \in [1 .. Cardinality(S) -> S] : InOrder(s) /\ {s[i] : i \in DOMAIN s} = S}

\* OnLeadEvent: the automations are listed once, before the first one runs.
OnLeadEvent(r) ==
  LET q == boardReq[r]
      found == {a \in FindByColumn(q.to) : automation[a].type \in Registered}
  IN /\ At(r, "trigger")
     /\ \E s \in Orders(found) :
          LET rest == [i \in DOMAIN s |-> Run(s[i], q.id)] \o q.rest
          IN IF rest = <<>> THEN Ends(r)
             ELSE /\ Len(rest) <= MaxRest
                  /\ Goes(r, [phase |-> "run", rest |-> rest])
     /\ UNCHANGED <<boardRows, orderRaced, leadRaced, unlogged, autoVars>>

TaskOf(r) == Head(boardReq[r].rest)
Continue(r, rest) == IF rest = <<>> THEN Ends(r) ELSE Goes(r, [phase |-> "run", rest |-> rest])
Then(r, status) == <<Log(TaskOf(r), status)>> \o Tail(boardReq[r].rest)

\* The move of a move_funnel automation; its own log entry follows everything
\* the move triggers.
RunMove(r) ==
  LET t == TaskOf(r) IN
  /\ At(r, "run") /\ t.do = "run" /\ t.row.type = "move_funnel"
  /\ IF t.row.target # None /\ Exists(t.row.target) /\ (t.row.funnel = None \/ funnel[t.row.funnel] # NoRow)
     THEN ChangeLead(r, t.lead, Moved(t.lead, t.row.target, t.row.funnel), TRUE, Then(r, "success"))
     ELSE Continue(r, Then(r, "error"))
  /\ UNCHANGED <<boardRows, orderRaced, leadRaced, unlogged, autoVars>>

\* A move inside a run fails: the engine swallows the error, logs it and goes on.
MoveFails(r) ==
  LET q == boardReq[r] IN
  /\ "db" \in BoardFaults
  /\ q.phase \in {"saveLead", "log"} /\ q.rest # <<>>
  /\ Refused(r)
  /\ unlogged' = IF q.phase = "log" THEN unlogged \cup {q.id} ELSE unlogged
  /\ UNCHANGED <<boardRows, orderRaced, leadRaced, autoVars>>

RunNote(r) ==
  LET t == TaskOf(r) IN
  /\ At(r, "run") /\ t.do = "run" /\ t.row.type = "auto_note"
  /\ notes' = notes \cup {t.lead}
  /\ Continue(r, Then(r, "success"))
  /\ UNCHANGED <<boardRows, orderRaced, leadRaced, unlogged, automation, execLog, ticker, autoReq>>

RunStub(r) ==
  LET t == TaskOf(r) IN
  /\ At(r, "run") /\ t.do = "run" /\ t.row.type \notin {"move_funnel", "auto_note"}
  /\ Continue(r, Then(r, "success"))
  /\ UNCHANGED <<boardRows, orderRaced, leadRaced, unlogged, autoVars>>

\* execution_logs references the automation; the error of the entry is dropped.
Logged(a, l, status) ==
  IF automation[a] # NoRow THEN execLog \cup {<<a, l, status>>} ELSE execLog

WriteLog(r) ==
  LET t == TaskOf(r) IN
  /\ At(r, "run") /\ t.do = "log"
  /\ execLog' = Logged(t.auto, t.lead, t.status)
  /\ Continue(r, Tail(boardReq[r].rest))
  /\ UNCHANGED <<boardRows, orderRaced, leadRaced, unlogged, automation, notes, ticker, autoReq>>

-----------------------------------------------------------------------------
(* The ticker: one automation and one lead after the other. *)

\* time.Duration(hours) * time.Hour: hours below one are no time at all, and
\* every lead of the column entered it before now.
OldEnough(row, l) == IF row.hours = "below1" THEN TRUE ELSE lead[l].aged
OpenIn(c) == {l \in Lead : lead[l] # NoRow /\ lead[l].column = c /\ lead[l].status = "open"}
FindExpired(row) ==
  IF row.hours = "none" THEN {} ELSE {l \in OpenIn(row.column) : OldEnough(row, l)}

Expirations ==
  {a \in Automation : automation[a] # NoRow /\ automation[a].active /\ automation[a].type = "expiration"}

Tick ==
  /\ ticker = Resting
  /\ Expirations # {}
  /\ ticker' = [phase |-> "list", autos |-> [a \in Expirations |-> automation[a]], leads |-> {}]
  /\ UNCHANGED <<boardVars, autoRows, autoReq>>

\* The next automation's expired leads, or the end of the tick.
ListExpired ==
  /\ ticker.phase = "list"
  /\ IF ticker.autos = <<>> THEN ticker' = Resting
     ELSE \E a \in DOMAIN ticker.autos :
            ticker' = [phase |-> "lead", auto |-> a, row |-> ticker.autos[a],
                       autos |-> [b \in DOMAIN ticker.autos \ {a} |-> ticker.autos[b]],
                       leads |-> FindExpired(ticker.autos[a])]
  /\ UNCHANGED <<boardVars, autoRows, autoReq>>

TheLead == CHOOSE l \in ticker.leads : TRUE
NextLead(phase) == ticker' = [ticker EXCEPT !.leads = @ \ {TheLead}, !.phase = phase]

LeadsDone ==
  /\ ticker.phase = "lead" /\ ticker.leads = {}
  /\ ticker' = [phase |-> "list", autos |-> ticker.autos, leads |-> {}]
  /\ UNCHANGED <<boardVars, autoRows, autoReq>>

\* SoftDelete updates the status alone.
DropLead ==
  LET l == TheLead IN
  /\ ticker.phase = "lead" /\ ticker.leads # {} /\ ticker.row.action = "delete"
  /\ lead' = [lead EXCEPT ![l].status = "lost", ![l].dropped = TRUE]
  /\ execLog' = Logged(ticker.auto, l, "success")
  /\ NextLead("lead")
  /\ UNCHANGED <<funnel, column, goneColumn, movement, boardReq, orderRaced, leadRaced, unlogged,
                 automation, notes, autoReq>>

\* The lost column of the funnel the lead is in by now, then MoveLeadUseCase
\* with all it triggers.
LostColumns(f) == {c \in ColumnsOf(f) : column[c].type = "lost"}

ArchiveLead ==
  LET l == TheLead IN
  /\ ticker.phase = "lead" /\ ticker.leads # {} /\ ticker.row.action = "archive"
  /\ \/ \E c \in LostColumns(lead[l].funnel) :
          /\ ChangeLead(TickSlot, l, Moved(l, c, None), TRUE,
               <<[do |-> "log", auto |-> ticker.auto, lead |-> l, status |-> "success"]>>)
          /\ NextLead("moving")
          /\ UNCHANGED execLog
     \/ /\ LostColumns(lead[l].funnel) = {}
        /\ execLog' = Logged(ticker.auto, l, "error")
        /\ NextLead("lead")
        /\ UNCHANGED boardReq
  /\ UNCHANGED <<boardRows, orderRaced, leadRaced, unlogged, automation, notes, autoReq>>

MoveReturns ==
  /\ ticker.phase = "moving"
  /\ boardReq[TickSlot] = Over
  /\ ticker' = [ticker EXCEPT !.phase = "lead"]
  /\ UNCHANGED <<boardVars, autoRows, autoReq>>

TickerStep == Tick \/ ListExpired \/ LeadsDone \/ DropLead \/ ArchiveLead \/ MoveReturns

-----------------------------------------------------------------------------
(* The panel. *)

CreateAutomation(a, row) ==
  /\ automation[a] = NoRow
  /\ automation' = [automation EXCEPT ![a] = row]
  /\ UNCHANGED <<boardVars, execLog, notes, ticker, autoReq>>

\* Toggle and Update find the row ...
EditAutomation(a, row) ==
  /\ autoReq = NoEdit
  /\ autoReq' = [phase |-> "save", id |-> a, copy |-> row]
  /\ UNCHANGED <<boardVars, autoRows, ticker>>
ToggleAutomation(a) ==
  automation[a] # NoRow /\ EditAutomation(a, [automation[a] EXCEPT !.active = ~@])

\* ... and save the copy: a row deleted meanwhile is inserted again.
SaveAutomation ==
  /\ autoReq # NoEdit
  /\ automation' = [automation EXCEPT ![autoReq.id] = autoReq.copy]
  /\ autoReq' = NoEdit
  /\ UNCHANGED <<boardVars, execLog, notes, ticker>>

\* The logs go with it.
DeleteAutomation(a) ==
  /\ automation[a] # NoRow
  /\ automation' = [automation EXCEPT ![a] = NoRow]
  /\ execLog' = {e \in execLog : e[1] # a}
  /\ UNCHANGED <<boardVars, notes, ticker, autoReq>>

Engine(r) ==
  OnLeadEvent(r) \/ RunMove(r) \/ MoveFails(r) \/ RunNote(r) \/ RunStub(r) \/ WriteLog(r)
Edit(a) == ToggleAutomation(a) \/ SaveAutomation
AddOrDelete(a) == DeleteAutomation(a) \/ \E row \in AutoForm : CreateAutomation(a, row)

\* Every request, run, tick and edit beside every other.
BoardNext ==
  \/ \E r \in Client : FunnelPages(r) \/ ColumnPages(r) \/ LeadPages(r) \/ NewLeads(r) \/ BoardFails(r)
  \/ SaveLead(TickSlot) \/ LogMovement(TickSlot)
  \/ \E l \in Lead : Age(l)
LeadsNext ==
  \/ BoardNext /\ UNCHANGED autoVars
  \/ \E r \in BoardRequest : Engine(r)
  \/ TickerStep
  \/ \E a \in Automation : Edit(a) \/ AddOrDelete(a)
LeadsSpec == BoardInit /\ AutoInit /\ [][LeadsNext]_<<boardVars, autoVars>>

-----------------------------------------------------------------------------
\* An entry of the execution log names an automation that is there, although
\* automations are deleted while their runs are under way (engine.go:107).
LogsHaveAutomation == \A e \in execLog : automation[e[1]] # NoRow

\* What waits for an expiration: an open lead that is old in a column with one.
Expired(l) ==
  /\ lead[l] # NoRow /\ lead[l].status = "open" /\ lead[l].aged
  /\ LostColumns(lead[l].funnel) # {}
  /\ \E a \in Expirations :
       automation[a].column = lead[l].column /\ automation[a].hours = "whole" /\ automation[a].action # "none"

\* A lead that has expired is archived or dropped in the end, unless it is
\* moved or its automation switched off first (ticker.go:46).
ExpiredLeadsLeave == \A l \in Lead : Expired(l) ~> ~Expired(l)

\* From one column an automation, on or off, leads to another.
LeadsOn(c, d) ==
  \E a \in Automation :
    automation[a] # NoRow /\ automation[a].type = "move_funnel"
      /\ automation[a].column = c /\ automation[a].target = d
\* The columns can be numbered along the automations: none leads back.
NoWayBack ==
  LET from == {automation[a].column : a \in {b \in Automation : automation[b] # NoRow}}
  IN \E n \in [from -> 1 .. Cardinality(from)] :
       \A c, d \in from : LeadsOn(c, d) => n[c] < n[d]

\* A request that put a lead into a column comes back, however many columns
\* its runs take the lead through, fail or are switched off and on meanwhile,
\* unless the automations lead back to a column: nothing ends a chain but its
\* end (engine.go:64 runs them inside the request).  That the ones that lead
\* back are switched off is not enough, since they may be switched in turn.
MovesReturn ==
  \A r \in BoardRequest : boardReq[r].phase = "trigger" ~> (boardReq[r] = Over \/ ~NoWayBack)

\* What a lead's page tells of it: its status, its way over the board and the
\* automations that ran, whichever requests and runs overlapped.
LeadsTellTheirWay == AutoTypeOK /\ StatusFollowsColumn /\ MovementsTellTheWay /\ LogsHaveAutomation
=============================================================================

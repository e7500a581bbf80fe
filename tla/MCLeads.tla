-------------------------------- MODULE MCLeads --------------------------------
(***************************************************************************)
(* Funnels, leads and automations on small instances: the columns of two   *)
(* funnels as they are created and edited; leads moving over a board with  *)
(* automations; a chain of automations over three columns; the ticker      *)
(* beside one move; and first leads of contacts.                           *)
(***************************************************************************)
EXTENDS Automations, TLC

CONSTANTS f1, f2, l1, k1, r1, r2, a1, a2, a3

VARIABLE part
leadsVars == <<boardVars, autoVars, part>>

Form(type, c, target, f, action, hours) ==
  [type |-> type, column |-> c, target |-> target, funnel |-> f, action |-> action, hours |-> hours,
   active |-> TRUE, priority |-> 0]
ToSecond == Form("move_funnel", 2, 4, f2, "none", "none")
Note == [Form("auto_note", 4, None, None, "none", "none") EXCEPT !.priority = 1]
Message == Form("stub", 4, None, None, "none", "none")
Archive == Form("expiration", 1, None, None, "archive", "whole")
Drop == Form("expiration", 4, None, None, "delete", "whole")
AtOnce == Form("expiration", 1, None, None, "delete", "below1")
Onward == Form("move_funnel", 4, 3, f1, "none", "none")
Back == Form("move_funnel", 3, 2, None, "none", "none")
Forms == {Message, Back}

\* f1 with an entry, a won and a lost column, f2 with an entry column.
Board == [c \in ColumnId |->
  CASE c = 1 -> NewColumn(f1, "entry", 0)
    [] c = 2 -> NewColumn(f1, "won", 1)
    [] c = 3 -> NewColumn(f1, "lost", 2)
    [] c = 4 -> NewColumn(f2, "entry", 0)
    [] OTHER -> NoRow]
OneLead == [l \in Lead |-> IF l = l1 THEN NewLead(k1, f1, 1) ELSE NoRow]
OneMovement == [l \in Lead |-> IF l = l1 THEN <<[from |-> None, to |-> 1]>> ELSE <<>>]

MCInit ==
  /\ goneColumn = {} /\ orderRaced = FALSE /\ leadRaced = {} /\ unlogged = {}
  /\ execLog = {} /\ notes = {} /\ ticker = Resting /\ autoReq = NoEdit
  /\ boardReq = [r \in BoardRequest |-> IF r = TickSlot THEN Over ELSE Waiting]
  /\ \/ /\ part = "funnels"
        /\ funnel = [f \in Funnel |-> NoRow] /\ column = [c \in ColumnId |-> NoRow]
        /\ lead = [l \in Lead |-> NoRow] /\ movement = [l \in Lead |-> <<>>]
        /\ automation = [a \in Automation |-> NoRow]
     \/ /\ part = "columns"
        /\ funnel = [f \in Funnel |-> IF f = f1 THEN SetDefault(NewFunnel) ELSE NoRow]
        /\ column = [c \in ColumnId |-> IF c <= 5 THEN NewColumn(f1, DefaultColumns[c], c - 1) ELSE NoRow]
        /\ lead = [l \in Lead |-> NoRow] /\ movement = [l \in Lead |-> <<>>]
        /\ automation = [a \in Automation |-> NoRow]
     \/ /\ part = "contacts"
        /\ funnel = [f \in Funnel |-> IF f = f1 THEN SetDefault(NewFunnel) ELSE NewFunnel]
        /\ column = Board
        /\ lead = [l \in Lead |-> NoRow] /\ movement = [l \in Lead |-> <<>>]
        /\ automation = [a \in Automation |-> NoRow]
     \/ /\ part \in {"leads", "chain", "ticker"}
        /\ funnel = [f \in Funnel |-> IF f = f1 THEN SetDefault(NewFunnel) ELSE NewFunnel]
        /\ column = Board /\ lead = OneLead /\ movement = OneMovement
        /\ CASE part = "leads" -> automation = (a1 :> ToSecond @@ a2 :> Note @@ a3 :> NoRow)
             [] part = "chain" -> \E row \in {[Note EXCEPT !.column = 3], NoRow} :
                  automation = (a1 :> ToSecond @@ a2 :> Onward @@ a3 :> row)
             [] part = "ticker" -> \E row \in {Archive, AtOnce} :
                  automation = (a1 :> row @@ a2 :> Drop @@ a3 :> [Note EXCEPT !.column = 3])

FunnelsPart ==
  /\ \E r \in {r1, r2} : FunnelPages(r) \/ BoardFails(r)
  /\ UNCHANGED autoVars
ColumnsPart ==
  /\ \E r \in Client : ColumnPages(r) \/ BoardFails(r)
  /\ UNCHANGED autoVars
LeadsPart ==
  \/ /\ \/ NewLeads(r1) \/ BoardFails(r1)
        \/ \E r \in {r1, r2} : LeadPages(r)
        \/ \E r \in Client \ {r1, r2} : (\E c \in {3, 4} : DeleteColumn(r, c)) \/ DeleteColumnRow(r)
     /\ UNCHANGED autoVars
  \/ \E r \in {r1, r2} : Engine(r)
  \/ DeleteAutomation(a2) \/ CreateAutomation(a2, Message)
ContactsPart ==
  \E r \in Client :
    \/ (NewLeads(r) \/ LogMovement(r) \/ BoardFails(r)) /\ UNCHANGED autoVars
    \/ OnLeadEvent(r)
Serve(r) ==
  \/ (SaveLead(r) \/ LogMovement(r)) /\ UNCHANGED autoVars
  \/ OnLeadEvent(r) \/ RunMove(r) \/ RunNote(r) \/ RunStub(r) \/ WriteLog(r)
ChainPart ==
  \/ MoveForm(r1) /\ UNCHANGED autoVars
  \/ Serve(r1) \/ MoveFails(r1)
  \/ Edit(a1) \/ Edit(a2) \/ \E row \in Forms : CreateAutomation(a3, row)
TickerPart ==
  \/ /\ MoveForm(r1) \/ (\E l \in Lead : Age(l))
     /\ UNCHANGED autoVars
  \/ Serve(r1) \/ Serve(TickSlot)
  \/ TickerStep
  \/ Edit(a1)

MCNext ==
  /\ \/ part = "funnels" /\ FunnelsPart
     \/ part = "columns" /\ ColumnsPart
     \/ part = "leads" /\ LeadsPart
     \/ part = "contacts" /\ ContactsPart
     \/ part = "chain" /\ ChainPart
     \/ part = "ticker" /\ TickerPart
  /\ UNCHANGED part

\* A request and the ticker go on; nobody has to ask for anything.
MCSpec ==
  /\ MCInit /\ [][MCNext]_leadsVars
  /\ WF_leadsVars(part = "ticker" /\ TickerStep /\ UNCHANGED part)
  /\ \A r \in {r1, TickSlot} : WF_leadsVars(part \in {"chain", "ticker"} /\ Serve(r) /\ UNCHANGED part)

\* Only there requests are fair.
MovesReturnThere == part \in {"chain", "ticker"} => MovesReturn

\* The ticker's runs and the runs a move starts end.
RunsEnd == ExpiredLeadsLeave /\ MovesReturnThere
=============================================================================

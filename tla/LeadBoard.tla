------------------------------- MODULE LeadBoard -------------------------------
(***************************************************************************)
(* Funnels, their columns and the leads on them (src/internal/funnel), for *)
(* one tenant: what a find returns is refused when it is another tenant's, *)
(* but for the column of a move, whose tenant is not looked at             *)
(* (move_lead.go:88); the forms offer the tenant's own.                    *)
(*                                                                         *)
(* A request reads rows, decides, and writes; each read it decides on and  *)
(* each write is an action of its own, because nothing locks a funnel, a   *)
(* column or a lead.  Leads and funnels are saved whole.  A request that   *)
(* put a lead into a column ends in phase "trigger", which module          *)
(* Automations takes up.                                                   *)
(***************************************************************************)
EXTENDS Integers, Sequences, FiniteSets

CONSTANTS
  Funnel, Lead, Contact, User, Product,
  ColumnId,     \* numbered in the order of insertion
  MaxColumns,   \* MaxColumnsPerFunnel
  NewTypes,     \* types the column form is sent with
  BoardRequest, \* requests in flight
  TickSlot,     \* the one the ticker of module Automations moves leads as
  BoardFaults,  \* subset of {"db"}
  NoRow, None

ColumnType == {"entry", "intermediate", "won", "lost"}

\* domain/defaults.go
DefaultColumns == <<"entry", "intermediate", "intermediate", "won", "lost">>

FunnelRow == [active : BOOLEAN, default : BOOLEAN]
ColumnRow == [funnel : Funnel, type : ColumnType, order : Nat]
LeadRow ==
  [contact : Contact, funnel : Funnel, column : ColumnId, status : {"open", "won", "lost"},
   owner : User \cup {None}, product : Product \cup {None},
   aged : BOOLEAN,      \* column_entered_at is before an expiration's cutoff
   dropped : BOOLEAN,   \* history: the status is an expiration's
   twin : BOOLEAN]      \* history: another lead of the contact was being created when it was looked for
Movement == [from : ColumnId \cup {None}, to : ColumnId]

ASSUME BoardAssumption ==
  /\ ColumnId \subseteq Nat /\ None \notin ColumnId
  /\ MaxColumns \in Nat /\ MaxColumns >= Len(DefaultColumns)
  /\ NewTypes \subseteq ColumnType
  /\ IsFiniteSet(Funnel) /\ IsFiniteSet(Lead)
  /\ IsFiniteSet(BoardRequest) /\ TickSlot \in BoardRequest /\ BoardFaults \subseteq {"db"}
  /\ NoRow \notin FunnelRow \cup ColumnRow \cup LeadRow

VARIABLES
  funnel,      \* rows of funnels
  column,      \* rows of funnel_columns; a deleted one stays in goneColumn
  goneColumn,
  lead,        \* rows of leads
  movement,    \* lead_movements of each lead, oldest first
  boardReq,    \* requests in flight
  orderRaced,  \* history: an order_index was written from a stale read
  leadRaced,   \* history: leads saved from a stale copy, or whose moves overlapped
  unlogged     \* history: leads one of whose moves is not in the movements

boardRows == <<funnel, column, goneColumn, lead, movement>>
boardVars == <<boardRows, boardReq, orderRaced, leadRaced, unlogged>>

Client == BoardRequest \ {TickSlot}
Waiting == [phase |-> "new"]
Over == [phase |-> "over"]
BoardPhase ==
  {"new", "over", "columns", "first", "saveFunnel", "order", "insertColumn", "deleteColumn", "swap",
   "entry", "insertLead", "saveLead", "log", "trigger", "run"}

BoardTypeOK ==
  /\ funnel \in [Funnel -> FunnelRow \cup {NoRow}]
  /\ column \in [ColumnId -> ColumnRow \cup {NoRow}]
  /\ goneColumn \subseteq ColumnId
  /\ lead \in [Lead -> LeadRow \cup {NoRow}]
  /\ movement \in [Lead -> Seq(Movement)]
  /\ \A r \in BoardRequest : boardReq[r].phase \in BoardPhase
  /\ orderRaced \in BOOLEAN /\ leadRaced \subseteq Lead /\ unlogged \subseteq Lead

BoardInit ==
  /\ funnel = [f \in Funnel |-> NoRow]
  /\ column = [c \in ColumnId |-> NoRow]
  /\ goneColumn = {}
  /\ lead = [l \in Lead |-> NoRow]
  /\ movement = [l \in Lead |-> <<>>]
  /\ boardReq = [r \in BoardRequest |-> Waiting]
  /\ orderRaced = FALSE /\ leadRaced = {} /\ unlogged = {}

-----------------------------------------------------------------------------
(* Rows and queries.                                                       *)

NewFunnel == [active |-> TRUE, default |-> FALSE]
SetDefault(row) == [row EXCEPT !.default = TRUE]
Toggled(row) == [row EXCEPT !.active = ~@]

NewColumn(f, type, order) == [funnel |-> f, type |-> type, order |-> order]

NewLead(k, f, c) ==
  [contact |-> k, funnel |-> f, column |-> c, status |-> "open", owner |-> None, product |-> None,
   aged |-> FALSE, dropped |-> FALSE, twin |-> FALSE]

StatusIn(type) == IF type \in {"won", "lost"} THEN type ELSE "open"
MoveTo(row, c, type) ==
  [row EXCEPT !.column = c, !.aged = FALSE, !.dropped = FALSE, !.status = StatusIn(type)]
SetProduct(row, p) == [row EXCEPT !.product = p]
AssignResponsible(row, u) == [row EXCEPT !.owner = u]

Exists(c) == column[c] # NoRow
ColumnsOf(f) == {c \in ColumnId : Exists(c) /\ column[c].funnel = f}
MaxOrder(f) ==
  IF ColumnsOf(f) = {} THEN -1
  ELSE column[CHOOSE c \in ColumnsOf(f) : \A d \in ColumnsOf(f) : column[d].order <= column[c].order].order
FreshColumn ==
  CHOOSE c \in ColumnId :
    /\ ~Exists(c) /\ c \notin goneColumn
    /\ \A d \in ColumnId : d < c => Exists(d) \/ d \in goneColumn
RoomForColumn == \E c \in ColumnId : ~Exists(c) /\ c \notin goneColumn
\* FindEntryByFunnelID: First orders by the primary key, which says nothing.
EntryOf(f) == {c \in ColumnsOf(f) : column[c].type = "entry"}
FindDefault == {f \in Funnel : funnel[f] # NoRow /\ funnel[f].default /\ funnel[f].active}
CountByColumn(c) == Cardinality({l \in Lead : lead[l] # NoRow /\ lead[l].column = c})
\* Mutant: a lead is created for every first message and note.
NeverFound(k) == {}
FindByContact(k) == {l \in Lead : lead[l] # NoRow /\ lead[l].contact = k}

Ends(r) == boardReq' = [boardReq EXCEPT ![r] = Over]
Goes(r, q) == boardReq' = [boardReq EXCEPT ![r] = q]
Starts(r) == boardReq[r] = Waiting
At(r, phase) == boardReq[r].phase = phase

\* What is left of the run a request is in; nothing outside of one.
RestOf(q) == IF q.phase \in {"saveLead", "log"} THEN q.rest ELSE <<>>

\* A statement of any request fails, and with it the request, unless it is a
\* move inside a run, which module Automations takes up.
BoardFails(r) ==
  /\ "db" \in BoardFaults
  /\ boardReq[r].phase \notin {"new", "over", "trigger", "run"}
  /\ RestOf(boardReq[r]) = <<>>
  /\ Ends(r)
  /\ unlogged' = IF At(r, "log") THEN unlogged \cup {boardReq[r].id} ELSE unlogged
  /\ UNCHANGED <<boardRows, orderRaced, leadRaced>>

-----------------------------------------------------------------------------
(* Funnels. *)

CreateFunnel(r, f) ==
  /\ Starts(r)
  /\ funnel[f] = NoRow
  /\ funnel' = [funnel EXCEPT ![f] = NewFunnel]
  /\ Goes(r, [phase |-> "columns", id |-> f, added |-> 0])
  /\ UNCHANGED <<column, goneColumn, lead, movement, orderRaced, leadRaced, unlogged>>

AddDefaultColumn(r) ==
  LET q == boardReq[r] IN
  /\ At(r, "columns")
  /\ RoomForColumn
  /\ column' = [column EXCEPT ![FreshColumn] = NewColumn(q.id, DefaultColumns[q.added + 1], q.added)]
  /\ Goes(r, [phase |-> IF q.added + 1 = Len(DefaultColumns) THEN "first" ELSE "columns",
              id |-> q.id, added |-> q.added + 1])
  /\ orderRaced' = (orderRaced \/ MaxOrder(q.id) >= q.added)
  /\ UNCHANGED <<funnel, goneColumn, lead, movement, leadRaced, unlogged>>

\* FindByTenantID after the insert: the first funnel finds itself alone.
OnlyFunnel == Cardinality({f \in Funnel : funnel[f] # NoRow}) <= 1

IsFirstFunnel(r) ==
  LET q == boardReq[r] IN
  /\ At(r, "first")
  /\ IF OnlyFunnel
     THEN Goes(r, [phase |-> "saveFunnel", id |-> q.id, copy |-> SetDefault(NewFunnel)])
     ELSE Ends(r)
  /\ UNCHANGED <<boardRows, orderRaced, leadRaced, unlogged>>

\* UpdateFunnel changes only the name; ToggleFunnel the flag.
ChangeFunnel(r, f, row) ==
  /\ Starts(r)
  /\ funnel[f] # NoRow
  /\ Goes(r, [phase |-> "saveFunnel", id |-> f, copy |-> row])
  /\ UNCHANGED <<boardRows, orderRaced, leadRaced, unlogged>>
UpdateFunnel(r, f) == ChangeFunnel(r, f, funnel[f])
ToggleFunnel(r, f) == funnel[f] # NoRow /\ ChangeFunnel(r, f, Toggled(funnel[f]))

SaveFunnel(r) ==
  /\ At(r, "saveFunnel")
  /\ funnel' = [funnel EXCEPT ![boardReq[r].id] = boardReq[r].copy]
  /\ Ends(r)
  /\ UNCHANGED <<column, goneColumn, lead, movement, orderRaced, leadRaced, unlogged>>

-----------------------------------------------------------------------------
(* Columns. *)

HasRoom(f) == Cardinality(ColumnsOf(f)) < MaxColumns

CreateColumn(r, f, type) ==
  /\ Starts(r)
  /\ funnel[f] # NoRow
  /\ IF funnel[f].active /\ HasRoom(f)
     THEN Goes(r, [phase |-> "order", id |-> f, type |-> type])
     ELSE Ends(r)
  /\ UNCHANGED <<boardRows, orderRaced, leadRaced, unlogged>>

NextOrder(f) == MaxOrder(f) + 1

ReadMaxOrder(r) ==
  LET q == boardReq[r] IN
  /\ At(r, "order")
  /\ Goes(r, [phase |-> "insertColumn", id |-> q.id, type |-> q.type, order |-> NextOrder(q.id)])
  /\ UNCHANGED <<boardRows, orderRaced, leadRaced, unlogged>>

InsertColumn(r) ==
  LET q == boardReq[r] IN
  /\ At(r, "insertColumn")
  /\ RoomForColumn
  /\ column' = [column EXCEPT ![FreshColumn] = NewColumn(q.id, q.type, q.order)]
  /\ orderRaced' = (orderRaced \/ q.order # NextOrder(q.id))
  /\ Ends(r)
  /\ UNCHANGED <<funnel, goneColumn, lead, movement, leadRaced, unlogged>>

DeleteColumn(r, c) ==
  /\ Starts(r)
  /\ Exists(c)
  /\ IF CountByColumn(c) = 0 THEN Goes(r, [phase |-> "deleteColumn", id |-> c]) ELSE Ends(r)
  /\ UNCHANGED <<boardRows, orderRaced, leadRaced, unlogged>>

\* leads and lead_movements reference the column: the delete is refused.
\* Mutant: no foreign keys, the count has been taken.
Unchecked(c) == FALSE
Referenced(c) ==
  \/ CountByColumn(c) > 0
  \/ \E l \in Lead : \E i \in DOMAIN movement[l] : c \in {movement[l][i].from, movement[l][i].to}

DeleteColumnRow(r) ==
  LET c == boardReq[r].id IN
  /\ At(r, "deleteColumn")
  /\ IF Exists(c) /\ ~Referenced(c)
     THEN column' = [column EXCEPT ![c] = NoRow] /\ goneColumn' = goneColumn \cup {c}
     ELSE UNCHANGED <<column, goneColumn>>
  /\ Ends(r)
  /\ UNCHANGED <<funnel, lead, movement, orderRaced, leadRaced, unlogged>>

\* The columns in order: the neighbour of c one up or one down.
Neighbour(c, up) ==
  LET f == column[c].funnel
      side == {d \in ColumnsOf(f) \ {c} :
                 IF up THEN column[d].order <= column[c].order ELSE column[d].order >= column[c].order}
  IN {d \in side : \A e \in side :
        IF up THEN column[e].order <= column[d].order ELSE column[e].order >= column[d].order}

MoveColumn(r, c, up) ==
  /\ Starts(r)
  /\ Exists(c)
  /\ \/ Neighbour(c, up) = {} /\ Ends(r)
     \/ \E d \in Neighbour(c, up) :
          Goes(r, [phase |-> "swap", id |-> c, with |-> d,
                   order |-> column[c].order, other |-> column[d].order])
  /\ UNCHANGED <<boardRows, orderRaced, leadRaced, unlogged>>

\* One transaction of two updates, with the indexes that were read.
SwapOrder(r) ==
  LET q == boardReq[r] IN
     /\ At(r, "swap")
     /\ column' = [c \in ColumnId |->
          CASE Exists(c) /\ c = q.id -> [column[c] EXCEPT !.order = q.other]
            [] Exists(c) /\ c = q.with -> [column[c] EXCEPT !.order = q.order]
            [] OTHER -> column[c]]
     /\ orderRaced' = (orderRaced \/ ~Exists(q.id) \/ ~Exists(q.with)
                         \/ (Exists(q.id) /\ column[q.id].order # q.order)
                         \/ (Exists(q.with) /\ column[q.with].order # q.other))
     /\ Ends(r)
     /\ UNCHANGED <<funnel, goneColumn, lead, movement, leadRaced, unlogged>>

-----------------------------------------------------------------------------
(* Leads. *)

\* The creations past the lookup of contact k: no unique key stops the second.
CreatesFor(q, k) ==
  \/ q.phase = "entry" /\ q.contact = k
  \/ q.phase = "insertLead" /\ q.copy.contact = k
Creating(k) == {r \in BoardRequest : CreatesFor(boardReq[r], k)}

\* No lead of the contact yet; the funnel a product routes to, or the default.
CreateLead(r, k, p) ==
  /\ Starts(r)
  /\ LET routed == IF p = None THEN {} ELSE {f \in Funnel : funnel[f] # NoRow /\ funnel[f].active}
     IN IF FindByContact(k) # {} \/ (routed \cup FindDefault = {})
        THEN Ends(r)
        ELSE \E f \in routed \cup FindDefault :
               Goes(r, [phase |-> "entry", contact |-> k, funnel |-> f, product |-> p,
                        twin |-> Creating(k) # {}])
  /\ UNCHANGED <<boardRows, orderRaced, leadRaced, unlogged>>

\* The entry column, then the picker (module Access): without a responsible
\* there is no lead.
FindEntry(r) ==
  LET q == boardReq[r] IN
  /\ At(r, "entry")
  /\ \/ \E c \in EntryOf(q.funnel), u \in User :
          Goes(r, [phase |-> "insertLead",
                   copy |-> [AssignResponsible(SetProduct(NewLead(q.contact, q.funnel, c), q.product), u)
                               EXCEPT !.twin = q.twin]])
     \/ Ends(r)
  /\ UNCHANGED <<boardRows, orderRaced, leadRaced, unlogged>>

\* fk_leads_column.
ColumnKept(c) == Exists(c)

InsertLead(r, l) ==
  LET q == boardReq[r] IN
  /\ At(r, "insertLead")
  /\ lead[l] = NoRow
  /\ IF ColumnKept(q.copy.column)
     THEN /\ lead' = [lead EXCEPT ![l] = q.copy]
          /\ Goes(r, [phase |-> "log", id |-> l, from |-> None, to |-> q.copy.column, rest |-> <<>>])
     ELSE Ends(r) /\ UNCHANGED lead
  /\ UNCHANGED <<funnel, column, goneColumn, movement, orderRaced, leadRaced, unlogged>>

\* A move is refused: a request is over, a run logs the error and goes on.
Refused(r) ==
  LET rest == boardReq[r].rest IN
  IF rest = <<>> THEN Ends(r)
  ELSE Goes(r, [phase |-> "run", rest |-> <<[Head(rest) EXCEPT !.status = "error"]>> \o Tail(rest)])

\* FindByID and a change in memory; log says whether a movement follows.
ChangeLead(r, l, row, log, rest) ==
  Goes(r, [phase |-> "saveLead", id |-> l, seen |-> lead[l], copy |-> row, log |-> log, rest |-> rest])

\* The lead, the column, and the funnel when another one is chosen: that the
\* column is one of its columns is not looked at.
Moved(l, c, f) == MoveTo([lead[l] EXCEPT !.funnel = IF f = None THEN @ ELSE f], c, column[c].type)
MoveLead(r, l, c, f) ==
  /\ Starts(r)
  /\ lead[l] # NoRow /\ Exists(c)
  /\ f # None => funnel[f] # NoRow
  /\ ChangeLead(r, l, Moved(l, c, f), TRUE, <<>>)
  /\ UNCHANGED <<boardRows, orderRaced, leadRaced, unlogged>>

EditLead(r, l, row) ==
  /\ Starts(r)
  /\ lead[l] # NoRow
  /\ ChangeLead(r, l, row, FALSE, <<>>)
  /\ UNCHANGED <<boardRows, orderRaced, leadRaced, unlogged>>
AssignLead(r, l, u) == lead[l] # NoRow /\ EditLead(r, l, AssignResponsible(lead[l], u))
SetLeadProduct(r, l, p) == lead[l] # NoRow /\ EditLead(r, l, SetProduct(lead[l], p))

Settled(l) == \A r \in BoardRequest : ~(boardReq[r].phase = "log" /\ boardReq[r].id = l)

\* Save writes every column of the copy.
\* Mutant: the status is not among them.
SaveWithoutStatus(l, row) == [row EXCEPT !.status = lead[l].status]
SavedLead(l, row) == row

SaveLead(r) ==
  LET q == boardReq[r] IN
  /\ At(r, "saveLead")
  /\ IF ColumnKept(q.copy.column)
     THEN /\ lead' = [lead EXCEPT ![q.id] = SavedLead(q.id, q.copy)]
          /\ leadRaced' = IF lead[q.id] = q.seen /\ (q.log => Settled(q.id)) THEN leadRaced
                          ELSE leadRaced \cup {q.id}
          /\ IF q.log
             THEN Goes(r, [phase |-> "log", id |-> q.id, from |-> q.seen.column, to |-> q.copy.column,
                           rest |-> q.rest])
             ELSE Ends(r)
     ELSE Refused(r) /\ UNCHANGED <<lead, leadRaced>>
  /\ UNCHANGED <<funnel, column, goneColumn, movement, orderRaced, unlogged>>

\* The movement: it references both columns.
LogMovement(r) ==
  LET q == boardReq[r]
      kept == ColumnKept(q.to) /\ (q.from = None \/ ColumnKept(q.from))
  IN /\ At(r, "log")
     /\ IF kept
        THEN /\ movement' = [movement EXCEPT ![q.id] = Append(@, [from |-> q.from, to |-> q.to])]
             /\ Goes(r, [q EXCEPT !.phase = "trigger"])
             /\ UNCHANGED unlogged
        ELSE Refused(r) /\ unlogged' = unlogged \cup {q.id} /\ UNCHANGED movement
     /\ UNCHANGED <<funnel, column, goneColumn, lead, orderRaced, leadRaced>>

\* Time passes in a column.
Age(l) ==
  /\ lead[l] # NoRow /\ ~lead[l].aged
  /\ lead' = [lead EXCEPT ![l].aged = TRUE]
  /\ UNCHANGED <<funnel, column, goneColumn, movement, boardReq, orderRaced, leadRaced, unlogged>>

-----------------------------------------------------------------------------
FunnelPages(r) ==
  \/ \E f \in Funnel : CreateFunnel(r, f) \/ UpdateFunnel(r, f) \/ ToggleFunnel(r, f)
  \/ AddDefaultColumn(r) \/ IsFirstFunnel(r) \/ SaveFunnel(r)
ColumnPages(r) ==
  \/ \E f \in Funnel, type \in NewTypes : CreateColumn(r, f, type)
  \/ \E c \in ColumnId : DeleteColumn(r, c) \/ MoveColumn(r, c, TRUE) \/ MoveColumn(r, c, FALSE)
  \/ ReadMaxOrder(r) \/ InsertColumn(r) \/ DeleteColumnRow(r) \/ SwapOrder(r)
\* The move form offers every funnel with the columns of the lead's own one,
\* the board the columns alone.
MoveForm(r) ==
  \E l \in Lead : lead[l] # NoRow /\ \E c \in ColumnsOf(lead[l].funnel), f \in Funnel \cup {None} :
    MoveLead(r, l, c, f)
LeadPages(r) ==
  \/ MoveForm(r)
  \/ \E l \in Lead : (\E u \in User : AssignLead(r, l, u)) \/ (\E p \in Product : SetLeadProduct(r, l, p))
  \/ SaveLead(r) \/ LogMovement(r)
NewLeads(r) ==
  \/ \E k \in Contact, p \in Product \cup {None} : CreateLead(r, k, p)
  \/ FindEntry(r)
  \/ \E l \in Lead : InsertLead(r, l)

-----------------------------------------------------------------------------
\* However creations of funnels overlap or fail midway, two are never both
\* the default one, so a new lead has one place to go (create_funnel.go:57).
AtMostOneDefault == Cardinality({f \in Funnel : funnel[f] # NoRow /\ funnel[f].default}) <= 1

\* The indexes of a funnel's columns are distinct, after any deletes, swaps
\* and inserts, unless one was written from a stale read
\* (create_column.go:52, move_column.go:87).
OrdersDistinct ==
  orderRaced \/ \A f \in Funnel : \A c, d \in ColumnsOf(f) : c # d => column[c].order # column[d].order

\* Concurrent inserts pass the limit only by as many as were past its check,
\* unless some fell between the defaults of a funnel being created.
LimitHolds ==
  orderRaced \/ \A f \in Funnel :
    Cardinality(ColumnsOf(f)) < MaxColumns + Cardinality(Client) \/ ColumnsOf(f) = {}

\* No lead and no movement points to a column that is gone, although the
\* count of a delete and the save of a move interleave (delete_column.go:48).
NothingDangles ==
  \A l \in Lead : lead[l] # NoRow =>
    /\ Exists(lead[l].column)
    /\ \A i \in DOMAIN movement[l] : Exists(movement[l][i].to)

\* A contact has one lead, although its first message and a note about it look
\* for it at the same time, unless it was looked for while another lead of the
\* contact was being created (create_lead.go:84).
OneLeadEach ==
  \A l, m \in Lead :
    /\ lead[l] # NoRow /\ lead[m] # NoRow /\ lead[l].contact = lead[m].contact
    /\ ~lead[l].twin /\ ~lead[m].twin
    => l = m

\* A lead's status is the one its column's type gives, whichever of two
\* overlapping copies was saved last; only an expiration writes it alone.
StatusFollowsColumn ==
  \A l \in Lead : lead[l] # NoRow =>
    lead[l].dropped \/ lead[l].status = StatusIn(column[lead[l].column].type)

\* The movements of a lead tell its way: each starts where the last one
\* ended and the last ends where the lead is.  Only a stale save, two moves
\* that overlap, a movement that failed or one still to be written breaks it.
MovementsTellTheWay ==
  \A l \in Lead :
    lead[l] # NoRow /\ l \notin leadRaced \cup unlogged /\ Settled(l) =>
      /\ movement[l] # <<>>
      /\ movement[l][1].from = None
      /\ movement[l][Len(movement[l])].to = lead[l].column
      /\ \A i \in 2 .. Len(movement[l]) : movement[l][i].from = movement[l][i - 1].to

-----------------------------------------------------------------------------
\* What a firm's board keeps, however the requests of its users overlap or
\* fail between two statements.
BoardIsSound ==
  BoardTypeOK /\ AtMostOneDefault /\ OrdersDistinct /\ LimitHolds /\ NothingDangles /\ OneLeadEach
=============================================================================

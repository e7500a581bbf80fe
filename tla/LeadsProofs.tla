------------------------------ MODULE LeadsProofs ------------------------------
(***************************************************************************)
(* Proofs about modules LeadBoard and Automations: what a firm's board     *)
(* keeps, and what a lead's page tells of its way, for any funnels, leads, *)
(* automations and requests, while the ticker, the runs inside requests    *)
(* and the panel's edits go on beside each other.                          *)
(***************************************************************************)
EXTENDS Automations, FiniteSetTheorems, WellFoundedInduction, TLAPS

-----------------------------------------------------------------------------
(* What a request, a run and the ticker carry.                             *)

LAddingReq == [phase : {"columns"}, id : Funnel, added : 0 .. 4]
LFirstReq == [phase : {"first"}, id : Funnel, added : {5}]
LSaveFunnelReq == [phase : {"saveFunnel"}, id : Funnel, copy : FunnelRow]
LOrderReq == [phase : {"order"}, id : Funnel, type : ColumnType]
LInsertReq == [phase : {"insertColumn"}, id : Funnel, type : ColumnType, order : Nat]
LDeleteReq == [phase : {"deleteColumn"}, id : ColumnId]
LSwapReq == [phase : {"swap"}, id : ColumnId, with : ColumnId, order : Nat, other : Nat]
LEntryReq ==
  [phase : {"entry"}, contact : Contact, funnel : Funnel, product : Product \cup {None}, twin : BOOLEAN]
LInsertLeadReq == [phase : {"insertLead"}, copy : LeadRow]

LRunTask == [do : {"run"}, auto : Automation, row : AutoRow, lead : Lead]
LLogTask == [do : {"log"}, auto : Automation, lead : Lead, status : {"success", "error"}]
LTask == LRunTask \cup LLogTask
LRest == Seq(LTask)

LSaveLeadReq ==
  [phase : {"saveLead"}, id : Lead, seen : LeadRow, copy : LeadRow, log : BOOLEAN, rest : LRest]
LLogReq ==
  [phase : {"log", "trigger"}, id : Lead, from : ColumnId \cup {None}, to : ColumnId, rest : LRest]
LRunReq == [phase : {"run"}, rest : LRest]

\* What the ticker's own slot may hold, and what the requests may.
LSlotReq == {Waiting, Over} \cup LSaveLeadReq \cup LLogReq \cup LRunReq
LPageReq ==
  LAddingReq \cup LFirstReq \cup LSaveFunnelReq \cup LOrderReq \cup LInsertReq \cup LDeleteReq
    \cup LSwapReq \cup LEntryReq \cup LInsertLeadReq

LAutos == UNION {[S -> AutoRow] : S \in SUBSET Automation}
LTicker ==
  {Resting} \cup [phase : {"list"}, autos : LAutos, leads : {{}}]
    \cup [phase : {"lead", "moving"}, auto : Automation, row : AutoRow, autos : LAutos,
          leads : SUBSET Lead]
LEdit == {NoEdit} \cup [phase : {"save"}, id : Automation, copy : AutoRow]

BoardTyped ==
  /\ funnel \in [Funnel -> FunnelRow \cup {NoRow}]
  /\ column \in [ColumnId -> ColumnRow \cup {NoRow}]
  /\ goneColumn \subseteq ColumnId
  /\ lead \in [Lead -> LeadRow \cup {NoRow}]
  /\ movement \in [Lead -> Seq(Movement)]
  /\ boardReq \in [BoardRequest -> LSlotReq \cup LPageReq]
  /\ boardReq[TickSlot] \in LSlotReq
  /\ orderRaced \in BOOLEAN /\ leadRaced \subseteq Lead /\ unlogged \subseteq Lead

AutoTyped ==
  /\ automation \in [Automation -> AutoRow \cup {NoRow}]
  /\ execLog \subseteq Automation \X Lead \X {"success", "error"}
  /\ notes \subseteq Lead
  /\ ticker \in LTicker
  /\ autoReq \in LEdit

-----------------------------------------------------------------------------
(* Funnels and columns.                                                    *)

Known(c) == Exists(c) \/ c \in goneColumn

ColumnsBounded ==
  \E b \in Nat : \A c \in ColumnId : Exists(c) => c <= b /\ column[c].order <= b

GoneStays == \A c \in goneColumn : ~Exists(c)

\* One funnel is the default one, or about to be.
Elected(f) ==
  \/ funnel[f] # NoRow /\ funnel[f].default
  \/ \E r \in BoardRequest :
       boardReq[r].phase = "saveFunnel" /\ boardReq[r].id = f /\ boardReq[r].copy.default
OneElected == \A f, g \in Funnel : Elected(f) /\ Elected(g) => f = g

\* The requests past the check of a funnel's limit.
AddingTo(f) ==
  {r \in Client : boardReq[r].phase \in {"order", "insertColumn"} /\ boardReq[r].id = f}
RoomKept ==
  orderRaced \/ \A f \in Funnel :
    Cardinality(ColumnsOf(f)) + Cardinality(AddingTo(f)) < MaxColumns + Cardinality(Client)

ColumnsHold == ColumnsBounded /\ GoneStays /\ OrdersDistinct /\ RoomKept

-----------------------------------------------------------------------------
(* Leads and requests.                                                     *)

\* What a row says of its column, while that is there.
RowFollows(row) ==
  /\ Known(row.column)
  /\ Exists(row.column) => row.dropped \/ row.status = StatusIn(column[row.column].type)

LeadStands(l) ==
  IF lead[l] = NoRow THEN movement[l] = <<>>
  ELSE /\ Exists(lead[l].column) /\ RowFollows(lead[l])
       /\ \A i \in DOMAIN movement[l] :
            /\ Exists(movement[l][i].to)
            /\ movement[l][i].from # None => Exists(movement[l][i].from)
LeadsStand == \A l \in Lead : LeadStands(l)

\* A swap is of two columns of one funnel.
SwapSound(c, d) ==
  /\ c # d /\ Known(c) /\ Known(d)
  /\ Exists(c) /\ Exists(d) => column[c].funnel = column[d].funnel

\* A run is about leads there are.
RestSound(s) == \A i \in DOMAIN s : lead[s[i].lead] # NoRow

\* A request carries what was true when it was read and stays so: funnels and
\* leads are never deleted, and a column keeps its funnel and its type.  A
\* move inside a run has its log entry to come first.
RequestSound(q) ==
  /\ q.phase \in {"columns", "first", "saveFunnel"} => funnel[q.id] # NoRow
  /\ q.phase = "swap" => SwapSound(q.id, q.with)
  /\ q.phase \in {"saveLead", "insertLead"} => RowFollows(q.copy)
  /\ q.phase = "saveLead" /\ ~q.log => q.copy.column = q.seen.column
  /\ q.phase \in {"saveLead", "log", "trigger"} => lead[q.id] # NoRow
  /\ q.phase \in {"saveLead", "log", "trigger", "run"} => RestSound(q.rest)
  /\ q.phase \in {"saveLead", "log"} /\ q.rest # <<>> => q.rest[1].do = "log"
  /\ q.phase = "run" => q.rest # <<>>
RequestsSound == \A r \in BoardRequest : RequestSound(boardReq[r])

\* The movement of l that is still to be written, if any, leads from where the
\* last one ended to where the lead is.
Unwritten(l) == {r \in BoardRequest : boardReq[r].phase = "log" /\ boardReq[r].id = l}
LastTo(l) == IF movement[l] = <<>> THEN None ELSE movement[l][Len(movement[l])].to
WayOf(l) ==
  /\ movement[l] # <<>> => movement[l][1].from = None
  /\ \A i \in 2 .. Len(movement[l]) : movement[l][i].from = movement[l][i - 1].to
  /\ \A r \in Unwritten(l) : boardReq[r].from = LastTo(l) /\ boardReq[r].to = lead[l].column
  /\ \A r, s \in Unwritten(l) : r = s
  /\ Unwritten(l) = {} => LastTo(l) = lead[l].column
WaysHold == \A l \in Lead : lead[l] # NoRow /\ l \notin leadRaced \cup unlogged => WayOf(l)

BoardInvariant ==
  BoardTyped /\ ColumnsHold /\ OneElected /\ LeadsStand /\ RequestsSound /\ WaysHold

-----------------------------------------------------------------------------
(* The ticker.                                                             *)

\* The slot is the ticker's own while it moves a lead, and it moves leads there
\* are.
SlotFree == ticker.phase # "moving" => boardReq[TickSlot] \in {Waiting, Over}
ListedThere ==
  ticker.phase \in {"lead", "moving"} =>
    \A l \in ticker.leads : lead[l] # NoRow

AutoInvariant == AutoTyped /\ SlotFree /\ ListedThere /\ LogsHaveAutomation
LeadsInvariant == BoardInvariant /\ AutoInvariant

-----------------------------------------------------------------------------
(* What the rows and requests are made of.                                 *)

LEMMA BoardConstants ==
  /\ ColumnId \subseteq Nat /\ None \notin ColumnId
  /\ MaxColumns \in Nat /\ MaxColumns >= 5 /\ NewTypes \subseteq ColumnType
  /\ IsFiniteSet(Funnel) /\ IsFiniteSet(Lead) /\ IsFiniteSet(BoardRequest)
  /\ TickSlot \in BoardRequest
  /\ NoRow \notin FunnelRow /\ NoRow \notin ColumnRow /\ NoRow \notin LeadRow
  /\ NoRow \notin AutoRow /\ AutoForm \subseteq AutoRow /\ IsFiniteSet(Automation)
<1>1. Len(DefaultColumns) = 5
  BY DEF DefaultColumns
<1>. QED
  BY <1>1, BoardAssumption, AutoAssumption

\* The phase of a request tells what it carries.
LEMMA RequestShape ==
  ASSUME NEW q \in LSlotReq \cup LPageReq
  PROVE  /\ q.phase = "new" => q = Waiting
         /\ q.phase = "over" => q = Over
         /\ q.phase = "columns" => q \in LAddingReq
         /\ q.phase = "first" => q \in LFirstReq
         /\ q.phase = "saveFunnel" => q \in LSaveFunnelReq
         /\ q.phase = "order" => q \in LOrderReq
         /\ q.phase = "insertColumn" => q \in LInsertReq
         /\ q.phase = "deleteColumn" => q \in LDeleteReq
         /\ q.phase = "swap" => q \in LSwapReq
         /\ q.phase = "entry" => q \in LEntryReq
         /\ q.phase = "insertLead" => q \in LInsertLeadReq
         /\ q.phase = "saveLead" => q \in LSaveLeadReq
         /\ q.phase \in {"log", "trigger"} => q \in LLogReq
         /\ q.phase = "run" => q \in LRunReq
         /\ q.phase \in BoardPhase
BY DEF LSlotReq, LPageReq, Waiting, Over, LAddingReq, LFirstReq, LSaveFunnelReq, LOrderReq, LInsertReq,
  LDeleteReq, LSwapReq, LEntryReq, LInsertLeadReq, LSaveLeadReq, LLogReq, LRunReq, BoardPhase

LEMMA SlotShape ==
  ASSUME NEW q \in LSlotReq
  PROVE  q.phase \in {"new", "over", "saveLead", "log", "trigger", "run"}
BY DEF LSlotReq, Waiting, Over, LSaveLeadReq, LLogReq, LRunReq

LEMMA DefaultTypes == \A i \in 1 .. 5 : DefaultColumns[i] \in ColumnType
BY DEF DefaultColumns, ColumnType

LEMMA FunnelRows ==
  /\ NewFunnel \in FunnelRow /\ ~NewFunnel.default
  /\ \A row \in FunnelRow :
       /\ SetDefault(row) \in FunnelRow
       /\ Toggled(row) \in FunnelRow /\ Toggled(row).default = row.default
BY DEF FunnelRow, NewFunnel, SetDefault, Toggled

LEMMA ColumnRows ==
  ASSUME NEW f \in Funnel, NEW type \in ColumnType, NEW order \in Nat
  PROVE  /\ NewColumn(f, type, order) \in ColumnRow
         /\ NewColumn(f, type, order).funnel = f /\ NewColumn(f, type, order).order = order
BY DEF NewColumn, ColumnRow

LEMMA StatusOf == \A type : StatusIn(type) \in {"open", "won", "lost"}
BY DEF StatusIn

\* A move gives the column and the status its type gives.
LEMMA MovedRow ==
  ASSUME NEW row \in LeadRow, NEW c \in ColumnId, NEW type, NEW f \in Funnel \cup {None}
  PROVE  LET moved == MoveTo([row EXCEPT !.funnel = IF f = None THEN @ ELSE f], c, type) IN
         moved \in LeadRow /\ moved.column = c /\ moved.status = StatusIn(type)
BY StatusOf DEF LeadRow, MoveTo

LEMMA EditedRow ==
  ASSUME NEW row \in LeadRow
  PROVE  /\ \A u \in User : LET copy == AssignResponsible(row, u) IN
              copy \in LeadRow /\ copy.column = row.column /\ copy.status = row.status
              /\ copy.dropped = row.dropped
         /\ \A p \in Product \cup {None} : LET copy == SetProduct(row, p) IN
              copy \in LeadRow /\ copy.column = row.column /\ copy.status = row.status
              /\ copy.dropped = row.dropped
BY DEF LeadRow, AssignResponsible, SetProduct

LEMMA NewRow ==
  ASSUME NEW k \in Contact, NEW f \in Funnel, NEW c \in ColumnId
  PROVE  LET row == NewLead(k, f, c) IN
         row \in LeadRow /\ row.column = c /\ row.status = "open" /\ ~row.dropped
BY DEF LeadRow, NewLead

\* The log entry before the rest of a run, and the error it says.
LEMMA RefusedTask ==
  ASSUME NEW rest \in LRest, rest # <<>>, rest[1].do = "log"
  PROVE  LET left == <<[Head(rest) EXCEPT !.status = "error"]>> \o Tail(rest) IN
         /\ left \in LRest /\ left # <<>>
         /\ \A i \in DOMAIN left : i \in DOMAIN rest /\ left[i].lead = rest[i].lead
<1>. DEFINE t == [Head(rest) EXCEPT !.status = "error"]
<1>1. Head(rest) = rest[1] /\ rest[1] \in LTask
  BY DEF LRest
<1>2. rest[1] \in LLogTask
  BY <1>1 DEF LTask, LRunTask, LLogTask
<1>3. t \in LTask /\ t.lead = rest[1].lead
  BY <1>1, <1>2 DEF LTask, LLogTask
<1>. HIDE DEF t
<1>4. <<t>> \o Tail(rest) \in Seq(LTask) /\ Len(<<t>> \o Tail(rest)) = Len(rest) /\ Len(rest) \in Nat \ {0}
  BY <1>3 DEF LRest
<1>5. \A i \in 1 .. Len(rest) : (<<t>> \o Tail(rest))[i] = IF i = 1 THEN t ELSE rest[i]
  BY <1>3 DEF LRest
<1>6. \A i \in 1 .. Len(rest) : (<<t>> \o Tail(rest))[i].lead = rest[i].lead
  BY <1>3, <1>5
<1>7. DOMAIN (<<t>> \o Tail(rest)) = 1 .. Len(rest) /\ DOMAIN rest = 1 .. Len(rest) /\ <<t>> \o Tail(rest) # <<>>
  BY <1>4 DEF LRest
<1>. QED
  BY <1>4, <1>6, <1>7 DEF LRest, t

-----------------------------------------------------------------------------
(* Columns.                                                                *)

LEMMA FreshIs ==
  ASSUME BoardTyped, RoomForColumn
  PROVE  FreshColumn \in ColumnId /\ ~Exists(FreshColumn) /\ FreshColumn \notin goneColumn
<1>. DEFINE S == {c \in ColumnId : ~Exists(c) /\ c \notin goneColumn}
<1>1. S \subseteq Nat /\ S # {}
  BY BoardConstants DEF RoomForColumn
<1>2. PICK c \in S : \A d \in S : ~(<<d, c>> \in OpToRel(<, Nat))
  BY <1>1, WFMin, NatLessThanWellFounded
<1>3. \A d \in ColumnId : d < c => Exists(d) \/ d \in goneColumn
  BY <1>1, <1>2, BoardConstants DEF OpToRel
<1>. QED
  BY <1>2, <1>3 DEF FreshColumn

\* The highest index of a funnel is one: the columns are finitely many.
LEMMA MaxIs ==
  ASSUME BoardTyped, ColumnsBounded, NEW f \in Funnel
  PROVE  /\ MaxOrder(f) \in Nat \cup {-1} /\ NextOrder(f) \in Nat
         /\ \A c \in ColumnsOf(f) : column[c].order <= MaxOrder(f)
<1>1. CASE ColumnsOf(f) = {}
  BY <1>1 DEF MaxOrder, NextOrder
<1>2. CASE ColumnsOf(f) # {}
  <2>1. PICK b \in Nat : \A c \in ColumnId : Exists(c) => c <= b /\ column[c].order <= b
    BY DEF ColumnsBounded
  <2>2. \A c \in ColumnsOf(f) : c \in ColumnId /\ column[c].order \in Nat /\ column[c].order <= b
    BY <2>1 DEF BoardTyped, ColumnsOf, Exists, ColumnRow
  <2>. DEFINE S == {b - column[c].order : c \in ColumnsOf(f)}
  <2>3. S \subseteq Nat /\ S # {}
    BY <1>2, <2>2
  <2>4. PICK x \in S : \A y \in S : ~(<<y, x>> \in OpToRel(<, Nat))
    BY <2>3, WFMin, NatLessThanWellFounded
  <2>5. PICK c \in ColumnsOf(f) : x = b - column[c].order
    BY <2>4
  <2>6. \A d \in ColumnsOf(f) : column[d].order <= column[c].order
    <3>. SUFFICES ASSUME NEW d \in ColumnsOf(f) PROVE column[d].order <= column[c].order
      OBVIOUS
    <3>1. b - column[d].order \in S /\ b - column[d].order \in Nat /\ x \in Nat
      BY <2>3, <2>4
    <3>2. ~(b - column[d].order < x)
      BY <2>4, <3>1 DEF OpToRel
    <3>3. \A m, n, k \in Int : ~(m - n < m - k) => n <= k
      OBVIOUS
    <3>. QED
      BY <2>2, <2>5, <3>2, <3>3
  <2>. DEFINE m == CHOOSE c_1 \in ColumnsOf(f) : \A d \in ColumnsOf(f) : column[d].order <= column[c_1].order
  <2>7. m \in ColumnsOf(f) /\ \A d \in ColumnsOf(f) : column[d].order <= column[m].order
    BY <2>5, <2>6
  <2>8. MaxOrder(f) = column[m].order
    BY <1>2 DEF MaxOrder
  <2>. HIDE DEF m
  <2>. QED
    BY <2>2, <2>7, <2>8 DEF NextOrder
<1>. QED
  BY <1>1, <1>2

LEMMA ColumnsFinite ==
  ASSUME BoardTyped, ColumnsBounded, NEW f \in Funnel
  PROVE  IsFiniteSet(ColumnsOf(f)) /\ Cardinality(ColumnsOf(f)) \in Nat
<1>1. PICK b \in Nat : \A c \in ColumnId : Exists(c) => c <= b /\ column[c].order <= b
  BY DEF ColumnsBounded
<1>2. ColumnsOf(f) \in SUBSET Nat /\ \A c \in ColumnsOf(f) : c <= b
  BY <1>1, BoardConstants DEF ColumnsOf
<1>3. IsFiniteSet(ColumnsOf(f))
  BY <1>2, FS_BoundedSetOfNaturals
<1>. QED
  BY <1>3, FS_CardinalityType

-----------------------------------------------------------------------------
(* What a request carries stays true while others go on.                   *)

\* No funnel or lead is deleted, and a column keeps its funnel and its type.
RowsKept ==
  /\ \A f \in Funnel : funnel[f] # NoRow => funnel'[f] # NoRow
  /\ \A l \in Lead : lead[l] # NoRow => lead'[l] # NoRow
  /\ \A c \in ColumnId :
       /\ Known(c) => Known(c)'
       /\ Known(c) /\ Exists(c)' =>
            Exists(c) /\ column'[c].funnel = column[c].funnel /\ column'[c].type = column[c].type

LEMMA RowFollowsOn ==
  ASSUME RowsKept, NEW row \in LeadRow, RowFollows(row)
  PROVE  RowFollows(row)'
<1>1. row.column \in ColumnId
  BY DEF LeadRow
<1>. QED
  BY <1>1 DEF RowsKept, RowFollows, Exists, Known

LEMMA RestSoundOn ==
  ASSUME RowsKept, NEW rest \in LRest, RestSound(rest)
  PROVE  RestSound(rest)'
<1>1. \A i \in DOMAIN rest : rest[i].lead \in Lead
  BY DEF LRest, LTask, LRunTask, LLogTask
<1>. QED
  BY <1>1 DEF RowsKept, RestSound

LEMMA RequestSoundOn ==
  ASSUME RowsKept, NEW q \in LSlotReq \cup LPageReq, RequestSound(q)
  PROVE  RequestSound(q)'
<1>1. q.phase \in {"columns", "first", "saveFunnel"} => q.id \in Funnel
  BY RequestShape DEF LAddingReq, LFirstReq, LSaveFunnelReq
<1>2. q.phase = "swap" => q.id \in ColumnId /\ q.with \in ColumnId
  BY RequestShape DEF LSwapReq
<1>3. q.phase \in {"saveLead", "insertLead"} => q.copy \in LeadRow
  BY RequestShape DEF LSaveLeadReq, LInsertLeadReq
<1>4. q.phase \in {"saveLead", "log", "trigger"} => q.id \in Lead
  BY RequestShape DEF LSaveLeadReq, LLogReq
<1>5. q.phase \in {"saveLead", "log", "trigger", "run"} => q.rest \in LRest
  BY RequestShape DEF LSaveLeadReq, LLogReq, LRunReq
<1>6. q.phase = "swap" => SwapSound(q.id, q.with)'
  <2>. SUFFICES ASSUME q.phase = "swap" PROVE SwapSound(q.id, q.with)'
    OBVIOUS
  <2>. DEFINE c == q.id  d == q.with
  <2>1. c \in ColumnId /\ d \in ColumnId /\ SwapSound(c, d)
    BY <1>2 DEF RequestSound
  <2>. HIDE DEF c, d
  <2>2. SwapSound(c, d)'
    BY <2>1 DEF RowsKept, SwapSound
  <2>. QED
    BY <2>2 DEF c, d
<1>7. q.phase \in {"saveLead", "insertLead"} => RowFollows(q.copy)'
  <2>. SUFFICES ASSUME q.phase \in {"saveLead", "insertLead"} PROVE RowFollows(q.copy)'
    OBVIOUS
  <2>. DEFINE row == q.copy
  <2>1. row \in LeadRow /\ RowFollows(row)
    BY <1>3 DEF RequestSound
  <2>. HIDE DEF row
  <2>2. RowFollows(row)'
    BY <2>1, RowFollowsOn
  <2>. QED
    BY <2>2 DEF row
<1>8. q.phase \in {"saveLead", "log", "trigger", "run"} => RestSound(q.rest)'
  <2>. SUFFICES ASSUME q.phase \in {"saveLead", "log", "trigger", "run"} PROVE RestSound(q.rest)'
    OBVIOUS
  <2>. DEFINE rest == q.rest
  <2>1. rest \in LRest /\ RestSound(rest)
    BY <1>5 DEF RequestSound
  <2>. HIDE DEF rest
  <2>2. RestSound(rest)'
    BY <2>1, RestSoundOn
  <2>. QED
    BY <2>2 DEF rest
<1>. QED
  BY <1>1, <1>4, <1>6, <1>7, <1>8 DEF RequestSound, RowsKept

\* One request goes on, and what the others carry stays true.
LEMMA RequestsSoundOn ==
  ASSUME BoardTyped, RequestsSound, RowsKept, NEW r \in BoardRequest, NEW q, RequestSound(q)',
         boardReq' = [boardReq EXCEPT ![r] = q]
  PROVE  RequestsSound'
<1>. SUFFICES ASSUME NEW s \in BoardRequest PROVE RequestSound(boardReq[s])'
  BY DEF RequestsSound
<1>1. CASE s = r
  <2>1. boardReq'[s] = q
    BY <1>1 DEF BoardTyped
  <2>. QED
    BY <2>1 DEF RequestSound, SwapSound, RowFollows, RestSound
<1>2. CASE s # r
  <2>0. PICK p : p = boardReq[s]
    OBVIOUS
  <2>1. boardReq'[s] = p /\ p \in LSlotReq \cup LPageReq /\ RequestSound(p)
    BY <1>2, <2>0 DEF BoardTyped, RequestsSound
  <2>2. RequestSound(p)'
    BY <2>1, RequestSoundOn
  <2>. QED
    BY <2>1, <2>2 DEF RequestSound, SwapSound, RowFollows, RestSound
<1>. QED
  BY <1>1, <1>2

LEMMA AddingFinite ==
  ASSUME NEW f \in Funnel
  PROVE  /\ IsFiniteSet(AddingTo(f)) /\ Cardinality(AddingTo(f)) \in Nat
         /\ IsFiniteSet(Client) /\ Cardinality(Client) \in Nat
         /\ Cardinality(AddingTo(f)) <= Cardinality(Client)
<1>1. AddingTo(f) \in SUBSET Client /\ Client \in SUBSET BoardRequest /\ IsFiniteSet(BoardRequest)
  BY BoardConstants DEF AddingTo, Client
<1>2. IsFiniteSet(Client)
  BY <1>1, FS_Subset
<1>. QED
  BY <1>1, <1>2, FS_Subset, FS_CardinalityType

LEMMA AddingFiniteNext ==
  ASSUME NEW f \in Funnel
  PROVE  /\ IsFiniteSet(AddingTo(f)') /\ Cardinality(AddingTo(f)') \in Nat
         /\ Cardinality(AddingTo(f)') <= Cardinality(Client)
<1>1. AddingTo(f)' \in SUBSET Client /\ Client \in SUBSET BoardRequest /\ IsFiniteSet(BoardRequest)
  BY BoardConstants DEF AddingTo, Client
<1>2. IsFiniteSet(Client)
  BY <1>1, FS_Subset
<1>. QED
  BY <1>1, <1>2, FS_Subset, FS_CardinalityType

\* Less than before of either: a funnel has the room it had.
LEMMA RoomOn ==
  ASSUME BoardTyped, ColumnsBounded, RoomKept, orderRaced => orderRaced', orderRaced' \in BOOLEAN,
         \A f \in Funnel : ColumnsOf(f)' \subseteq ColumnsOf(f) /\ AddingTo(f)' \subseteq AddingTo(f)
  PROVE  RoomKept'
<1>. SUFFICES ASSUME ~orderRaced', NEW f \in Funnel
              PROVE  Cardinality(ColumnsOf(f)') + Cardinality(AddingTo(f)') < MaxColumns + Cardinality(Client)
  BY DEF RoomKept, Client
<1>1. Cardinality(ColumnsOf(f)) + Cardinality(AddingTo(f)) < MaxColumns + Cardinality(Client)
  BY DEF RoomKept
<1>. DEFINE Cs == ColumnsOf(f)  Cs2 == ColumnsOf(f)'  As == AddingTo(f)  As2 == AddingTo(f)'
<1>2. IsFiniteSet(Cs) /\ Cardinality(Cs) \in Nat /\ Cs2 \in SUBSET Cs
  BY ColumnsFinite
<1>3. IsFiniteSet(As) /\ Cardinality(As) \in Nat /\ As2 \in SUBSET As
  BY AddingFinite
<1>4. MaxColumns \in Nat /\ Cardinality(Client) \in Nat
  BY AddingFinite, BoardConstants
<1>. HIDE DEF Cs, Cs2, As, As2
<1>5. Cardinality(Cs2) <= Cardinality(Cs) /\ IsFiniteSet(Cs2)
  BY <1>2, FS_Subset
<1>6. Cardinality(As2) <= Cardinality(As) /\ IsFiniteSet(As2)
  BY <1>3, FS_Subset
<1>7. Cardinality(Cs2) \in Nat /\ Cardinality(As2) \in Nat
  BY <1>5, <1>6, FS_CardinalityType
<1>8. Cardinality(Cs) + Cardinality(As) < MaxColumns + Cardinality(Client)
  BY <1>1 DEF Cs, As
<1>9. Cardinality(Cs2) + Cardinality(As2) < MaxColumns + Cardinality(Client)
  BY <1>2, <1>3, <1>4, <1>5, <1>6, <1>7, <1>8
<1>. QED
  BY <1>9 DEF Cs2, As2

-----------------------------------------------------------------------------
(* A step of a request that only reads.                                    *)

\* It may go to q: what a request in q has to have seen.
MayGo(r, q) ==
  /\ q \in LSlotReq \cup LPageReq
  /\ r = TickSlot => q \in LSlotReq
  /\ RequestSound(q)
  /\ q.phase # "log"
  /\ q.phase = "saveFunnel" /\ q.copy.default => \A g \in Funnel : Elected(g) => g = q.id
  /\ q.phase \in {"order", "insertColumn"} =>
       HasRoom(q.id) \/ (boardReq[r].phase = "order" /\ boardReq[r].id = q.id)

LEMMA ReadOnlyKeeps ==
  ASSUME BoardInvariant, NEW r \in BoardRequest, NEW q, MayGo(r, q),
         boardReq' = [boardReq EXCEPT ![r] = q],
         UNCHANGED <<boardRows, orderRaced, leadRaced>>,
         unlogged' \subseteq Lead, unlogged \subseteq unlogged',
         boardReq[r].phase = "log" => boardReq[r].id \in unlogged'
  PROVE  BoardInvariant' /\ RowsKept
<1>. USE DEF BoardInvariant
<1>1. UNCHANGED <<funnel, column, goneColumn, lead, movement, orderRaced, leadRaced>>
  BY DEF boardRows
<1>2. BoardTyped'
  BY <1>1, BoardConstants DEF BoardTyped, MayGo
<1>3. RowsKept
  BY <1>1 DEF RowsKept, Known, Exists
<1>4. RequestSound(q)'
  BY <1>3, RequestSoundOn DEF MayGo
<1>5. RequestsSound'
  BY <1>3, <1>4, RequestsSoundOn
<1>6. LeadsStand'
  BY <1>1 DEF LeadsStand, LeadStands, RowFollows, Known, Exists
<1>7. \A s \in BoardRequest : boardReq'[s] = IF s = r THEN q ELSE boardReq[s]
  BY DEF BoardTyped
<1>8. OneElected'
  <2>1. \A f \in Funnel : Elected(f)' => Elected(f) \/ (q.phase = "saveFunnel" /\ q.id = f /\ q.copy.default)
    BY <1>1, <1>7 DEF Elected
  <2>. QED
    BY <2>1 DEF OneElected, MayGo
<1>9. \A f : ColumnsOf(f)' = ColumnsOf(f)
  BY <1>1 DEF ColumnsOf, Exists
<1>10. ColumnsBounded' /\ GoneStays' /\ OrdersDistinct'
  BY <1>1, <1>9 DEF ColumnsHold, ColumnsBounded, GoneStays, OrdersDistinct, Exists
<1>11. RoomKept'
  <2>. SUFFICES ASSUME ~orderRaced, NEW f \in Funnel
                PROVE  Cardinality(ColumnsOf(f)') + Cardinality(AddingTo(f)') < MaxColumns + Cardinality(Client)
    BY <1>1 DEF RoomKept
  <2>1. CASE q.phase \in {"order", "insertColumn"} /\ q.id = f /\ HasRoom(f)
    <3>1. Cardinality(ColumnsOf(f)) < MaxColumns /\ Cardinality(ColumnsOf(f)) \in Nat
      BY <2>1, ColumnsFinite DEF HasRoom, ColumnsHold
    <3>2. Cardinality(AddingTo(f)') \in Nat /\ Cardinality(AddingTo(f)') <= Cardinality(Client)
          /\ Cardinality(Client) \in Nat
      BY AddingFinite, AddingFiniteNext
    <3>. QED
      BY <3>1, <3>2, <1>9, BoardConstants
  <2>2. CASE ~(q.phase \in {"order", "insertColumn"} /\ q.id = f /\ HasRoom(f))
    <3>1. AddingTo(f)' \subseteq AddingTo(f)
      BY <1>7, <2>2 DEF AddingTo, MayGo
    <3>. DEFINE As == AddingTo(f)  As2 == AddingTo(f)'
    <3>2. IsFiniteSet(As) /\ Cardinality(As) \in Nat /\ As2 \in SUBSET As /\ Cardinality(As2) \in Nat
          /\ Cardinality(Client) \in Nat
      BY <3>1, AddingFinite, AddingFiniteNext
    <3>3. Cardinality(ColumnsOf(f)) + Cardinality(As) < MaxColumns + Cardinality(Client)
          /\ Cardinality(ColumnsOf(f)) \in Nat
      BY ColumnsFinite DEF RoomKept, ColumnsHold
    <3>. HIDE DEF As, As2
    <3>4. Cardinality(As2) <= Cardinality(As)
      BY <3>2, FS_Subset
    <3>5. Cardinality(ColumnsOf(f)) + Cardinality(As2) < MaxColumns + Cardinality(Client)
      BY <3>2, <3>3, <3>4, BoardConstants
    <3>. QED
      BY <3>5, <1>9 DEF As2
  <2>. QED
    BY <2>1, <2>2
<1>12. WaysHold'
  <2>. SUFFICES ASSUME NEW l \in Lead, lead'[l] # NoRow, l \notin leadRaced' \cup unlogged' PROVE WayOf(l)'
    BY DEF WaysHold
  <2>1. WayOf(l)
    BY <1>1 DEF WaysHold
  <2>2. \A s \in BoardRequest : (s \in Unwritten(l)' <=> s \in Unwritten(l)) /\ (s \in Unwritten(l) => s # r)
    BY <1>7 DEF Unwritten, MayGo
  <2>3. Unwritten(l)' = Unwritten(l) /\ \A s \in Unwritten(l) : boardReq'[s] = boardReq[s]
    BY <1>7, <2>2 DEF Unwritten
  <2>. QED
    BY <1>1, <2>1, <2>3 DEF WayOf, LastTo
<1>. QED
  BY <1>2, <1>3, <1>5, <1>6, <1>8, <1>10, <1>11, <1>12 DEF ColumnsHold

-----------------------------------------------------------------------------
(* The requests that read, one after the other.                            *)

LEMMA MayEnd ==
  ASSUME NEW r \in BoardRequest
  PROVE  MayGo(r, Over)
<1>1. Over \in LSlotReq /\ Over.phase = "over"
  BY DEF LSlotReq, Over
<1>. QED
  BY <1>1 DEF MayGo, RequestSound

LEMMA EndsKeeps ==
  ASSUME BoardInvariant, NEW r \in BoardRequest, Ends(r), boardReq[r].phase # "log",
         UNCHANGED <<boardRows, orderRaced, leadRaced, unlogged>>
  PROVE  BoardInvariant' /\ RowsKept
BY MayEnd, ReadOnlyKeeps DEF Ends, BoardInvariant, BoardTyped

LEMMA GoesKeeps ==
  ASSUME BoardInvariant, NEW r \in BoardRequest, NEW q, MayGo(r, q), Goes(r, q), boardReq[r].phase # "log",
         UNCHANGED <<boardRows, orderRaced, leadRaced, unlogged>>
  PROVE  BoardInvariant' /\ RowsKept
BY ReadOnlyKeeps DEF Goes, BoardInvariant, BoardTyped

LEMMA StartsNew == ASSUME NEW r, Starts(r) PROVE boardReq[r].phase = "new"
BY DEF Starts, Waiting

LEMMA ClientIs == \A r \in Client : r \in BoardRequest /\ r # TickSlot
BY DEF Client

LEMMA ChangeFunnelKeeps ==
  ASSUME BoardInvariant, NEW r \in Client, NEW f \in Funnel, UpdateFunnel(r, f) \/ ToggleFunnel(r, f)
  PROVE  BoardInvariant' /\ RowsKept
<1>1. funnel[f] # NoRow /\ funnel[f] \in FunnelRow
  BY DEF UpdateFunnel, ToggleFunnel, ChangeFunnel, BoardInvariant, BoardTyped
<1>2. PICK row : row \in {funnel[f], Toggled(funnel[f])} /\ ChangeFunnel(r, f, row)
  BY DEF UpdateFunnel, ToggleFunnel
<1>3. row \in FunnelRow /\ row.default = funnel[f].default
  BY <1>1, <1>2, FunnelRows
<1>. DEFINE q == [phase |-> "saveFunnel", id |-> f, copy |-> row]
<1>4. q \in LSaveFunnelReq /\ q.phase = "saveFunnel" /\ q.id = f /\ q.copy = row
  BY <1>3 DEF LSaveFunnelReq
<1>5. Goes(r, q)
  BY <1>2 DEF ChangeFunnel
<1>. HIDE DEF q
<1>6. RequestSound(q)
  BY <1>1, <1>4 DEF RequestSound
<1>7. row.default => \A g \in Funnel : Elected(g) => g = f
  BY <1>1, <1>3 DEF BoardInvariant, OneElected, Elected
<1>8. MayGo(r, q)
  BY <1>4, <1>6, <1>7, ClientIs DEF MayGo, LPageReq
<1>. QED
  BY <1>2, <1>5, <1>8, StartsNew, GoesKeeps, ClientIs DEF ChangeFunnel

LEMMA IsFirstFunnelKeeps ==
  ASSUME BoardInvariant, NEW r \in Client, IsFirstFunnel(r)
  PROVE  BoardInvariant' /\ RowsKept
<1>. USE DEF BoardInvariant
<1>1. boardReq[r] \in LFirstReq /\ RequestSound(boardReq[r])
  BY RequestShape, ClientIs DEF IsFirstFunnel, At, BoardTyped, RequestsSound
<1>. DEFINE f == boardReq[r].id
<1>2. f \in Funnel /\ funnel[f] # NoRow
  BY <1>1 DEF LFirstReq, RequestSound
<1>3. CASE OnlyFunnel
  <2>. DEFINE q == [phase |-> "saveFunnel", id |-> f, copy |-> SetDefault(NewFunnel)]
              There == {g \in Funnel : funnel[g] # NoRow}
  <2>1. q \in LSaveFunnelReq /\ q.phase = "saveFunnel" /\ q.id = f
    BY <1>2, FunnelRows DEF LSaveFunnelReq
  <2>2. Goes(r, q)
    BY <1>3 DEF IsFirstFunnel
  <2>3. \A g \in There : g = f
    <3>1. There \in SUBSET Funnel /\ IsFiniteSet(Funnel) /\ f \in There
      BY <1>2, BoardConstants
    <3>2. IsFiniteSet(There)
      BY <3>1, FS_Subset
    <3>3. Cardinality(There) <= 1
      BY <1>3 DEF OnlyFunnel
    <3>. HIDE DEF There, f, q
    <3>4. {f} \in SUBSET There /\ Cardinality({f}) = 1
      BY <3>1, FS_Singleton
    <3>5. Cardinality({f}) <= Cardinality(There) /\ Cardinality(There) \in Nat
          /\ (Cardinality(There) = Cardinality({f}) => There = {f})
      BY <3>2, <3>4, FS_Subset, FS_CardinalityType
    <3>6. There = {f}
      BY <3>3, <3>4, <3>5
    <3>. QED
      BY <3>6
  <2>. HIDE DEF q
  <2>4. RequestSound(q)
    BY <1>2, <2>1 DEF RequestSound
  <2>5. \A g \in Funnel : Elected(g) => g \in There
    BY DEF Elected, RequestsSound, RequestSound
  <2>6. MayGo(r, q)
    BY <2>1, <2>3, <2>4, <2>5, ClientIs DEF MayGo, LPageReq
  <2>. QED
    BY <2>2, <2>6, GoesKeeps, ClientIs DEF IsFirstFunnel, At
<1>4. CASE ~OnlyFunnel
  BY <1>4, EndsKeeps, ClientIs DEF IsFirstFunnel, At
<1>. QED
  BY <1>3, <1>4

LEMMA CreateColumnKeeps ==
  ASSUME BoardInvariant, NEW r \in Client, NEW f \in Funnel, NEW type \in NewTypes, CreateColumn(r, f, type)
  PROVE  BoardInvariant' /\ RowsKept
<1>1. CASE funnel[f].active /\ HasRoom(f)
  <2>. DEFINE q == [phase |-> "order", id |-> f, type |-> type]
  <2>1. q \in LOrderReq /\ q.phase = "order" /\ q.id = f
    BY BoardConstants DEF LOrderReq
  <2>2. Goes(r, q)
    BY <1>1 DEF CreateColumn
  <2>. HIDE DEF q
  <2>3. MayGo(r, q)
    BY <1>1, <2>1, ClientIs DEF MayGo, LPageReq, RequestSound
  <2>. QED
    BY <2>2, <2>3, StartsNew, GoesKeeps, ClientIs DEF CreateColumn
<1>2. CASE ~(funnel[f].active /\ HasRoom(f))
  BY <1>2, EndsKeeps, ClientIs, StartsNew DEF CreateColumn
<1>. QED
  BY <1>1, <1>2

LEMMA ReadMaxOrderKeeps ==
  ASSUME BoardInvariant, NEW r \in Client, ReadMaxOrder(r)
  PROVE  BoardInvariant' /\ RowsKept
<1>1. boardReq[r] \in LOrderReq /\ boardReq[r].phase = "order"
  BY RequestShape, ClientIs DEF ReadMaxOrder, At, BoardInvariant, BoardTyped
<1>2. PICK f \in Funnel : f = boardReq[r].id
  BY <1>1 DEF LOrderReq
<1>. DEFINE q == [phase |-> "insertColumn", id |-> f, type |-> boardReq[r].type, order |-> NextOrder(f)]
<1>3. NextOrder(f) \in Nat
  BY MaxIs DEF BoardInvariant, ColumnsHold
<1>4. q \in LInsertReq /\ q.phase = "insertColumn" /\ q.id = f
  BY <1>1, <1>3 DEF LInsertReq, LOrderReq
<1>5. Goes(r, q)
  BY <1>2 DEF ReadMaxOrder
<1>. HIDE DEF q
<1>6. MayGo(r, q)
  BY <1>1, <1>2, <1>4, ClientIs DEF MayGo, LPageReq, RequestSound
<1>. QED
  BY <1>1, <1>5, <1>6, GoesKeeps, ClientIs DEF ReadMaxOrder

LEMMA DeleteColumnKeeps ==
  ASSUME BoardInvariant, NEW r \in Client, NEW c \in ColumnId, DeleteColumn(r, c)
  PROVE  BoardInvariant' /\ RowsKept
<1>. DEFINE q == [phase |-> "deleteColumn", id |-> c]
<1>1. q \in LDeleteReq /\ q.phase = "deleteColumn"
  BY DEF LDeleteReq
<1>2. Goes(r, q) \/ Ends(r)
  BY DEF DeleteColumn
<1>. HIDE DEF q
<1>3. MayGo(r, q)
  BY <1>1, ClientIs DEF MayGo, LPageReq, RequestSound
<1>. QED
  BY <1>2, <1>3, EndsKeeps, GoesKeeps, ClientIs, StartsNew DEF DeleteColumn

LEMMA MoveColumnKeeps ==
  ASSUME BoardInvariant, NEW r \in Client, NEW c \in ColumnId, NEW up, MoveColumn(r, c, up)
  PROVE  BoardInvariant' /\ RowsKept
<1>. USE DEF BoardInvariant
<1>1. Exists(c) /\ column[c] \in ColumnRow
  BY DEF MoveColumn, Exists, BoardTyped
<1>2. CASE Ends(r)
  BY <1>2, EndsKeeps, ClientIs, StartsNew DEF MoveColumn
<1>3. CASE ~Ends(r)
  <2>1. PICK d \in Neighbour(c, up) :
          Goes(r, [phase |-> "swap", id |-> c, with |-> d, order |-> column[c].order, other |-> column[d].order])
    BY <1>3 DEF MoveColumn
  <2>2. d \in ColumnsOf(column[c].funnel) \ {c}
    BY <2>1 DEF Neighbour
  <2>3. d \in ColumnId /\ d # c /\ Exists(d) /\ column[d].funnel = column[c].funnel /\ column[d] \in ColumnRow
    BY <2>2 DEF ColumnsOf, Exists, BoardTyped
  <2>. DEFINE q == [phase |-> "swap", id |-> c, with |-> d, order |-> column[c].order, other |-> column[d].order]
  <2>4. q \in LSwapReq /\ q.phase = "swap" /\ q.id = c /\ q.with = d
    BY <1>1, <2>3 DEF LSwapReq, ColumnRow
  <2>5. Goes(r, q)
    BY <2>1
  <2>. HIDE DEF q
  <2>6. RequestSound(q)
    BY <1>1, <2>3, <2>4 DEF RequestSound, SwapSound, Known
  <2>7. MayGo(r, q)
    BY <2>4, <2>6, ClientIs DEF MayGo, LPageReq
  <2>. QED
    BY <2>5, <2>7, GoesKeeps, ClientIs, StartsNew DEF MoveColumn
<1>. QED
  BY <1>2, <1>3

LEMMA CreateLeadKeeps ==
  ASSUME BoardInvariant, NEW r \in Client, NEW k \in Contact, NEW p \in Product \cup {None}, CreateLead(r, k, p)
  PROVE  BoardInvariant' /\ RowsKept
<1>1. CASE Ends(r)
  BY <1>1, EndsKeeps, ClientIs, StartsNew DEF CreateLead
<1>2. CASE ~Ends(r)
  <2>1. PICK f \in Funnel : Goes(r, [phase |-> "entry", contact |-> k, funnel |-> f, product |-> p,
                                     twin |-> Creating(k) # {}])
    BY <1>2 DEF CreateLead, FindDefault
  <2>. DEFINE q == [phase |-> "entry", contact |-> k, funnel |-> f, product |-> p, twin |-> Creating(k) # {}]
  <2>2. q \in LEntryReq /\ q.phase = "entry"
    BY DEF LEntryReq
  <2>3. Goes(r, q)
    BY <2>1
  <2>. HIDE DEF q
  <2>4. MayGo(r, q)
    BY <2>2, ClientIs DEF MayGo, LPageReq, RequestSound
  <2>. QED
    BY <2>3, <2>4, GoesKeeps, ClientIs, StartsNew DEF CreateLead
<1>. QED
  BY <1>1, <1>2

LEMMA FindEntryKeeps ==
  ASSUME BoardInvariant, NEW r \in Client, FindEntry(r)
  PROVE  BoardInvariant' /\ RowsKept
<1>. USE DEF BoardInvariant
<1>1. boardReq[r] \in LEntryReq /\ boardReq[r].phase = "entry"
  BY RequestShape, ClientIs DEF FindEntry, At, BoardTyped
<1>2. CASE Ends(r)
  BY <1>1, <1>2, EndsKeeps, ClientIs DEF FindEntry
<1>3. CASE ~Ends(r)
  <2>1. PICK c \in EntryOf(boardReq[r].funnel), u \in User :
          Goes(r, [phase |-> "insertLead",
                   copy |-> [AssignResponsible(SetProduct(NewLead(boardReq[r].contact, boardReq[r].funnel, c),
                                                          boardReq[r].product), u)
                               EXCEPT !.twin = boardReq[r].twin]])
    BY <1>3 DEF FindEntry
  <2>2. c \in ColumnId /\ Exists(c) /\ column[c].type = "entry"
    BY <2>1 DEF EntryOf, ColumnsOf
  <2>. DEFINE row == NewLead(boardReq[r].contact, boardReq[r].funnel, c)
              owned == AssignResponsible(SetProduct(row, boardReq[r].product), u)
              copy == [owned EXCEPT !.twin = boardReq[r].twin]
              q == [phase |-> "insertLead", copy |-> copy]
  <2>3. row \in LeadRow /\ row.column = c /\ row.status = "open"
    BY <1>1, <2>2, NewRow DEF LEntryReq
  <2>. HIDE DEF row
  <2>4. SetProduct(row, boardReq[r].product) \in LeadRow /\ SetProduct(row, boardReq[r].product).column = c
        /\ SetProduct(row, boardReq[r].product).status = "open"
    BY <1>1, <2>3, EditedRow DEF LEntryReq
  <2>5. copy \in LeadRow /\ copy.column = c /\ copy.status = "open"
    <3>1. owned \in LeadRow /\ owned.column = c /\ owned.status = "open"
      BY <2>1, <2>4, EditedRow
    <3>. HIDE DEF owned
    <3>. QED
      BY <1>1, <3>1 DEF LEntryReq, LeadRow
  <2>6. Goes(r, q)
    BY <2>1 DEF row
  <2>. HIDE DEF copy
  <2>7. q \in LInsertLeadReq /\ q.phase = "insertLead" /\ q.copy = copy
    BY <2>5 DEF LInsertLeadReq
  <2>. HIDE DEF q
  <2>8. RequestSound(q)
    BY <2>2, <2>5, <2>7 DEF RequestSound, RowFollows, Known, StatusIn
  <2>9. MayGo(r, q)
    BY <2>7, <2>8, ClientIs DEF MayGo, LPageReq
  <2>. QED
    BY <1>1, <2>6, <2>9, GoesKeeps, ClientIs DEF FindEntry
<1>. QED
  BY <1>2, <1>3

-----------------------------------------------------------------------------
(* Changes of a lead in memory, and moves that fail.                       *)

LEMMA ChangeLeadMay ==
  ASSUME BoardInvariant, NEW r \in BoardRequest, NEW l \in Lead, lead[l] # NoRow,
         NEW row \in LeadRow, RowFollows(row), NEW log \in BOOLEAN, ~log => row.column = lead[l].column,
         NEW rest \in LRest, RestSound(rest), rest # <<>> => rest[1].do = "log"
  PROVE  MayGo(r, [phase |-> "saveLead", id |-> l, seen |-> lead[l], copy |-> row, log |-> log, rest |-> rest])
<1>1. lead[l] \in LeadRow
  BY DEF BoardInvariant, BoardTyped
<1>. DEFINE q == [phase |-> "saveLead", id |-> l, seen |-> lead[l], copy |-> row, log |-> log, rest |-> rest]
<1>2. q \in LSaveLeadReq /\ q.phase = "saveLead" /\ q.id = l /\ q.seen = lead[l] /\ q.copy = row
      /\ q.log = log /\ q.rest = rest
  BY <1>1 DEF LSaveLeadReq
<1>. HIDE DEF q
<1>3. RequestSound(q)
  BY <1>2 DEF RequestSound
<1>4. MayGo(r, q)
  BY <1>2, <1>3 DEF MayGo, LSlotReq
<1>. QED
  BY <1>4 DEF q

LEMMA NoRest == <<>> \in LRest /\ RestSound(<<>>)
BY DEF LRest, RestSound

LEMMA MovedFollows ==
  ASSUME BoardInvariant, NEW l \in Lead, lead[l] # NoRow, NEW c \in ColumnId, Exists(c),
         NEW f \in Funnel \cup {None}
  PROVE  Moved(l, c, f) \in LeadRow /\ RowFollows(Moved(l, c, f))
<1>1. lead[l] \in LeadRow
  BY DEF BoardInvariant, BoardTyped
<1>2. Moved(l, c, f) \in LeadRow /\ Moved(l, c, f).column = c
      /\ Moved(l, c, f).status = StatusIn(column[c].type)
  BY <1>1, MovedRow DEF Moved
<1>. QED
  BY <1>2 DEF RowFollows, Known

LEMMA MoveLeadKeeps ==
  ASSUME BoardInvariant, NEW r \in Client, MoveForm(r)
  PROVE  BoardInvariant' /\ RowsKept
<1>1. PICK l \in Lead, c \in ColumnId, f \in Funnel \cup {None} :
        lead[l] # NoRow /\ Exists(c) /\ MoveLead(r, l, c, f)
  BY DEF MoveForm, ColumnsOf
<1>3. PICK row \in LeadRow : row = Moved(l, c, f) /\ RowFollows(row)
  BY <1>1, MovedFollows
<1>4. PICK q : q = [phase |-> "saveLead", id |-> l, seen |-> lead[l], copy |-> row, log |-> TRUE, rest |-> <<>>]
  OBVIOUS
<1>5. Goes(r, q)
  BY <1>1, <1>3, <1>4 DEF MoveLead, ChangeLead
<1>6. MayGo(r, q)
  BY <1>1, <1>3, <1>4, ChangeLeadMay, NoRest, ClientIs
<1>. QED
  BY <1>1, <1>5, <1>6, GoesKeeps, ClientIs, StartsNew DEF MoveLead

LEMMA EditLeadKeeps ==
  ASSUME BoardInvariant, NEW r \in Client, NEW l \in Lead,
         (\E u \in User : AssignLead(r, l, u)) \/ (\E p \in Product : SetLeadProduct(r, l, p))
  PROVE  BoardInvariant' /\ RowsKept
<1>1. lead[l] # NoRow /\ lead[l] \in LeadRow /\ RowFollows(lead[l])
  BY DEF AssignLead, SetLeadProduct, BoardInvariant, BoardTyped, LeadsStand, LeadStands
<1>2. PICK row \in LeadRow : EditLead(r, l, row) /\ row.column = lead[l].column
                             /\ row.status = lead[l].status /\ row.dropped = lead[l].dropped
  BY <1>1, EditedRow DEF AssignLead, SetLeadProduct
<1>3. RowFollows(row)
  BY <1>1, <1>2 DEF RowFollows
<1>4. PICK q : q = [phase |-> "saveLead", id |-> l, seen |-> lead[l], copy |-> row, log |-> FALSE, rest |-> <<>>]
  OBVIOUS
<1>5. Goes(r, q)
  BY <1>2, <1>4 DEF EditLead, ChangeLead
<1>6. MayGo(r, q)
  BY <1>1, <1>2, <1>3, <1>4, ChangeLeadMay, NoRest, ClientIs
<1>. QED
  BY <1>2, <1>5, <1>6, GoesKeeps, ClientIs, StartsNew DEF EditLead

LEMMA RefusedMay ==
  ASSUME BoardInvariant, NEW r \in BoardRequest, boardReq[r].phase \in {"saveLead", "log"}, Refused(r)
  PROVE  \E q : MayGo(r, q) /\ boardReq' = [boardReq EXCEPT ![r] = q]
<1>. DEFINE rest == boardReq[r].rest
<1>1. boardReq[r] \in LSaveLeadReq \cup LLogReq /\ RequestSound(boardReq[r])
  BY RequestShape DEF BoardInvariant, BoardTyped, RequestsSound
<1>2. rest \in LRest /\ RestSound(rest) /\ (rest # <<>> => rest[1].do = "log")
  BY <1>1 DEF LSaveLeadReq, LLogReq, RequestSound
<1>3. CASE rest = <<>>
  BY <1>3, MayEnd DEF Refused, Ends
<1>4. CASE rest # <<>>
  <2>. DEFINE left == <<[Head(rest) EXCEPT !.status = "error"]>> \o Tail(rest)
              q == [phase |-> "run", rest |-> left]
  <2>1. left \in LRest /\ left # <<>> /\ \A i \in DOMAIN left : i \in DOMAIN rest /\ left[i].lead = rest[i].lead
    BY <1>2, <1>4, RefusedTask
  <2>2. boardReq' = [boardReq EXCEPT ![r] = q]
    BY <1>4 DEF Refused, Goes
  <2>3. RestSound(left)
    BY <1>2, <2>1 DEF RestSound
  <2>. HIDE DEF left, rest
  <2>4. q \in LRunReq /\ q.phase = "run" /\ q.rest = left
    BY <2>1 DEF LRunReq
  <2>. HIDE DEF q
  <2>5. RequestSound(q)
    BY <2>1, <2>3, <2>4 DEF RequestSound
  <2>6. MayGo(r, q)
    BY <2>4, <2>5 DEF MayGo, LSlotReq
  <2>. QED
    BY <2>2, <2>6
<1>. QED
  BY <1>3, <1>4

\* The id of a log entry is a lead.
LEMMA LogId ==
  ASSUME BoardTyped, NEW r \in BoardRequest, boardReq[r].phase = "log"
  PROVE  boardReq[r].id \in Lead
BY RequestShape DEF BoardTyped, LLogReq

LEMMA FailsKeeps ==
  ASSUME BoardInvariant, NEW r \in BoardRequest, BoardFails(r) \/ MoveFails(r)
  PROVE  BoardInvariant' /\ RowsKept
<1>1. UNCHANGED <<boardRows, orderRaced, leadRaced>>
  BY DEF BoardFails, MoveFails
<1>2. \E q : MayGo(r, q) /\ boardReq' = [boardReq EXCEPT ![r] = q]
  BY RefusedMay, MayEnd DEF BoardFails, MoveFails, Ends
<1>3. unlogged' = IF boardReq[r].phase = "log" THEN unlogged \cup {boardReq[r].id} ELSE unlogged
  BY DEF BoardFails, MoveFails, At
<1>4. unlogged' \subseteq Lead /\ unlogged \subseteq unlogged'
      /\ (boardReq[r].phase = "log" => boardReq[r].id \in unlogged')
  BY <1>3, LogId DEF BoardInvariant, BoardTyped
<1>. QED
  BY <1>1, <1>2, <1>4, ReadOnlyKeeps

-----------------------------------------------------------------------------
(* The engine's runs.                                                      *)

LEMMA ContinueKeeps ==
  ASSUME BoardInvariant, NEW r \in BoardRequest, NEW rest \in LRest, RestSound(rest), Continue(r, rest),
         boardReq[r].phase # "log", UNCHANGED <<boardRows, orderRaced, leadRaced, unlogged>>
  PROVE  BoardInvariant' /\ RowsKept
<1>1. CASE rest = <<>>
  BY <1>1, EndsKeeps DEF Continue
<1>2. CASE rest # <<>>
  <2>. DEFINE q == [phase |-> "run", rest |-> rest]
  <2>1. q \in LRunReq /\ q.phase = "run" /\ q.rest = rest
    BY DEF LRunReq
  <2>2. Goes(r, q)
    BY <1>2 DEF Continue
  <2>. HIDE DEF q
  <2>3. MayGo(r, q)
    BY <1>2, <2>1 DEF MayGo, LSlotReq, RequestSound
  <2>. QED
    BY <2>2, <2>3, GoesKeeps
<1>. QED
  BY <1>1, <1>2

\* The run a request is in, and what is left of it.
LEMMA TaskIs ==
  ASSUME BoardInvariant, NEW r \in BoardRequest, At(r, "run")
  PROVE  /\ boardReq[r] \in LRunReq /\ boardReq[r].phase = "run"
         /\ TaskOf(r) \in LTask /\ lead[TaskOf(r).lead] # NoRow /\ TaskOf(r).lead \in Lead
         /\ TaskOf(r).do = "run" => TaskOf(r) \in LRunTask
         /\ TaskOf(r).do = "log" => TaskOf(r) \in LLogTask
         /\ Tail(boardReq[r].rest) \in LRest /\ RestSound(Tail(boardReq[r].rest))
<1>1. boardReq[r] \in LRunReq /\ RequestSound(boardReq[r]) /\ boardReq[r].phase = "run"
  BY RequestShape DEF BoardInvariant, BoardTyped, RequestsSound, At
<1>. DEFINE rest == boardReq[r].rest
<1>2. rest \in Seq(LTask) /\ rest # <<>> /\ RestSound(rest)
  BY <1>1 DEF LRunReq, LRest, RequestSound
<1>. HIDE DEF rest
<1>3. Len(rest) \in Nat \ {0} /\ Head(rest) = rest[1] /\ rest[1] \in LTask /\ DOMAIN rest = 1 .. Len(rest)
  BY <1>2
<1>4. lead[rest[1].lead] # NoRow
  BY <1>2, <1>3 DEF RestSound
<1>5. Tail(rest) \in Seq(LTask) /\ DOMAIN Tail(rest) = 1 .. Len(rest) - 1
      /\ \A i \in 1 .. Len(rest) - 1 : Tail(rest)[i] = rest[i + 1] /\ i + 1 \in 1 .. Len(rest)
  BY <1>2, <1>3
<1>6. RestSound(Tail(rest))
  BY <1>2, <1>3, <1>5 DEF RestSound
<1>7. \A t \in LTask : t.lead \in Lead /\ (t.do = "run" => t \in LRunTask) /\ (t.do = "log" => t \in LLogTask)
  BY DEF LTask, LRunTask, LLogTask
<1>. QED
  BY <1>1, <1>3, <1>4, <1>5, <1>6, <1>7 DEF rest, TaskOf, LRest

LEMMA ThenIs ==
  ASSUME BoardInvariant, NEW r \in BoardRequest, At(r, "run"), NEW status \in {"success", "error"}
  PROVE  Then(r, status) \in LRest /\ RestSound(Then(r, status)) /\ Then(r, status)[1].do = "log"
<1>. DEFINE t == Log(TaskOf(r), status)  rest == Tail(boardReq[r].rest)
<1>1. TaskOf(r) \in LTask /\ lead[TaskOf(r).lead] # NoRow
  BY TaskIs
<1>2. t \in LTask /\ t.lead = TaskOf(r).lead /\ t.do = "log"
  BY <1>1 DEF Log, LTask, LRunTask, LLogTask
<1>3. rest \in Seq(LTask) /\ RestSound(rest)
  BY TaskIs DEF LRest
<1>. HIDE DEF t, rest
<1>4. Then(r, status) = <<t>> \o rest
  BY DEF Then, t, rest
<1>5. <<t>> \o rest \in Seq(LTask) /\ Len(<<t>> \o rest) = Len(rest) + 1 /\ Len(rest) \in Nat
      /\ DOMAIN rest = 1 .. Len(rest) /\ DOMAIN (<<t>> \o rest) = 1 .. Len(rest) + 1
  BY <1>2, <1>3
<1>6. \A i \in 1 .. Len(rest) + 1 :
        (<<t>> \o rest)[i] = (IF i = 1 THEN t ELSE rest[i - 1]) /\ (i # 1 => i - 1 \in 1 .. Len(rest))
  BY <1>2, <1>3
<1>. QED
  BY <1>1, <1>2, <1>3, <1>4, <1>5, <1>6 DEF RestSound, LRest

\* The runs of a column's automations, before what the request has left.
LEMMA RunsAre ==
  ASSUME BoardInvariant, AutoTyped, NEW l \in Lead, lead[l] # NoRow, NEW left \in LRest, RestSound(left),
         NEW found \in SUBSET {a \in Automation : automation[a] # NoRow}, NEW s \in Orders(found)
  PROVE  LET rest == [i \in DOMAIN s |-> Run(s[i], l)] \o left IN rest \in LRest /\ RestSound(rest)
<1>1. IsFiniteSet(found) /\ Cardinality(found) \in Nat
  BY BoardConstants, FS_Subset, FS_CardinalityType
<1>2. PICK n \in Nat : n = Cardinality(found)
  BY <1>1
<1>3. s \in [1 .. n -> found]
  BY <1>2 DEF Orders
<1>. DEFINE runs == [i \in DOMAIN s |-> Run(s[i], l)]
<1>4. \A a \in found : Run(a, l) \in LTask /\ Run(a, l).lead = l
  BY DEF Run, LTask, LRunTask, AutoTyped
<1>5. runs \in [1 .. n -> LTask] /\ \A i \in 1 .. n : runs[i].lead = l
  BY <1>3, <1>4
<1>. HIDE DEF runs
<1>6. runs \in Seq(LTask) /\ Len(runs) = n
  BY <1>5
<1>7. left \in Seq(LTask) /\ DOMAIN left = 1 .. Len(left) /\ Len(left) \in Nat
  BY DEF LRest
<1>8. runs \o left \in Seq(LTask) /\ DOMAIN (runs \o left) = 1 .. n + Len(left)
  BY <1>6, <1>7
<1>9. \A i \in 1 .. n + Len(left) :
        /\ i <= n => i \in 1 .. n /\ (runs \o left)[i] = runs[i]
        /\ i > n => i - n \in 1 .. Len(left) /\ (runs \o left)[i] = left[i - n]
  BY <1>6, <1>7
<1>10. PICK whole : whole = runs \o left
  OBVIOUS
<1>11. \A i \in 1 .. n : whole[i].lead = l
  BY <1>5, <1>7, <1>9, <1>10
<1>12. \A i \in 1 .. n + Len(left) : i > n => lead[whole[i].lead] # NoRow
  <2>1. \A j \in 1 .. Len(left) : lead[left[j].lead] # NoRow
    BY <1>7 DEF RestSound
  <2>. SUFFICES ASSUME NEW i \in 1 .. n + Len(left), i > n PROVE lead[whole[i].lead] # NoRow
    OBVIOUS
  <2>2. PICK j \in 1 .. Len(left) : whole[i] = left[j]
    BY <1>9, <1>10
  <2>. QED
    BY <2>1, <2>2
<1>13. \A i \in 1 .. n + Len(left) : i \in 1 .. n \/ i > n
  BY <1>7
<1>14. RestSound(whole)
  BY <1>8, <1>10, <1>11, <1>12, <1>13 DEF RestSound
<1>. QED
  BY <1>8, <1>10, <1>14 DEF runs, LRest

LEMMA OnLeadEventKeeps ==
  ASSUME BoardInvariant, AutoTyped, NEW r \in BoardRequest, OnLeadEvent(r)
  PROVE  BoardInvariant' /\ RowsKept
<1>1. boardReq[r] \in LLogReq /\ boardReq[r].phase = "trigger" /\ RequestSound(boardReq[r])
  BY RequestShape DEF BoardInvariant, BoardTyped, RequestsSound, OnLeadEvent, At
<1>2. PICK l \in Lead : l = boardReq[r].id
  BY <1>1 DEF LLogReq
<1>3. PICK left \in LRest : left = boardReq[r].rest
  BY <1>1 DEF LLogReq
<1>4. lead[l] # NoRow /\ RestSound(left)
  BY <1>1, <1>2, <1>3 DEF RequestSound
<1>5. PICK found \in SUBSET {a \in Automation : automation[a] # NoRow} :
        found = {a \in FindByColumn(boardReq[r].to) : automation[a].type \in Registered}
  BY DEF FindByColumn
<1>6. PICK s \in Orders(found) :
        LET rest == [i \in DOMAIN s |-> Run(s[i], l)] \o left
        IN IF rest = <<>> THEN Ends(r)
           ELSE Len(rest) <= MaxRest /\ Goes(r, [phase |-> "run", rest |-> rest])
  BY <1>2, <1>3, <1>5 DEF OnLeadEvent
<1>7. PICK rest \in LRest : rest = [i \in DOMAIN s |-> Run(s[i], l)] \o left /\ RestSound(rest)
  BY <1>4, RunsAre
<1>8. Continue(r, rest)
  BY <1>6, <1>7 DEF Continue
<1>. QED
  BY <1>1, <1>7, <1>8, ContinueKeeps DEF OnLeadEvent

LEMMA RunMoveKeeps ==
  ASSUME BoardInvariant, NEW r \in BoardRequest, RunMove(r)
  PROVE  BoardInvariant' /\ RowsKept
<1>1. PICK t \in LRunTask : t = TaskOf(r) /\ lead[t.lead] # NoRow
  BY TaskIs DEF RunMove
<1>. DEFINE l == t.lead  c == t.row.target  f == t.row.funnel
<1>2. l \in Lead /\ c \in ColumnId \cup {None} /\ f \in Funnel \cup {None}
  BY <1>1 DEF LRunTask, AutoRow
<1>3. boardReq[r].phase = "run"
  BY DEF RunMove, At
<1>4. CASE c # None /\ Exists(c) /\ (f = None \/ funnel[f] # NoRow)
  <2>1. PICK row \in LeadRow : row = Moved(l, c, f) /\ RowFollows(row)
    BY <1>1, <1>2, <1>4, MovedFollows
  <2>2. PICK rest \in LRest : rest = Then(r, "success") /\ RestSound(rest) /\ rest[1].do = "log"
    BY ThenIs DEF RunMove
  <2>3. PICK q : q = [phase |-> "saveLead", id |-> l, seen |-> lead[l], copy |-> row, log |-> TRUE, rest |-> rest]
    OBVIOUS
  <2>4. Goes(r, q)
    BY <1>1, <1>4, <2>1, <2>2, <2>3 DEF RunMove, ChangeLead
  <2>5. MayGo(r, q)
    BY <1>1, <1>2, <2>1, <2>2, <2>3, ChangeLeadMay
  <2>. QED
    BY <1>3, <2>4, <2>5, GoesKeeps DEF RunMove
<1>5. CASE ~(c # None /\ Exists(c) /\ (f = None \/ funnel[f] # NoRow))
  <2>1. PICK rest \in LRest : rest = Then(r, "error") /\ RestSound(rest)
    BY ThenIs DEF RunMove
  <2>2. Continue(r, rest)
    BY <1>1, <1>5, <2>1 DEF RunMove
  <2>. QED
    BY <1>3, <2>1, <2>2, ContinueKeeps DEF RunMove
<1>. QED
  BY <1>4, <1>5

LEMMA RunRestKeeps ==
  ASSUME BoardInvariant, NEW r \in BoardRequest, RunNote(r) \/ RunStub(r) \/ WriteLog(r)
  PROVE  BoardInvariant' /\ RowsKept
<1>1. At(r, "run") /\ boardReq[r].phase = "run"
  BY DEF RunNote, RunStub, WriteLog, At
<1>2. PICK rest \in LRest : RestSound(rest) /\ Continue(r, rest)
  BY <1>1, ThenIs, TaskIs DEF RunNote, RunStub, WriteLog
<1>. QED
  BY <1>1, <1>2, ContinueKeeps DEF RunNote, RunStub, WriteLog

LEMMA EngineKeeps ==
  ASSUME BoardInvariant, AutoTyped, NEW r \in BoardRequest, Engine(r)
  PROVE  BoardInvariant' /\ RowsKept
BY OnLeadEventKeeps, RunMoveKeeps, RunRestKeeps, FailsKeeps DEF Engine

-----------------------------------------------------------------------------
(* Steps that write: what each part of the invariant needs of them.        *)

LEMMA ElectedOn ==
  ASSUME BoardTyped, OneElected, NEW r \in BoardRequest, NEW q, q.phase # "saveFunnel",
         boardReq' = [boardReq EXCEPT ![r] = q], UNCHANGED funnel
  PROVE  OneElected'
<1>1. \A s \in BoardRequest : boardReq'[s] = IF s = r THEN q ELSE boardReq[s]
  BY DEF BoardTyped
<1>2. \A f \in Funnel : Elected(f)' => Elected(f)
  BY <1>1 DEF Elected
<1>. QED
  BY <1>2 DEF OneElected

\* The requests that log a movement are the same.
SameLogs ==
  \A s \in BoardRequest :
    boardReq'[s] = boardReq[s] \/ (boardReq[s].phase # "log" /\ boardReq'[s].phase # "log")

LEMMA SameLogsOf ==
  ASSUME BoardTyped, NEW r \in BoardRequest, NEW q, q.phase # "log", boardReq[r].phase # "log",
         boardReq' = [boardReq EXCEPT ![r] = q]
  PROVE  SameLogs
BY DEF SameLogs, BoardTyped

LEMMA WaysOn ==
  ASSUME BoardTyped, WaysHold, SameLogs, UNCHANGED movement,
         leadRaced \subseteq leadRaced', unlogged \subseteq unlogged',
         \A l \in Lead : lead'[l] # NoRow /\ l \notin leadRaced' =>
           lead[l] # NoRow /\ lead'[l].column = lead[l].column
  PROVE  WaysHold'
<1>. SUFFICES ASSUME NEW l \in Lead, lead'[l] # NoRow, l \notin leadRaced' \cup unlogged' PROVE WayOf(l)'
  BY DEF WaysHold
<1>1. WayOf(l) /\ lead'[l].column = lead[l].column
  BY DEF WaysHold
<1>2. Unwritten(l)' = Unwritten(l) /\ \A s \in Unwritten(l) : boardReq'[s] = boardReq[s]
  BY DEF SameLogs, Unwritten
<1>. QED
  BY <1>1, <1>2 DEF WayOf, LastTo

LEMMA MovementTyped ==
  ASSUME BoardTyped, NEW l \in Lead
  PROVE  /\ movement[l] \in Seq(Movement) /\ DOMAIN movement[l] = 1 .. Len(movement[l])
         /\ Len(movement[l]) \in Nat
         /\ \A i \in DOMAIN movement[l] :
              movement[l][i].to \in ColumnId /\ movement[l][i].from \in ColumnId \cup {None}
<1>1. movement[l] \in Seq(Movement)
  BY DEF BoardTyped
<1>2. DOMAIN movement[l] = 1 .. Len(movement[l]) /\ \A i \in DOMAIN movement[l] : movement[l][i] \in Movement
  BY <1>1
<1>. QED
  BY <1>1, <1>2 DEF Movement

\* Columns are added, and leads keep theirs.
LEMMA LeadsStandOn ==
  ASSUME BoardTyped, LeadsStand, RowsKept, UNCHANGED movement,
         \A c \in ColumnId : Exists(c) => Exists(c)',
         \A l \in Lead : lead'[l] = lead[l] \/
           (/\ lead[l] # NoRow /\ lead'[l] # NoRow /\ lead'[l].column = lead[l].column
            /\ lead'[l].dropped \/ (~lead[l].dropped /\ lead'[l].status = lead[l].status))
  PROVE  LeadsStand'
<1>. SUFFICES ASSUME NEW l \in Lead PROVE LeadStands(l)'
  BY DEF LeadsStand
<1>1. LeadStands(l)
  BY DEF LeadsStand
<1>2. CASE lead[l] = NoRow
  BY <1>1, <1>2 DEF LeadStands
<1>3. CASE lead[l] # NoRow
  <2>1. lead[l] \in LeadRow /\ lead[l].column \in ColumnId /\ Exists(lead[l].column) /\ RowFollows(lead[l])
    BY <1>1, <1>3 DEF LeadStands, BoardTyped, LeadRow
  <2>2. lead'[l] # NoRow /\ lead'[l].column = lead[l].column
    BY <1>3
  <2>3. PICK c \in ColumnId : c = lead[l].column
    BY <2>1
  <2>4. Exists(c) /\ Exists(c)' /\ Known(c) /\ Known(c)' /\ column'[c].type = column[c].type
    BY <2>1, <2>3 DEF RowsKept, Known
  <2>5. lead'[l].dropped \/ lead'[l].status = StatusIn(column'[c].type)
    BY <1>3, <2>1, <2>2, <2>3, <2>4 DEF RowFollows
  <2>6. PICK row : row = lead'[l]
    OBVIOUS
  <2>7. RowFollows(row)' /\ Exists(row.column)'
    BY <2>2, <2>3, <2>4, <2>5, <2>6 DEF RowFollows
  <2>8. \A i \in DOMAIN movement[l] :
          movement[l][i].to \in ColumnId /\ movement[l][i].from \in ColumnId \cup {None}
    BY MovementTyped
  <2>9. \A i \in DOMAIN movement[l] :
          /\ column'[movement[l][i].to] # NoRow
          /\ movement[l][i].from # None => column'[movement[l][i].from] # NoRow
    BY <1>1, <1>3, <2>8 DEF LeadStands, Exists
  <2>. QED
    BY <2>2, <2>6, <2>7, <2>9 DEF LeadStands, RowFollows, Exists, Known
<1>. QED
  BY <1>2, <1>3

LEMMA AddingOn ==
  ASSUME BoardTyped, NEW r \in BoardRequest, NEW q, q.phase \notin {"order", "insertColumn"},
         boardReq' = [boardReq EXCEPT ![r] = q], NEW f \in Funnel
  PROVE  AddingTo(f)' = AddingTo(f) \ {r}
BY DEF BoardTyped, AddingTo, Client

LEMMA ColumnsOn ==
  ASSUME BoardTyped, ColumnsHold, UNCHANGED <<column, goneColumn, orderRaced>>,
         \A f \in Funnel : AddingTo(f)' \subseteq AddingTo(f)
  PROVE  ColumnsHold'
<1>1. \A f : ColumnsOf(f)' = ColumnsOf(f)
  BY DEF ColumnsOf, Exists
<1>2. ColumnsBounded' /\ GoneStays' /\ OrdersDistinct'
  BY <1>1 DEF ColumnsHold, ColumnsBounded, GoneStays, OrdersDistinct, Exists
<1>3. RoomKept'
  BY <1>1, RoomOn DEF ColumnsHold, BoardTyped
<1>. QED
  BY <1>2, <1>3 DEF ColumnsHold

-----------------------------------------------------------------------------
(* Funnels are created and saved.                                          *)

LEMMA CreateFunnelKeeps ==
  ASSUME BoardInvariant, NEW r \in Client, NEW f \in Funnel, CreateFunnel(r, f)
  PROVE  BoardInvariant' /\ RowsKept
<1>. USE DEF BoardInvariant
<1>. DEFINE q == [phase |-> "columns", id |-> f, added |-> 0]
<1>1. q \in LAddingReq /\ q.phase = "columns" /\ q.id = f
  BY DEF LAddingReq
<1>2. boardReq' = [boardReq EXCEPT ![r] = q] /\ r \in BoardRequest /\ r # TickSlot /\ boardReq[r].phase = "new"
  BY ClientIs, StartsNew DEF CreateFunnel, Goes
<1>3. funnel[f] = NoRow /\ funnel' = [funnel EXCEPT ![f] = NewFunnel]
      /\ UNCHANGED <<column, goneColumn, lead, movement, orderRaced, leadRaced, unlogged>>
  BY DEF CreateFunnel
<1>. HIDE DEF q
<1>4. BoardTyped'
  BY <1>1, <1>2, <1>3, FunnelRows DEF BoardTyped, LPageReq
<1>5. RowsKept /\ funnel'[f] # NoRow
  BY <1>3, FunnelRows, BoardConstants DEF RowsKept, Known, Exists, BoardTyped
<1>6. RequestsSound'
  BY <1>1, <1>2, <1>5, RequestsSoundOn DEF RequestSound
<1>7. OneElected'
  <2>1. \A s \in BoardRequest : boardReq'[s] = IF s = r THEN q ELSE boardReq[s]
    BY <1>2 DEF BoardTyped
  <2>2. \A g \in Funnel : Elected(g)' => Elected(g)
    BY <1>1, <1>3, <2>1, FunnelRows DEF Elected, BoardTyped
  <2>. QED
    BY <2>2 DEF OneElected
<1>8. ColumnsHold'
  BY <1>1, <1>2, <1>3, AddingOn, ColumnsOn
<1>9. LeadsStand'
  BY <1>3, <1>5, LeadsStandOn DEF Exists
<1>10. WaysHold'
  BY <1>1, <1>2, <1>3, SameLogsOf, WaysOn
<1>. QED
  BY <1>4, <1>5, <1>6, <1>7, <1>8, <1>9, <1>10

LEMMA OverSound == /\ Over \in LSlotReq /\ Over.phase = "over" /\ RequestSound(Over)
BY DEF LSlotReq, Over, RequestSound

LEMMA SaveFunnelKeeps ==
  ASSUME BoardInvariant, NEW r \in Client, SaveFunnel(r)
  PROVE  BoardInvariant' /\ RowsKept
<1>. USE DEF BoardInvariant
<1>1. boardReq[r] \in LSaveFunnelReq /\ boardReq[r].phase = "saveFunnel"
  BY RequestShape, ClientIs DEF SaveFunnel, At, BoardTyped
<1>2. PICK f \in Funnel, row \in FunnelRow : f = boardReq[r].id /\ row = boardReq[r].copy
  BY <1>1 DEF LSaveFunnelReq
<1>3. boardReq' = [boardReq EXCEPT ![r] = Over] /\ r \in BoardRequest /\ r # TickSlot
  BY ClientIs DEF SaveFunnel, Ends
<1>4. funnel' = [funnel EXCEPT ![f] = row]
      /\ UNCHANGED <<column, goneColumn, lead, movement, orderRaced, leadRaced, unlogged>>
  BY <1>2 DEF SaveFunnel
<1>5. BoardTyped'
  BY <1>3, <1>4, OverSound DEF BoardTyped
<1>6. RowsKept
  BY <1>4, BoardConstants DEF RowsKept, Known, Exists, BoardTyped
<1>7. RequestsSound'
  BY <1>3, <1>6, OverSound, RequestsSoundOn DEF RequestSound
<1>8. OneElected'
  <2>1. \A s \in BoardRequest : boardReq'[s] = IF s = r THEN Over ELSE boardReq[s]
    BY <1>3 DEF BoardTyped
  <2>2. \A g \in Funnel : Elected(g)' => Elected(g)
    BY <1>1, <1>2, <1>3, <1>4, <2>1, OverSound DEF Elected, BoardTyped
  <2>. QED
    BY <2>2 DEF OneElected
<1>9. ColumnsHold'
  BY <1>3, <1>4, OverSound, AddingOn, ColumnsOn
<1>10. LeadsStand'
  BY <1>4, <1>6, LeadsStandOn DEF Exists
<1>11. WaysHold'
  BY <1>1, <1>3, <1>4, OverSound, SameLogsOf, WaysOn
<1>. QED
  BY <1>5, <1>6, <1>7, <1>8, <1>9, <1>10, <1>11

-----------------------------------------------------------------------------
(* Columns are inserted, deleted and swapped.                              *)

\* A new column of f after those it has, unless its index is from a stale read.
LEMMA Inserted ==
  ASSUME BoardTyped, ColumnsHold, NEW f \in Funnel, NEW c \in ColumnId, ~Exists(c), c \notin goneColumn,
         NEW type \in ColumnType, NEW order \in Nat,
         column' = [column EXCEPT ![c] = NewColumn(f, type, order)], UNCHANGED <<funnel, goneColumn, lead>>,
         orderRaced' \/ (~orderRaced /\ \A d \in ColumnsOf(f) : column[d].order < order)
  PROVE  /\ column' \in [ColumnId -> ColumnRow \cup {NoRow}]
         /\ RowsKept
         /\ \A d \in ColumnId : Exists(d) => Exists(d)'
         /\ ColumnsBounded' /\ GoneStays' /\ OrdersDistinct'
         /\ ColumnsOf(f)' = ColumnsOf(f) \cup {c} /\ c \notin ColumnsOf(f)
         /\ \A g \in Funnel \ {f} : ColumnsOf(g)' = ColumnsOf(g)
<1>. DEFINE row == NewColumn(f, type, order)
<1>1. row \in ColumnRow /\ row.funnel = f /\ row.order = order /\ row # NoRow
  BY ColumnRows, BoardConstants
<1>. HIDE DEF row
<1>2. \A d \in ColumnId : column'[d] = IF d = c THEN row ELSE column[d]
  BY DEF BoardTyped, row
<1>3. column' \in [ColumnId -> ColumnRow \cup {NoRow}]
  BY <1>1 DEF BoardTyped, row
<1>4. \A d \in ColumnId : Exists(d)' <=> Exists(d) \/ d = c
  BY <1>1, <1>2 DEF Exists
<1>5. RowsKept
  BY <1>2, <1>4 DEF RowsKept, Known
<1>6. ColumnsOf(f)' = ColumnsOf(f) \cup {c} /\ c \notin ColumnsOf(f)
      /\ \A g \in Funnel \ {f} : ColumnsOf(g)' = ColumnsOf(g) /\ c \notin ColumnsOf(g)
  <2>1. \A g \in Funnel : \A d \in ColumnId :
          d \in ColumnsOf(g)' <=> d \in ColumnsOf(g) \/ (d = c /\ g = f)
    BY <1>1, <1>2, <1>4 DEF ColumnsOf
  <2>2. \A g \in Funnel : ColumnsOf(g) \subseteq ColumnId /\ ColumnsOf(g)' \subseteq ColumnId
    BY DEF ColumnsOf
  <2>. QED
    BY <2>1, <2>2 DEF ColumnsOf
<1>7. ColumnsBounded'
  <2>1. PICK b \in Nat : \A d \in ColumnId : Exists(d) => d <= b /\ column[d].order <= b
    BY DEF ColumnsHold, ColumnsBounded
  <2>2. \A d \in ColumnId : Exists(d) => column[d].order \in Nat
    BY DEF BoardTyped, Exists, ColumnRow
  <2>3. \A d \in ColumnId : d \in Nat
    BY BoardConstants
  <2>4. \A d \in ColumnId : Exists(d)' => d <= b + c + order /\ column'[d].order <= b + c + order
    BY <1>1, <1>2, <1>4, <2>1, <2>2, <2>3
  <2>5. b + c + order \in Nat
    BY <2>3
  <2>. QED
    BY <2>4, <2>5 DEF ColumnsBounded
<1>8. GoneStays'
  BY <1>4 DEF ColumnsHold, GoneStays, BoardTyped
<1>9. OrdersDistinct'
  <2>. SUFFICES ASSUME ~orderRaced', NEW g \in Funnel, NEW d \in ColumnsOf(g)', NEW e \in ColumnsOf(g)', d # e
                PROVE  column'[d].order # column'[e].order
    BY DEF OrdersDistinct
  <2>1. \A d_1, e_1 \in ColumnsOf(g) : d_1 # e_1 => column[d_1].order # column[e_1].order
    BY DEF ColumnsHold, OrdersDistinct
  <2>2. \A d_1 \in ColumnsOf(g) : d_1 \in ColumnId /\ column'[d_1] = column[d_1] /\ column[d_1].order \in Nat
    BY <1>2, <1>4 DEF ColumnsOf, BoardTyped, ColumnRow, Exists
  <2>3. CASE d = c
    BY <1>1, <1>2, <1>6, <2>2, <2>3
  <2>4. CASE e = c
    BY <1>1, <1>2, <1>6, <2>2, <2>4
  <2>5. CASE d # c /\ e # c
    BY <1>6, <2>1, <2>2, <2>5
  <2>. QED
    BY <2>3, <2>4, <2>5
<1>. QED
  BY <1>3, <1>4, <1>5, <1>6, <1>7, <1>8, <1>9

LEMMA OneMore ==
  ASSUME NEW S, IsFiniteSet(S), NEW x
  PROVE  Cardinality(S \cup {x}) \in Nat /\ Cardinality(S \cup {x}) <= Cardinality(S) + 1
<1>1. Cardinality(S) \in Nat
  BY FS_CardinalityType
<1>2. Cardinality(S \cup {x}) = IF x \in S THEN Cardinality(S) ELSE Cardinality(S) + 1
  BY FS_AddElement
<1>. QED
  BY <1>1, <1>2

\* One column more, of one that was past the check.
LEMMA RoomAfterInsert ==
  ASSUME BoardTyped, ColumnsHold, NEW f \in Funnel, NEW c, NEW r \in Client, ~orderRaced,
         ColumnsOf(f)' = ColumnsOf(f) \cup {c}, r \in AddingTo(f), AddingTo(f)' = AddingTo(f) \ {r}
  PROVE  Cardinality(ColumnsOf(f)') + Cardinality(AddingTo(f)') < MaxColumns + Cardinality(Client)
<1>. DEFINE Cs == ColumnsOf(f)  As == AddingTo(f)
<1>1. IsFiniteSet(Cs) /\ Cardinality(Cs) \in Nat
  BY ColumnsFinite DEF ColumnsHold
<1>2. IsFiniteSet(As) /\ Cardinality(As) \in Nat /\ r \in As /\ Cardinality(Client) \in Nat
  BY AddingFinite
<1>3. Cardinality(Cs) + Cardinality(As) < MaxColumns + Cardinality(Client)
  BY DEF ColumnsHold, RoomKept
<1>. HIDE DEF Cs, As
<1>4. Cardinality(Cs \cup {c}) <= Cardinality(Cs) + 1 /\ Cardinality(Cs \cup {c}) \in Nat
  BY <1>1, OneMore
<1>5. Cardinality(As \ {r}) = Cardinality(As) - 1
  BY <1>2, FS_RemoveElement
<1>6. Cardinality(Cs \cup {c}) + Cardinality(As \ {r}) < MaxColumns + Cardinality(Client)
  BY <1>1, <1>2, <1>3, <1>4, <1>5, BoardConstants
<1>. QED
  BY <1>6 DEF Cs, As

\* The next default column, of a funnel that has no other but the first few.
LEMMA RoomAfterDefault ==
  ASSUME BoardTyped, ColumnsHold, NEW f \in Funnel, NEW c, NEW r \in Client, ~orderRaced,
         NEW added \in 0 .. 4, \A d \in ColumnsOf(f) : column[d].order < added,
         ColumnsOf(f)' = ColumnsOf(f) \cup {c}, r \notin AddingTo(f)'
  PROVE  Cardinality(ColumnsOf(f)') + Cardinality(AddingTo(f)') < MaxColumns + Cardinality(Client)
<1>. DEFINE Cs == ColumnsOf(f)  As == AddingTo(f)'  index == [d \in Cs |-> column[d].order]  slots == 0 .. added - 1
<1>1. IsFiniteSet(Cs) /\ Cardinality(Cs) \in Nat
  BY ColumnsFinite DEF ColumnsHold
<1>2. As \in SUBSET (Client \ {r})
  BY DEF AddingTo, Client
<1>3. index \in Injection(Cs, slots)
  <2>1. \A d \in Cs : column[d].order \in 0 .. added - 1
    BY DEF BoardTyped, ColumnsOf, Exists, ColumnRow
  <2>2. \A d, e \in Cs : d # e => column[d].order # column[e].order
    BY DEF ColumnsHold, OrdersDistinct
  <2>. QED
    BY <2>1, <2>2 DEF Injection, IsInjective
<1>4. IsFiniteSet(Client) /\ Cardinality(Client) \in Nat
  BY AddingFinite
<1>. HIDE DEF Cs, As, index
<1>5. Cardinality(Client \ {r}) = Cardinality(Client) - 1 /\ IsFiniteSet(Client \ {r})
  BY <1>4, FS_RemoveElement
<1>6. Cardinality(As) <= Cardinality(Client) - 1 /\ Cardinality(As) \in Nat
  BY <1>2, <1>4, <1>5, FS_Subset, FS_CardinalityType
<1>7. IsFiniteSet(slots) /\ Cardinality(slots) = added
  BY FS_Interval
<1>. HIDE DEF slots
<1>8. Cardinality(Cs) <= added
  BY <1>3, <1>7, FS_Injection
<1>9. Cardinality(Cs \cup {c}) <= Cardinality(Cs) + 1 /\ Cardinality(Cs \cup {c}) \in Nat
  BY <1>1, OneMore
<1>10. Cardinality(Cs \cup {c}) + Cardinality(As) < MaxColumns + Cardinality(Client)
  BY <1>1, <1>4, <1>6, <1>8, <1>9, BoardConstants
<1>. QED
  BY <1>10 DEF Cs, As

LEMMA AddDefaultColumnKeeps ==
  ASSUME BoardInvariant, NEW r \in Client, AddDefaultColumn(r)
  PROVE  BoardInvariant' /\ RowsKept
<1>. USE DEF BoardInvariant
<1>1. boardReq[r] \in LAddingReq /\ boardReq[r].phase = "columns" /\ RequestSound(boardReq[r])
  BY RequestShape, ClientIs DEF AddDefaultColumn, At, BoardTyped, RequestsSound
<1>2. PICK f \in Funnel, added \in 0 .. 4 :
        boardReq[r] = [phase |-> "columns", id |-> f, added |-> added] /\ added \in Nat
  BY <1>1 DEF LAddingReq
<1>3. PICK c \in ColumnId : c = FreshColumn /\ ~Exists(c) /\ c \notin goneColumn
  BY FreshIs DEF AddDefaultColumn
<1>4. PICK type \in ColumnType : type = DefaultColumns[added + 1]
  BY DefaultTypes
<1>5. PICK phase, next : phase = (IF added = 4 THEN "first" ELSE "columns") /\ next = added + 1
  OBVIOUS
<1>. DEFINE q == [phase |-> phase, id |-> f, added |-> next]
<1>6. q \in LAddingReq \cup LFirstReq /\ q.phase \in {"columns", "first"} /\ q.id = f
  <2>1. CASE added = 4
    BY <1>5, <2>1 DEF LFirstReq
  <2>2. CASE added # 4
    <3>1. next \in 0 .. 4 /\ phase = "columns"
      BY <1>5, <2>2
    <3>. QED
      BY <3>1 DEF LAddingReq
  <2>. QED
    BY <2>1, <2>2
<1>7. boardReq[r].id = f /\ boardReq[r].added = added
  BY <1>2
<1>8. boardReq' = [boardReq EXCEPT ![r] = q] /\ r \in BoardRequest /\ r # TickSlot
  <2>1. Len(DefaultColumns) = 5
    BY DEF DefaultColumns
  <2>2. phase = IF added + 1 = Len(DefaultColumns) THEN "first" ELSE "columns"
    BY <1>5, <2>1
  <2>. QED
    BY <1>5, <1>7, <2>2, ClientIs DEF AddDefaultColumn, Goes
<1>. HIDE DEF q
<1>9. column' = [column EXCEPT ![c] = NewColumn(f, type, added)]
  BY <1>3, <1>4, <1>7 DEF AddDefaultColumn
<1>10. UNCHANGED <<funnel, goneColumn, lead, movement, leadRaced, unlogged>>
  BY DEF AddDefaultColumn
<1>11. orderRaced' = (orderRaced \/ MaxOrder(f) >= added) /\ orderRaced' \in BOOLEAN
  BY <1>7 DEF AddDefaultColumn
<1>12. orderRaced' \/ (~orderRaced /\ \A d \in ColumnsOf(f) : column[d].order < added)
  <2>1. MaxOrder(f) \in Int /\ \A d \in ColumnsOf(f) : column[d].order <= MaxOrder(f) /\ column[d].order \in Nat
    BY MaxIs DEF ColumnsHold, BoardTyped, ColumnsOf, Exists, ColumnRow
  <2>2. PICK m \in Int : m = MaxOrder(f)
    BY <2>1
  <2>3. CASE m >= added
    BY <1>11, <2>2, <2>3
  <2>4. CASE ~(m >= added)
    BY <1>2, <1>11, <2>1, <2>2, <2>4 DEF BoardTyped
  <2>. QED
    BY <2>3, <2>4
<1>13. /\ column' \in [ColumnId -> ColumnRow \cup {NoRow}] /\ RowsKept
       /\ \A d \in ColumnId : Exists(d) => Exists(d)'
       /\ ColumnsBounded' /\ GoneStays' /\ OrdersDistinct'
       /\ ColumnsOf(f)' = ColumnsOf(f) \cup {c}
       /\ \A g \in Funnel \ {f} : ColumnsOf(g)' = ColumnsOf(g)
  BY <1>2, <1>3, <1>9, <1>10, <1>12, Inserted
<1>14. BoardTyped'
  BY <1>6, <1>8, <1>10, <1>11, <1>13 DEF BoardTyped, LPageReq
<1>15. RequestsSound'
  <2>1. RequestSound(q)'
    BY <1>1, <1>6, <1>7, <1>10 DEF RequestSound
  <2>. QED
    BY <1>8, <1>13, <2>1, RequestsSoundOn
<1>16. OneElected'
  BY <1>6, <1>8, <1>10, ElectedOn
<1>17. RoomKept'
  <2>. SUFFICES ASSUME ~orderRaced', NEW g \in Funnel
                PROVE  Cardinality(ColumnsOf(g)') + Cardinality(AddingTo(g)') < MaxColumns + Cardinality(Client)
    BY DEF RoomKept
  <2>1. AddingTo(g)' = AddingTo(g) \ {r} /\ r \notin AddingTo(g)
    BY <1>1, <1>6, <1>8, AddingOn DEF AddingTo
  <2>2. CASE g = f
    BY <1>11, <1>12, <1>13, <2>1, <2>2, RoomAfterDefault
  <2>3. CASE g # f
    <3>1. ColumnsOf(g)' = ColumnsOf(g) /\ AddingTo(g)' = AddingTo(g)
      BY <1>13, <2>1, <2>3
    <3>. QED
      BY <1>11, <3>1 DEF ColumnsHold, RoomKept
  <2>. QED
    BY <2>2, <2>3
<1>18. LeadsStand'
  BY <1>10, <1>13, LeadsStandOn
<1>19. WaysHold'
  BY <1>1, <1>6, <1>8, <1>10, SameLogsOf, WaysOn
<1>. QED
  BY <1>13, <1>14, <1>15, <1>16, <1>17, <1>18, <1>19 DEF ColumnsHold

LEMMA InsertColumnKeeps ==
  ASSUME BoardInvariant, NEW r \in Client, InsertColumn(r)
  PROVE  BoardInvariant' /\ RowsKept
<1>. USE DEF BoardInvariant
<1>1. boardReq[r] \in LInsertReq /\ boardReq[r].phase = "insertColumn"
  BY RequestShape, ClientIs DEF InsertColumn, At, BoardTyped
<1>2. PICK f \in Funnel, type \in ColumnType, order \in Nat :
        boardReq[r].id = f /\ boardReq[r].type = type /\ boardReq[r].order = order
  BY <1>1 DEF LInsertReq
<1>3. PICK c \in ColumnId : c = FreshColumn /\ ~Exists(c) /\ c \notin goneColumn
  BY FreshIs DEF InsertColumn
<1>4. boardReq' = [boardReq EXCEPT ![r] = Over] /\ r \in BoardRequest /\ r # TickSlot
  BY ClientIs DEF InsertColumn, Ends
<1>5. column' = [column EXCEPT ![c] = NewColumn(f, type, order)]
  BY <1>2, <1>3 DEF InsertColumn
<1>6. UNCHANGED <<funnel, goneColumn, lead, movement, leadRaced, unlogged>>
  BY DEF InsertColumn
<1>7. orderRaced' = (orderRaced \/ order # NextOrder(f)) /\ orderRaced' \in BOOLEAN
  BY <1>2 DEF InsertColumn
<1>8. orderRaced' \/ (~orderRaced /\ \A d \in ColumnsOf(f) : column[d].order < order)
  <2>1. MaxOrder(f) \in Int /\ \A d \in ColumnsOf(f) : column[d].order <= MaxOrder(f) /\ column[d].order \in Nat
    BY MaxIs DEF ColumnsHold, BoardTyped, ColumnsOf, Exists, ColumnRow
  <2>2. PICK m \in Int : m = MaxOrder(f)
    BY <2>1
  <2>3. CASE order # m + 1
    BY <1>7, <2>2, <2>3 DEF NextOrder
  <2>4. CASE order = m + 1
    BY <1>7, <2>1, <2>2, <2>4 DEF BoardTyped
  <2>. QED
    BY <2>3, <2>4
<1>9. /\ column' \in [ColumnId -> ColumnRow \cup {NoRow}] /\ RowsKept
      /\ \A d \in ColumnId : Exists(d) => Exists(d)'
      /\ ColumnsBounded' /\ GoneStays' /\ OrdersDistinct'
      /\ ColumnsOf(f)' = ColumnsOf(f) \cup {c}
      /\ \A g \in Funnel \ {f} : ColumnsOf(g)' = ColumnsOf(g)
  BY <1>3, <1>5, <1>6, <1>8, Inserted
<1>10. BoardTyped'
  BY <1>4, <1>6, <1>7, <1>9, OverSound DEF BoardTyped
<1>11. RequestsSound'
  BY <1>4, <1>9, OverSound, RequestsSoundOn DEF RequestSound
<1>12. OneElected'
  BY <1>4, <1>6, OverSound, ElectedOn
<1>13. RoomKept'
  <2>. SUFFICES ASSUME ~orderRaced', NEW g \in Funnel
                PROVE  Cardinality(ColumnsOf(g)') + Cardinality(AddingTo(g)') < MaxColumns + Cardinality(Client)
    BY DEF RoomKept
  <2>1. AddingTo(g)' = AddingTo(g) \ {r} /\ (r \in AddingTo(g) <=> g = f)
    BY <1>1, <1>2, <1>4, OverSound, AddingOn DEF AddingTo
  <2>2. CASE g = f
    BY <1>7, <1>9, <2>1, <2>2, RoomAfterInsert
  <2>3. CASE g # f
    <3>1. ColumnsOf(g)' = ColumnsOf(g) /\ AddingTo(g)' = AddingTo(g)
      BY <1>9, <2>1, <2>3
    <3>. QED
      BY <1>7, <3>1 DEF ColumnsHold, RoomKept
  <2>. QED
    BY <2>2, <2>3
<1>14. LeadsStand'
  BY <1>6, <1>9, LeadsStandOn
<1>15. WaysHold'
  BY <1>1, <1>4, <1>6, OverSound, SameLogsOf, WaysOn
<1>. QED
  BY <1>9, <1>10, <1>11, <1>12, <1>13, <1>14, <1>15 DEF ColumnsHold

\* What a lead or a movement points to is not deleted.
LEMMA DeleteColumnRowKeeps ==
  ASSUME BoardInvariant, NEW r \in Client, DeleteColumnRow(r)
  PROVE  BoardInvariant' /\ RowsKept
<1>. USE DEF BoardInvariant
<1>1. boardReq[r] \in LDeleteReq /\ boardReq[r].phase = "deleteColumn"
  BY RequestShape, ClientIs DEF DeleteColumnRow, At, BoardTyped
<1>2. PICK c \in ColumnId : c = boardReq[r].id
  BY <1>1 DEF LDeleteReq
<1>3. boardReq' = [boardReq EXCEPT ![r] = Over] /\ r \in BoardRequest /\ r # TickSlot /\ Ends(r)
      /\ UNCHANGED <<funnel, lead, movement, orderRaced, leadRaced, unlogged>>
  BY ClientIs DEF DeleteColumnRow, Ends
<1>4. CASE ~(Exists(c) /\ ~Referenced(c))
  <2>1. UNCHANGED <<column, goneColumn>>
    BY <1>2, <1>4 DEF DeleteColumnRow
  <2>. QED
    BY <1>1, <1>3, <2>1, EndsKeeps DEF boardRows
<1>5. CASE Exists(c) /\ ~Referenced(c)
  <2>1. column' = [column EXCEPT ![c] = NoRow] /\ goneColumn' = goneColumn \cup {c}
    BY <1>2, <1>5 DEF DeleteColumnRow
  <2>2. \A d \in ColumnId : (Exists(d)' <=> Exists(d) /\ d # c) /\ (d # c => column'[d] = column[d])
    BY <2>1 DEF Exists, BoardTyped
  <2>3. RowsKept
    BY <1>3, <2>1, <2>2 DEF RowsKept, Known
  <2>4. BoardTyped'
    BY <1>3, <2>1, OverSound DEF BoardTyped
  <2>5. RequestsSound'
    BY <1>3, <2>3, OverSound, RequestsSoundOn DEF RequestSound
  <2>6. OneElected'
    BY <1>3, OverSound, ElectedOn
  <2>7. \A f \in Funnel : \A d \in ColumnsOf(f)' : d \in ColumnsOf(f) /\ column'[d] = column[d]
    BY <2>2 DEF ColumnsOf
  <2>8. ColumnsBounded' /\ GoneStays' /\ OrdersDistinct'
    <3>1. ColumnsBounded'
      BY <2>2 DEF ColumnsHold, ColumnsBounded
    <3>2. GoneStays'
      BY <2>1, <2>2 DEF ColumnsHold, GoneStays, BoardTyped
    <3>3. OrdersDistinct'
      BY <1>3, <2>7 DEF ColumnsHold, OrdersDistinct
    <3>. QED
      BY <3>1, <3>2, <3>3
  <2>9. RoomKept'
    <3>1. \A f \in Funnel : AddingTo(f)' \subseteq AddingTo(f)
      BY <1>3, OverSound, AddingOn
    <3>. QED
      BY <1>3, <2>7, <3>1, RoomOn DEF ColumnsHold, BoardTyped
  <2>10. LeadsStand'
    <3>. SUFFICES ASSUME NEW l \in Lead, lead[l] # NoRow PROVE LeadStands(l)'
      BY <1>3 DEF LeadsStand, LeadStands
    <3>1. LeadStands(l)
      BY DEF LeadsStand
    <3>2. lead[l].column # c
      <4>1. SUFFICES ASSUME lead[l].column = c PROVE FALSE
        OBVIOUS
      <4>. DEFINE On == {k \in Lead : lead[k] # NoRow /\ lead[k].column = c}
      <4>2. On \in SUBSET Lead /\ On # {} /\ CountByColumn(c) = Cardinality(On)
        BY <4>1 DEF CountByColumn
      <4>. HIDE DEF On
      <4>3. IsFiniteSet(On) /\ Cardinality(On) \in Nat /\ Cardinality(On) # 0
        BY <4>2, BoardConstants, FS_Subset, FS_CardinalityType, FS_EmptySet
      <4>. QED
        BY <1>5, <4>2, <4>3 DEF Referenced
    <3>3. \A i \in DOMAIN movement[l] : movement[l][i].from # c /\ movement[l][i].to # c
      BY <1>5 DEF Referenced
    <3>4. lead[l].column \in ColumnId
      BY DEF BoardTyped, LeadRow
    <3>5. Exists(lead[l].column) /\ column'[lead[l].column] = column[lead[l].column]
      BY <2>2, <3>1, <3>2, <3>4 DEF LeadStands
    <3>6. \A i \in DOMAIN movement[l] :
            /\ column'[movement[l][i].to] # NoRow
            /\ movement[l][i].from # None => column'[movement[l][i].from] # NoRow
      BY <2>2, <3>1, <3>3, MovementTyped DEF LeadStands, Exists
    <3>. QED
      BY <1>3, <3>1, <3>5, <3>6 DEF LeadStands, RowFollows, Known, Exists
  <2>11. WaysHold'
    BY <1>1, <1>3, OverSound, SameLogsOf, WaysOn
  <2>. QED
    BY <2>3, <2>4, <2>5, <2>6, <2>8, <2>9, <2>10, <2>11 DEF ColumnsHold
<1>. QED
  BY <1>4, <1>5

LEMMA SwapOrderKeeps ==
  ASSUME BoardInvariant, NEW r \in Client, SwapOrder(r)
  PROVE  BoardInvariant' /\ RowsKept
<1>. USE DEF BoardInvariant
<1>1. boardReq[r] \in LSwapReq /\ boardReq[r].phase = "swap" /\ RequestSound(boardReq[r])
  BY RequestShape, ClientIs DEF SwapOrder, At, BoardTyped, RequestsSound
<1>2. PICK c \in ColumnId, d \in ColumnId, order \in Nat, other \in Nat :
        boardReq[r].id = c /\ boardReq[r].with = d /\ boardReq[r].order = order /\ boardReq[r].other = other
  BY <1>1 DEF LSwapReq
<1>3. boardReq' = [boardReq EXCEPT ![r] = Over] /\ r \in BoardRequest /\ r # TickSlot
      /\ UNCHANGED <<funnel, goneColumn, lead, movement, leadRaced, unlogged>>
  BY ClientIs DEF SwapOrder, Ends
<1>4. column' = [e \in ColumnId |->
        CASE Exists(e) /\ e = c -> [column[e] EXCEPT !.order = other]
          [] Exists(e) /\ e = d -> [column[e] EXCEPT !.order = order]
          [] OTHER -> column[e]]
  BY <1>2 DEF SwapOrder
<1>5. c # d /\ (Exists(c) /\ Exists(d) => column[c].funnel = column[d].funnel)
  BY <1>1, <1>2 DEF RequestSound, SwapSound
<1>6. \A e \in ColumnId : ~Exists(e) => column'[e] = NoRow
  BY <1>4 DEF Exists
<1>7. \A e \in ColumnId : Exists(e) =>
        /\ column'[e] \in ColumnRow /\ column'[e].funnel = column[e].funnel /\ column'[e].type = column[e].type
        /\ column'[e].order = IF e = c THEN other ELSE IF e = d THEN order ELSE column[e].order
  BY <1>4, <1>5 DEF BoardTyped, ColumnRow, Exists
<1>8. column' \in [ColumnId -> ColumnRow \cup {NoRow}]
  <2>1. DOMAIN column' = ColumnId /\ column' = [e \in ColumnId |-> column'[e]]
    BY <1>4
  <2>2. \A e \in ColumnId : column'[e] \in ColumnRow \cup {NoRow}
    BY <1>6, <1>7
  <2>. QED
    BY <2>1, <2>2
<1>9. \A e \in ColumnId : Exists(e)' <=> Exists(e)
  BY <1>6, <1>7, BoardConstants DEF Exists
<1>10. orderRaced' \in BOOLEAN /\ (orderRaced => orderRaced')
       /\ (~orderRaced' => Exists(c) /\ Exists(d) /\ column[c].order = order /\ column[d].order = other)
  BY <1>2 DEF SwapOrder, BoardTyped
<1>11. RowsKept
  BY <1>3, <1>7, <1>9 DEF RowsKept, Known
<1>12. BoardTyped'
  BY <1>3, <1>8, <1>10, OverSound DEF BoardTyped
<1>13. RequestsSound'
  BY <1>3, <1>11, OverSound, RequestsSoundOn DEF RequestSound
<1>14. OneElected'
  BY <1>3, OverSound, ElectedOn
<1>15. \A f \in Funnel : ColumnsOf(f)' = ColumnsOf(f)
  BY <1>7, <1>9 DEF ColumnsOf
<1>16. ColumnsBounded' /\ GoneStays'
  <2>1. PICK b \in Nat : \A e \in ColumnId : Exists(e) => e <= b /\ column[e].order <= b
    BY DEF ColumnsHold, ColumnsBounded
  <2>2. \A e \in ColumnId : e \in Nat /\ (Exists(e) => column[e].order \in Nat)
    BY BoardConstants DEF BoardTyped, Exists, ColumnRow
  <2>3. \A e \in ColumnId : Exists(e)' => e <= b + order + other /\ column'[e].order <= b + order + other
    BY <1>7, <1>9, <2>1, <2>2
  <2>4. b + order + other \in Nat
    OBVIOUS
  <2>5. ColumnsBounded'
    BY <2>3, <2>4 DEF ColumnsBounded
  <2>. QED
    BY <1>3, <1>9, <2>5 DEF ColumnsHold, GoneStays, BoardTyped
<1>17. OrdersDistinct'
  <2>. SUFFICES ASSUME ~orderRaced', NEW f \in Funnel, NEW e \in ColumnsOf(f), NEW g \in ColumnsOf(f), e # g
                PROVE  column'[e].order # column'[g].order
    BY <1>15 DEF OrdersDistinct
  <2>1. e \in ColumnId /\ g \in ColumnId /\ Exists(e) /\ Exists(g) /\ column[e].funnel = f /\ column[g].funnel = f
    BY DEF ColumnsOf
  <2>2. \A x, y \in ColumnsOf(f) : x # y => column[x].order # column[y].order
    BY <1>10 DEF ColumnsHold, OrdersDistinct
  <2>3. c \in ColumnsOf(f) <=> d \in ColumnsOf(f)
    BY <1>5, <1>10 DEF ColumnsOf
  <2>. QED
    BY <1>7, <1>10, <2>1, <2>2, <2>3
<1>18. RoomKept'
  <2>1. \A f \in Funnel : AddingTo(f)' \subseteq AddingTo(f)
    BY <1>3, OverSound, AddingOn
  <2>. QED
    BY <1>10, <1>15, <2>1, RoomOn DEF ColumnsHold
<1>19. LeadsStand'
  BY <1>3, <1>9, <1>11, LeadsStandOn
<1>20. WaysHold'
  BY <1>1, <1>3, OverSound, SameLogsOf, WaysOn
<1>. QED
  BY <1>11, <1>12, <1>13, <1>14, <1>16, <1>17, <1>18, <1>19, <1>20 DEF ColumnsHold

-----------------------------------------------------------------------------
(* Leads are inserted and saved, and their movements written.              *)

\* A lead's row is written whole.
LEMMA LeadWritten ==
  ASSUME BoardTyped, LeadsStand, NEW l \in Lead, NEW row \in LeadRow, RowFollows(row), Exists(row.column),
         lead' = [lead EXCEPT ![l] = row], UNCHANGED <<funnel, column, goneColumn, movement>>
  PROVE  lead' \in [Lead -> LeadRow \cup {NoRow}] /\ RowsKept /\ LeadsStand'
<1>1. lead' \in [Lead -> LeadRow \cup {NoRow}] /\ row # NoRow
  BY BoardConstants DEF BoardTyped
<1>2. \A k \in Lead : lead'[k] = IF k = l THEN row ELSE lead[k]
  BY DEF BoardTyped
<1>3. RowsKept
  BY <1>1, <1>2 DEF RowsKept, Known, Exists
<1>4. LeadsStand'
  <2>. SUFFICES ASSUME NEW k \in Lead PROVE LeadStands(k)'
    BY DEF LeadsStand
  <2>1. LeadStands(k)
    BY DEF LeadsStand
  <2>2. CASE k = l
    <3>1. \A i \in DOMAIN movement[k] :
            /\ column[movement[k][i].to] # NoRow
            /\ movement[k][i].from # None => column[movement[k][i].from] # NoRow
      <4>1. CASE lead[k] = NoRow
        <5>1. movement[k] = <<>>
          BY <2>1, <4>1 DEF LeadStands
        <5>. QED
          BY <5>1
      <4>2. CASE lead[k] # NoRow
        BY <2>1, <4>2 DEF LeadStands, Exists
      <4>. QED
        BY <4>1, <4>2
    <3>. QED
      BY <1>1, <1>2, <2>2, <3>1 DEF LeadStands, RowFollows, Known, Exists
  <2>3. CASE k # l
    BY <1>2, <2>1, <2>3 DEF LeadStands, RowFollows, Known, Exists
  <2>. QED
    BY <2>2, <2>3
<1>. QED
  BY <1>1, <1>3, <1>4

\* The way of a lead but for the one whose movement is now to be written.
LEMMA OtherWays ==
  ASSUME BoardTyped, WaysHold, NEW r \in BoardRequest, NEW q, NEW l \in Lead, q.id = l,
         boardReq[r].phase = "log" => boardReq[r].id = l,
         boardReq' = [boardReq EXCEPT ![r] = q],
         leadRaced \subseteq leadRaced', unlogged \subseteq unlogged',
         \A k \in Lead \ {l} : lead'[k] = lead[k] /\ movement'[k] = movement[k]
  PROVE  \A k \in Lead \ {l} : lead'[k] # NoRow /\ k \notin leadRaced' \cup unlogged' => WayOf(k)'
<1>. SUFFICES ASSUME NEW k \in Lead \ {l}, lead'[k] # NoRow, k \notin leadRaced' \cup unlogged' PROVE WayOf(k)'
  OBVIOUS
<1>1. WayOf(k)
  BY DEF WaysHold
<1>2. \A s \in BoardRequest : boardReq'[s] = IF s = r THEN q ELSE boardReq[s]
  BY DEF BoardTyped
<1>3. Unwritten(k)' = Unwritten(k) /\ \A s \in Unwritten(k) : boardReq'[s] = boardReq[s]
  BY <1>2 DEF Unwritten
<1>. QED
  BY <1>1, <1>3 DEF WayOf, LastTo

LEMMA InsertLeadKeeps ==
  ASSUME BoardInvariant, NEW r \in Client, NEW l \in Lead, InsertLead(r, l)
  PROVE  BoardInvariant' /\ RowsKept
<1>. USE DEF BoardInvariant
<1>1. boardReq[r] \in LInsertLeadReq /\ boardReq[r].phase = "insertLead" /\ RequestSound(boardReq[r])
      /\ r \in BoardRequest /\ r # TickSlot
  BY RequestShape, ClientIs DEF InsertLead, At, BoardTyped, RequestsSound
<1>2. PICK row \in LeadRow : row = boardReq[r].copy
  BY <1>1 DEF LInsertLeadReq
<1>3. row.column \in ColumnId /\ RowFollows(row)
  BY <1>1, <1>2 DEF RequestSound, LeadRow
<1>4. CASE ~Exists(row.column)
  <2>1. Ends(r) /\ UNCHANGED lead
    BY <1>2, <1>4 DEF InsertLead, ColumnKept
  <2>. QED
    BY <1>1, <2>1, EndsKeeps DEF InsertLead, boardRows
<1>5. CASE Exists(row.column)
  <2>. DEFINE q == [phase |-> "log", id |-> l, from |-> None, to |-> row.column, rest |-> <<>>]
  <2>1. q \in LLogReq /\ q.phase = "log" /\ q.id = l /\ q.from = None /\ q.to = row.column /\ q.rest = <<>>
    BY <1>3, NoRest DEF LLogReq
  <2>2. lead' = [lead EXCEPT ![l] = row] /\ boardReq' = [boardReq EXCEPT ![r] = q]
    BY <1>2, <1>5 DEF InsertLead, ColumnKept, Goes
  <2>3. lead[l] = NoRow
        /\ UNCHANGED <<funnel, column, goneColumn, movement, orderRaced, leadRaced, unlogged>>
    BY DEF InsertLead
  <2>. HIDE DEF q
  <2>4. lead' \in [Lead -> LeadRow \cup {NoRow}] /\ RowsKept /\ LeadsStand'
    BY <1>3, <1>5, <2>2, <2>3, LeadWritten
  <2>5. BoardTyped'
    BY <1>1, <2>1, <2>2, <2>3, <2>4 DEF BoardTyped, LSlotReq
  <2>6. lead'[l] = row /\ row # NoRow
    BY <2>2, BoardConstants DEF BoardTyped
  <2>7. RequestsSound'
    <3>1. RequestSound(q)'
      BY <2>1, <2>6 DEF RequestSound, RestSound
    <3>. QED
      BY <1>1, <2>2, <2>4, <3>1, RequestsSoundOn
  <2>8. OneElected'
    BY <1>1, <2>1, <2>2, <2>3, ElectedOn
  <2>9. ColumnsHold'
    BY <1>1, <2>1, <2>2, <2>3, AddingOn, ColumnsOn
  <2>10. WayOf(l)'
    <3>1. movement'[l] = <<>>
      BY <2>3 DEF LeadsStand, LeadStands
    <3>2. Unwritten(l) = {}
      BY <2>3 DEF Unwritten, RequestsSound, RequestSound
    <3>3. \A s \in BoardRequest : boardReq'[s] = IF s = r THEN q ELSE boardReq[s]
      BY <2>2 DEF BoardTyped
    <3>4. Unwritten(l)' = {r} /\ boardReq'[r] = q
      BY <1>1, <2>1, <3>2, <3>3 DEF Unwritten
    <3>. QED
      BY <2>1, <2>6, <3>1, <3>4 DEF WayOf, LastTo
  <2>11. WaysHold'
    <3>1. \A k \in Lead \ {l} : lead'[k] = lead[k] /\ movement'[k] = movement[k]
      BY <2>2, <2>3 DEF BoardTyped
    <3>. QED
      BY <1>1, <2>1, <2>2, <2>3, <2>10, <3>1, OtherWays DEF WaysHold
  <2>. QED
    BY <2>4, <2>5, <2>7, <2>8, <2>9, <2>11
<1>. QED
  BY <1>4, <1>5

LEMMA SaveLeadKeeps ==
  ASSUME BoardInvariant, NEW r \in BoardRequest, SaveLead(r)
  PROVE  BoardInvariant' /\ RowsKept
<1>. USE DEF BoardInvariant
<1>1. boardReq[r] \in LSaveLeadReq /\ boardReq[r].phase = "saveLead" /\ RequestSound(boardReq[r])
  BY RequestShape DEF SaveLead, At, BoardTyped, RequestsSound
<1>2. PICK l \in Lead, seen \in LeadRow, row \in LeadRow, log \in BOOLEAN, rest \in LRest :
        boardReq[r] = [phase |-> "saveLead", id |-> l, seen |-> seen, copy |-> row, log |-> log, rest |-> rest]
  BY <1>1 DEF LSaveLeadReq
<1>3. boardReq[r].id = l /\ boardReq[r].seen = seen /\ boardReq[r].copy = row /\ boardReq[r].log = log
      /\ boardReq[r].rest = rest
  BY <1>2
<1>4. row.column \in ColumnId /\ seen.column \in ColumnId /\ RowFollows(row) /\ RestSound(rest)
      /\ (~log => row.column = seen.column) /\ (rest # <<>> => rest[1].do = "log") /\ lead[l] # NoRow
  BY <1>1, <1>3 DEF RequestSound, LeadRow
<1>5. CASE ~Exists(row.column)
  <2>1. Refused(r) /\ UNCHANGED <<boardRows, orderRaced, leadRaced, unlogged>>
    BY <1>3, <1>5 DEF SaveLead, ColumnKept, boardRows
  <2>2. PICK q : MayGo(r, q) /\ Goes(r, q)
    BY <1>1, <2>1, RefusedMay DEF Goes
  <2>. QED
    BY <1>1, <2>1, <2>2, GoesKeeps
<1>6. CASE Exists(row.column)
  <2>. DEFINE next == IF log THEN [phase |-> "log", id |-> l, from |-> seen.column, to |-> row.column, rest |-> rest]
                      ELSE Over
  <2>1. PICK q : q = next
    OBVIOUS
  <2>2. lead' = [lead EXCEPT ![l] = row] /\ boardReq' = [boardReq EXCEPT ![r] = q]
        /\ leadRaced' = (IF lead[l] = seen /\ (log => Settled(l)) THEN leadRaced ELSE leadRaced \cup {l})
        /\ UNCHANGED <<funnel, column, goneColumn, movement, orderRaced, unlogged>>
    BY <1>3, <1>6, <2>1 DEF SaveLead, ColumnKept, SavedLead, Goes, Ends
  <2>3. q \in LSlotReq /\ q.phase \in {"log", "over"} /\ (log <=> q.phase = "log")
        /\ (log => q.id = l /\ q.from = seen.column /\ q.to = row.column /\ q.rest = rest)
    BY <1>4, <2>1, OverSound DEF LSlotReq, LLogReq
  <2>. HIDE DEF next
  <2>4. lead' \in [Lead -> LeadRow \cup {NoRow}] /\ RowsKept /\ LeadsStand'
    BY <1>4, <1>6, <2>2, LeadWritten
  <2>5. BoardTyped'
    BY <2>2, <2>3, <2>4, BoardConstants DEF BoardTyped
  <2>6. lead'[l] = row /\ row # NoRow
    BY <2>2, BoardConstants DEF BoardTyped
  <2>7. RequestsSound'
    <3>1. RestSound(rest)'
      BY <1>4, <2>4, RestSoundOn
    <3>2. RequestSound(q)'
      BY <1>4, <2>3, <2>6, <3>1 DEF RequestSound
    <3>. QED
      BY <2>2, <2>4, <3>2, RequestsSoundOn
  <2>8. OneElected'
    BY <2>2, <2>3, ElectedOn
  <2>9. ColumnsHold'
    BY <2>2, <2>3, AddingOn, ColumnsOn
  <2>10. WaysHold'
    <3>1. \A k \in Lead \ {l} : lead'[k] = lead[k] /\ movement'[k] = movement[k]
      BY <2>2 DEF BoardTyped
    <3>2. CASE ~log
      <4>1. SameLogs
        BY <1>1, <2>2, <2>3, <3>2, SameLogsOf
      <4>2. \A k \in Lead : lead'[k] # NoRow /\ k \notin leadRaced' =>
              lead[k] # NoRow /\ lead'[k].column = lead[k].column
        BY <1>4, <2>2, <2>6, <3>1, <3>2
      <4>. QED
        BY <2>2, <4>1, <4>2, WaysOn
    <3>3. CASE log
      <4>1. \A k \in Lead \ {l} : lead'[k] # NoRow /\ k \notin leadRaced' \cup unlogged' => WayOf(k)'
        BY <1>1, <2>2, <2>3, <3>1, <3>3, OtherWays
      <4>2. ASSUME l \notin leadRaced' \cup unlogged' PROVE WayOf(l)'
        <5>1. lead[l] = seen /\ Settled(l) /\ l \notin leadRaced \cup unlogged
          BY <2>2, <3>3, <4>2
        <5>2. WayOf(l) /\ Unwritten(l) = {}
          BY <1>4, <5>1 DEF WaysHold, Settled, Unwritten
        <5>3. \A s \in BoardRequest : boardReq'[s] = IF s = r THEN q ELSE boardReq[s]
          BY <2>2 DEF BoardTyped
        <5>4. Unwritten(l)' = {r} /\ boardReq'[r] = q
          BY <2>3, <3>3, <5>2, <5>3 DEF Unwritten
        <5>5. LastTo(l) = seen.column
          BY <5>1, <5>2 DEF WayOf
        <5>. QED
          BY <2>2, <2>3, <2>6, <3>3, <5>2, <5>4, <5>5 DEF WayOf, LastTo
      <4>. QED
        BY <4>1, <4>2 DEF WaysHold
    <3>. QED
      BY <3>2, <3>3
  <2>. QED
    BY <2>4, <2>5, <2>7, <2>8, <2>9, <2>10
<1>. QED
  BY <1>5, <1>6

LEMMA LogMovementKeeps ==
  ASSUME BoardInvariant, NEW r \in BoardRequest, LogMovement(r)
  PROVE  BoardInvariant' /\ RowsKept
<1>. USE DEF BoardInvariant
<1>1. boardReq[r] \in LLogReq /\ boardReq[r].phase = "log" /\ RequestSound(boardReq[r])
  BY RequestShape DEF LogMovement, At, BoardTyped, RequestsSound
<1>2. PICK l \in Lead, from \in ColumnId \cup {None}, to \in ColumnId, rest \in LRest :
        boardReq[r] = [phase |-> "log", id |-> l, from |-> from, to |-> to, rest |-> rest]
  BY <1>1 DEF LLogReq
<1>3. boardReq[r].id = l /\ boardReq[r].from = from /\ boardReq[r].to = to /\ boardReq[r].rest = rest
  BY <1>2
<1>4. lead[l] # NoRow /\ RestSound(rest)
  BY <1>1, <1>3 DEF RequestSound
<1>5. UNCHANGED <<funnel, column, goneColumn, lead, orderRaced, leadRaced>>
  BY DEF LogMovement
<1>6. CASE ~(Exists(to) /\ (from = None \/ Exists(from)))
  <2>1. Refused(r) /\ unlogged' = unlogged \cup {l} /\ UNCHANGED movement
    BY <1>3, <1>6 DEF LogMovement, ColumnKept
  <2>2. PICK q : MayGo(r, q) /\ boardReq' = [boardReq EXCEPT ![r] = q]
    BY <1>1, <2>1, RefusedMay
  <2>3. unlogged' \subseteq Lead /\ unlogged \subseteq unlogged' /\ boardReq[r].id \in unlogged'
    BY <1>3, <2>1 DEF BoardTyped
  <2>. QED
    BY <1>5, <2>1, <2>2, <2>3, ReadOnlyKeeps DEF boardRows
<1>7. CASE Exists(to) /\ (from = None \/ Exists(from))
  <2>. DEFINE step == [from |-> from, to |-> to]
              q == [phase |-> "trigger", id |-> l, from |-> from, to |-> to, rest |-> rest]
  <2>1. movement' = [movement EXCEPT ![l] = Append(@, step)] /\ UNCHANGED unlogged
    BY <1>3, <1>7 DEF LogMovement, ColumnKept
  <2>2. boardReq' = [boardReq EXCEPT ![r] = q]
    <3>1. q = [boardReq[r] EXCEPT !.phase = "trigger"]
      BY <1>2
    <3>. QED
      BY <1>3, <1>7, <3>1 DEF LogMovement, ColumnKept, Goes
  <2>3. q \in LLogReq /\ q.phase = "trigger" /\ q.id = l /\ q.rest = rest
    BY DEF LLogReq
  <2>4. step \in Movement /\ step.from = from /\ step.to = to
    BY DEF Movement
  <2>. HIDE DEF step, q
  <2>5. PICK way \in Seq(Movement) : way = movement[l]
    BY DEF BoardTyped
  <2>6. movement'[l] = Append(way, step) /\ \A k \in Lead \ {l} : movement'[k] = movement[k]
    BY <2>1, <2>5 DEF BoardTyped
  <2>7. /\ Append(way, step) \in Seq(Movement) /\ Len(Append(way, step)) = Len(way) + 1 /\ Len(way) \in Nat
        /\ DOMAIN way = 1 .. Len(way) /\ DOMAIN Append(way, step) = 1 .. Len(way) + 1
        /\ Append(way, step)[Len(way) + 1] = step
        /\ \A i \in 1 .. Len(way) : Append(way, step)[i] = way[i]
    BY <2>4
  <2>8. RowsKept
    BY <1>5 DEF RowsKept, Known, Exists
  <2>9. BoardTyped'
    <3>1. movement' \in [Lead -> Seq(Movement)]
      BY <2>1, <2>5, <2>7 DEF BoardTyped
    <3>. QED
      BY <1>5, <2>1, <2>2, <2>3, <3>1, BoardConstants DEF BoardTyped, LSlotReq
  <2>10. RequestsSound'
    <3>1. RestSound(rest)'
      BY <1>4, <2>8, RestSoundOn
    <3>2. RequestSound(q)'
      BY <1>4, <1>5, <2>3, <3>1 DEF RequestSound
    <3>. QED
      BY <2>2, <2>8, <3>2, RequestsSoundOn
  <2>11. OneElected'
    BY <1>5, <2>2, <2>3, ElectedOn
  <2>12. ColumnsHold'
    BY <1>5, <2>2, <2>3, AddingOn, ColumnsOn
  <2>13. LeadsStand'
    <3>. SUFFICES ASSUME NEW k \in Lead PROVE LeadStands(k)'
      BY DEF LeadsStand
    <3>1. LeadStands(k)
      BY DEF LeadsStand
    <3>2. CASE k # l
      BY <1>5, <2>6, <3>1, <3>2 DEF LeadStands, RowFollows, Known, Exists
    <3>3. CASE k = l
      <4>1. \A i \in 1 .. Len(way) :
              column[way[i].to] # NoRow /\ (way[i].from # None => column[way[i].from] # NoRow)
        BY <1>4, <2>5, <2>7, <3>1, <3>3 DEF LeadStands, Exists
      <4>2. \A i \in 1 .. Len(way) + 1 : i \in 1 .. Len(way) \/ i = Len(way) + 1
        BY <2>7
      <4>3. \A i \in DOMAIN movement'[l] :
              /\ column[movement'[l][i].to] # NoRow
              /\ movement'[l][i].from # None => column[movement'[l][i].from] # NoRow
        BY <1>7, <2>4, <2>6, <2>7, <4>1, <4>2 DEF Exists
      <4>. QED
        BY <1>4, <1>5, <3>1, <3>3, <4>3 DEF LeadStands, RowFollows, Known, Exists
    <3>. QED
      BY <3>2, <3>3
  <2>14. WaysHold'
    <3>1. \A k \in Lead \ {l} : lead'[k] # NoRow /\ k \notin leadRaced' \cup unlogged' => WayOf(k)'
      BY <1>3, <1>5, <2>1, <2>2, <2>3, <2>6, OtherWays
    <3>2. ASSUME l \notin leadRaced' \cup unlogged' PROVE WayOf(l)'
      <4>1. WayOf(l) /\ r \in Unwritten(l)
        BY <1>1, <1>3, <1>4, <1>5, <2>1, <3>2 DEF WaysHold, Unwritten
      <4>2. from = LastTo(l) /\ to = lead[l].column /\ \A s \in Unwritten(l) : s = r
        BY <1>3, <4>1 DEF WayOf
      <4>3. Unwritten(l)' = {}
        BY <2>2, <2>3, <4>2 DEF Unwritten, BoardTyped
      <4>4. LastTo(l)' = to
        BY <2>4, <2>6, <2>7 DEF LastTo
      <4>5. movement'[l] # <<>> /\ movement'[l][1].from = None
        <5>1. CASE way = <<>>
          <6>1. Len(way) = 0
            BY <5>1
          <6>. QED
            BY <2>4, <2>5, <2>6, <2>7, <4>2, <5>1, <6>1 DEF LastTo
        <5>2. CASE way # <<>>
          <6>1. 1 \in 1 .. Len(way)
            BY <2>7, <5>2
          <6>. QED
            BY <2>5, <2>6, <2>7, <4>1, <5>2, <6>1 DEF WayOf
        <5>. QED
          BY <5>1, <5>2
      <4>6. ASSUME NEW i \in 2 .. Len(way) + 1 PROVE movement'[l][i].from = movement'[l][i - 1].to
        <5>1. CASE i = Len(way) + 1
          <6>1. Len(way) \in 1 .. Len(way) /\ i - 1 = Len(way) /\ way # <<>>
            BY <2>7, <5>1
          <6>. QED
            BY <2>4, <2>5, <2>6, <2>7, <4>2, <5>1, <6>1 DEF LastTo
        <5>2. CASE i # Len(way) + 1
          <6>1. i \in 2 .. Len(way) /\ i \in 1 .. Len(way) /\ i - 1 \in 1 .. Len(way)
            BY <2>7, <5>2
          <6>. QED
            BY <2>5, <2>6, <2>7, <4>1, <6>1 DEF WayOf
        <5>. QED
          BY <5>1, <5>2
      <4>. QED
        BY <1>5, <2>6, <2>7, <4>2, <4>3, <4>4, <4>5, <4>6 DEF WayOf
    <3>. QED
      BY <3>1, <3>2 DEF WaysHold
  <2>. QED
    BY <2>8, <2>9, <2>10, <2>11, <2>12, <2>13, <2>14
<1>. QED
  BY <1>6, <1>7

LEMMA RequestsStay ==
  ASSUME BoardTyped, RequestsSound, RowsKept, UNCHANGED boardReq
  PROVE  RequestsSound'
<1>1. PICK q : q = boardReq[TickSlot]
  OBVIOUS
<1>2. TickSlot \in BoardRequest /\ q \in LSlotReq \cup LPageReq /\ RequestSound(q)
  BY <1>1, BoardConstants DEF BoardTyped, RequestsSound
<1>3. boardReq' = [boardReq EXCEPT ![TickSlot] = q]
  BY <1>1, <1>2 DEF BoardTyped
<1>4. RequestSound(q)'
  BY <1>2, RequestSoundOn
<1>. QED
  BY <1>2, <1>3, <1>4, RequestsSoundOn

\* The clock and the ticker write a lead's row where it is.
LEMMA LeadTouched ==
  ASSUME BoardInvariant, NEW l \in Lead, lead[l] # NoRow, NEW row \in LeadRow,
         row.column = lead[l].column, row.dropped \/ (~lead[l].dropped /\ row.status = lead[l].status),
         lead' = [lead EXCEPT ![l] = row],
         UNCHANGED <<funnel, column, goneColumn, movement, boardReq, orderRaced, leadRaced, unlogged>>
  PROVE  BoardInvariant' /\ RowsKept
<1>. USE DEF BoardInvariant
<1>1. lead' \in [Lead -> LeadRow \cup {NoRow}] /\ row # NoRow
      /\ \A k \in Lead : lead'[k] = IF k = l THEN row ELSE lead[k]
  BY BoardConstants DEF BoardTyped
<1>2. BoardTyped'
  BY <1>1 DEF BoardTyped
<1>3. RowsKept
  BY <1>1 DEF RowsKept, Known, Exists
<1>4. OneElected' /\ ColumnsHold'
  <2>1. OneElected'
    BY DEF OneElected, Elected
  <2>2. \A f \in Funnel : AddingTo(f)' \subseteq AddingTo(f)
    BY DEF AddingTo, Client
  <2>. QED
    BY <2>1, <2>2, ColumnsOn
<1>5. LeadsStand'
  BY <1>1, <1>3, LeadsStandOn DEF Exists
<1>6. RequestsSound'
  BY <1>3, RequestsStay
<1>7. WaysHold'
  BY <1>1, WaysOn DEF SameLogs
<1>. QED
  BY <1>2, <1>3, <1>4, <1>5, <1>6, <1>7

LEMMA AgeKeeps ==
  ASSUME BoardInvariant, NEW l \in Lead, Age(l)
  PROVE  BoardInvariant' /\ RowsKept
<1>1. lead[l] # NoRow /\ lead[l] \in LeadRow
  BY DEF Age, BoardInvariant, BoardTyped
<1>2. PICK row : row = [lead[l] EXCEPT !.aged = TRUE]
  OBVIOUS
<1>3. row \in LeadRow /\ row.column = lead[l].column /\ row.dropped = lead[l].dropped
      /\ row.status = lead[l].status /\ row.dropped \in BOOLEAN
  BY <1>1, <1>2 DEF LeadRow
<1>4. lead' = [lead EXCEPT ![l] = row]
  BY <1>2 DEF Age
<1>. QED
  BY <1>1, <1>3, <1>4, LeadTouched DEF Age

-----------------------------------------------------------------------------
(* All requests of the board.                                              *)

LEMMA BoardNextKeeps ==
  ASSUME BoardInvariant, BoardNext
  PROVE  BoardInvariant' /\ RowsKept
<1>1. CASE \E r \in Client : FunnelPages(r)
  BY <1>1, CreateFunnelKeeps, ChangeFunnelKeeps, AddDefaultColumnKeeps, IsFirstFunnelKeeps, SaveFunnelKeeps
    DEF FunnelPages
<1>2. CASE \E r \in Client : ColumnPages(r)
  BY <1>2, CreateColumnKeeps, DeleteColumnKeeps, MoveColumnKeeps, ReadMaxOrderKeeps, InsertColumnKeeps,
    DeleteColumnRowKeeps, SwapOrderKeeps DEF ColumnPages
<1>3. CASE \E r \in Client : LeadPages(r)
  BY <1>3, MoveLeadKeeps, EditLeadKeeps, SaveLeadKeeps, LogMovementKeeps, ClientIs DEF LeadPages
<1>4. CASE \E r \in Client : NewLeads(r)
  BY <1>4, CreateLeadKeeps, FindEntryKeeps, InsertLeadKeeps DEF NewLeads
<1>5. CASE \E r \in Client : BoardFails(r)
  BY <1>5, FailsKeeps, ClientIs
<1>6. CASE SaveLead(TickSlot) \/ LogMovement(TickSlot)
  BY <1>6, SaveLeadKeeps, LogMovementKeeps, BoardConstants
<1>7. CASE \E l \in Lead : Age(l)
  BY <1>7, AgeKeeps
<1>. QED
  BY <1>1, <1>2, <1>3, <1>4, <1>5, <1>6, <1>7 DEF BoardNext

\* Only its own move goes on in the ticker's slot.
LEMMA SlotKept ==
  ASSUME BoardTyped, BoardNext
  PROVE  boardReq'[TickSlot] = boardReq[TickSlot] \/ boardReq[TickSlot] \notin {Waiting, Over}
<1>1. Waiting.phase = "new" /\ Over.phase = "over"
  BY DEF Waiting, Over
<1>2. CASE SaveLead(TickSlot) \/ LogMovement(TickSlot)
  BY <1>1, <1>2 DEF SaveLead, LogMovement, At
<1>3. CASE \E l \in Lead : Age(l)
  BY <1>3 DEF Age
<1>4. ASSUME NEW r \in Client, NEW q, Goes(r, q) PROVE boardReq'[TickSlot] = boardReq[TickSlot]
  BY <1>4, ClientIs, BoardConstants DEF Goes, BoardTyped
<1>5. ASSUME NEW r \in Client, Ends(r) PROVE boardReq'[TickSlot] = boardReq[TickSlot]
  BY <1>5, ClientIs, BoardConstants DEF Ends, BoardTyped
<1>6. ASSUME NEW r \in Client, Refused(r) PROVE boardReq'[TickSlot] = boardReq[TickSlot]
  BY <1>4, <1>5, <1>6 DEF Refused
<1>7. ASSUME NEW r \in Client, FunnelPages(r) PROVE boardReq'[TickSlot] = boardReq[TickSlot]
  BY <1>4, <1>5, <1>7 DEF FunnelPages, CreateFunnel, UpdateFunnel, ToggleFunnel, ChangeFunnel, AddDefaultColumn,
    IsFirstFunnel, SaveFunnel
<1>8. ASSUME NEW r \in Client, ColumnPages(r) PROVE boardReq'[TickSlot] = boardReq[TickSlot]
  BY <1>4, <1>5, <1>8 DEF ColumnPages, CreateColumn, DeleteColumn, MoveColumn, ReadMaxOrder, InsertColumn,
    DeleteColumnRow, SwapOrder
<1>9. ASSUME NEW r \in Client, LeadPages(r) PROVE boardReq'[TickSlot] = boardReq[TickSlot]
  BY <1>4, <1>5, <1>6, <1>9 DEF LeadPages, MoveForm, MoveLead, AssignLead, SetLeadProduct, EditLead, ChangeLead,
    SaveLead, LogMovement
<1>10. ASSUME NEW r \in Client, NewLeads(r) PROVE boardReq'[TickSlot] = boardReq[TickSlot]
  BY <1>4, <1>5, <1>10 DEF NewLeads, CreateLead, FindEntry, InsertLead
<1>11. ASSUME NEW r \in Client, BoardFails(r) PROVE boardReq'[TickSlot] = boardReq[TickSlot]
  BY <1>5, <1>11 DEF BoardFails
<1>. QED
  BY <1>2, <1>3, <1>7, <1>8, <1>9, <1>10, <1>11 DEF BoardNext

-----------------------------------------------------------------------------
(* The ticker, the engine's log and the panel.                             *)

LEMMA TickerShape ==
  ASSUME NEW t \in LTicker
  PROVE  /\ t.phase \in {"rest", "list", "lead", "moving"}
         /\ t.phase = "list" => t.autos \in LAutos /\ t.leads = {}
         /\ t.phase \in {"lead", "moving"} =>
              t \in [phase : {"lead", "moving"}, auto : Automation, row : AutoRow, autos : LAutos,
                     leads : SUBSET Lead]
BY DEF LTicker, Resting

\* The ticker rests, and what it has listed stays.
LEMMA TickerStays ==
  ASSUME BoardTyped, AutoTyped, SlotFree, ListedThere, RowsKept, UNCHANGED ticker,
         boardReq'[TickSlot] = boardReq[TickSlot] \/ boardReq[TickSlot] \notin {Waiting, Over}
  PROVE  SlotFree' /\ ListedThere'
<1>1. SlotFree'
  BY DEF SlotFree, Waiting, Over
<1>2. ListedThere'
  <2>. SUFFICES ASSUME ticker.phase \in {"lead", "moving"}, NEW l \in ticker.leads
                PROVE  lead'[l] # NoRow
    BY DEF ListedThere
  <2>1. l \in Lead
    BY TickerShape DEF AutoTyped
  <2>. QED
    BY <2>1 DEF ListedThere, RowsKept
<1>. QED
  BY <1>1, <1>2

LEMMA AutoStays ==
  ASSUME BoardTyped, AutoInvariant, RowsKept, UNCHANGED autoVars,
         boardReq'[TickSlot] = boardReq[TickSlot] \/ boardReq[TickSlot] \notin {Waiting, Over}
  PROVE  AutoInvariant'
<1>1. UNCHANGED <<automation, execLog, notes, ticker, autoReq>>
  BY DEF autoVars, autoRows
<1>2. SlotFree' /\ ListedThere'
  BY <1>1, TickerStays DEF AutoInvariant
<1>. QED
  BY <1>1, <1>2 DEF AutoInvariant, AutoTyped, LogsHaveAutomation

LEMMA BoardStays ==
  ASSUME BoardInvariant, UNCHANGED boardVars
  PROVE  BoardInvariant' /\ RowsKept /\ boardReq'[TickSlot] = boardReq[TickSlot]
<1>1. UNCHANGED <<funnel, column, goneColumn, lead, movement, boardReq, orderRaced, leadRaced, unlogged>>
  BY DEF boardVars, boardRows
<1>2. RowsKept
  BY <1>1 DEF RowsKept, Known, Exists
<1>3. \A f : ColumnsOf(f)' = ColumnsOf(f) /\ AddingTo(f)' = AddingTo(f)
  BY <1>1 DEF ColumnsOf, Exists, AddingTo, Client
<1>4. ColumnsHold'
  BY <1>1, <1>3, ColumnsOn DEF BoardInvariant
<1>5. OneElected'
  BY <1>1 DEF BoardInvariant, OneElected, Elected
<1>6. RequestsSound'
  BY <1>1, <1>2, RequestsStay DEF BoardInvariant
<1>7. LeadsStand'
  BY <1>1, <1>2, LeadsStandOn DEF BoardInvariant, Exists
<1>8. WaysHold'
  BY <1>1, WaysOn DEF BoardInvariant, SameLogs
<1>9. BoardTyped'
  BY <1>1 DEF BoardInvariant, BoardTyped
<1>. QED
  BY <1>1, <1>2, <1>4, <1>5, <1>6, <1>7, <1>8, <1>9 DEF BoardInvariant

\* A log entry is written only of an automation that is there.
LEMMA LoggedSound ==
  ASSUME AutoTyped, LogsHaveAutomation, NEW a \in Automation, NEW l \in Lead, NEW status \in {"success", "error"}
  PROVE  /\ Logged(a, l, status) \subseteq Automation \X Lead \X {"success", "error"}
         /\ \A e \in Logged(a, l, status) : automation[e[1]] # NoRow
BY DEF Logged, AutoTyped, LogsHaveAutomation

LEMMA EngineAuto ==
  ASSUME BoardInvariant, AutoInvariant, NEW r \in BoardRequest, Engine(r), RowsKept
  PROVE  AutoInvariant'
<1>1. boardReq[r].phase \in {"trigger", "run", "saveLead", "log"}
  BY DEF Engine, OnLeadEvent, RunMove, MoveFails, RunNote, RunStub, WriteLog, At
<1>2. boardReq'[TickSlot] = boardReq[TickSlot] \/ boardReq[TickSlot] \notin {Waiting, Over}
  <2>1. CASE r = TickSlot
    BY <1>1, <2>1 DEF Waiting, Over
  <2>2. CASE r # TickSlot
    <3>1. \E q : boardReq' = [boardReq EXCEPT ![r] = q]
      BY DEF Engine, OnLeadEvent, RunMove, MoveFails, RunNote, RunStub, WriteLog, Ends, Goes, Refused, ChangeLead,
        Continue
    <3>. QED
      BY <2>2, <3>1, BoardConstants DEF BoardInvariant, BoardTyped
  <2>. QED
    BY <2>1, <2>2
<1>3. CASE OnLeadEvent(r) \/ RunMove(r) \/ MoveFails(r) \/ RunStub(r)
  BY <1>2, <1>3, AutoStays DEF BoardInvariant, OnLeadEvent, RunMove, MoveFails, RunStub
<1>4. CASE RunNote(r)
  <2>1. UNCHANGED <<automation, execLog, ticker, autoReq>> /\ notes' \subseteq Lead
    BY <1>4, TaskIs DEF RunNote, AutoInvariant, AutoTyped
  <2>. QED
    BY <1>2, <2>1, TickerStays DEF BoardInvariant, AutoInvariant, AutoTyped, LogsHaveAutomation
<1>5. CASE WriteLog(r)
  <2>1. TaskOf(r).auto \in Automation /\ TaskOf(r).lead \in Lead /\ TaskOf(r).status \in {"success", "error"}
    BY <1>5, TaskIs DEF WriteLog, LLogTask
  <2>2. UNCHANGED <<automation, notes, ticker, autoReq>>
        /\ execLog' = Logged(TaskOf(r).auto, TaskOf(r).lead, TaskOf(r).status)
    BY <1>5 DEF WriteLog
  <2>3. execLog' \subseteq Automation \X Lead \X {"success", "error"} /\ \A e \in execLog' : automation[e[1]] # NoRow
    BY <2>1, <2>2, LoggedSound DEF AutoInvariant
  <2>. QED
    BY <1>2, <2>2, <2>3, TickerStays DEF BoardInvariant, AutoInvariant, AutoTyped, LogsHaveAutomation
<1>. QED
  BY <1>3, <1>4, <1>5 DEF Engine

\* A step of the ticker over rows it has listed or the panel's step beside it.
LEMMA TickerOnly ==
  ASSUME BoardInvariant, AutoInvariant, UNCHANGED <<boardVars, autoRows, autoReq>>,
         ticker' \in LTicker, SlotFree', ListedThere'
  PROVE  BoardInvariant' /\ AutoInvariant'
<1>1. BoardInvariant' /\ UNCHANGED <<automation, execLog, notes, autoReq>>
  BY BoardStays DEF autoRows
<1>. QED
  BY <1>1 DEF AutoInvariant, AutoTyped, LogsHaveAutomation

LEMMA SlotStays ==
  ASSUME SlotFree, ticker.phase # "moving", UNCHANGED boardVars
  PROVE  SlotFree'
BY DEF SlotFree, boardVars, Waiting, Over

LEMMA TickKeeps ==
  ASSUME BoardInvariant, AutoInvariant, Tick
  PROVE  BoardInvariant' /\ AutoInvariant'
<1>. DEFINE autos == [a \in Expirations |-> automation[a]]
<1>1. autos \in LAutos
  <2>1. Expirations \in SUBSET Automation /\ \A a \in Expirations : automation[a] \in AutoRow
    BY DEF Expirations, AutoInvariant, AutoTyped
  <2>2. autos \in [Expirations -> AutoRow]
    BY <2>1
  <2>. QED
    BY <2>1, <2>2 DEF LAutos
<1>2. ticker' = [phase |-> "list", autos |-> autos, leads |-> {}] /\ ticker = Resting
  BY DEF Tick
<1>. HIDE DEF autos
<1>3. ticker' \in LTicker /\ ticker'.phase = "list" /\ ticker.phase = "rest"
  BY <1>1, <1>2 DEF LTicker, Resting
<1>4. SlotFree' /\ ListedThere'
  BY <1>3, SlotStays DEF Tick, ListedThere, AutoInvariant
<1>. QED
  BY <1>3, <1>4, TickerOnly DEF Tick

\* What an expiration lists: leads there are.
LEMMA ExpiredIs ==
  ASSUME BoardTyped, NEW row \in AutoRow, NEW l \in FindExpired(row)
  PROVE  l \in Lead /\ lead[l] # NoRow
BY DEF FindExpired, OpenIn

LEMMA ListExpiredKeeps ==
  ASSUME BoardInvariant, AutoInvariant, ListExpired
  PROVE  BoardInvariant' /\ AutoInvariant'
<1>1. ticker \in LTicker /\ ticker.phase = "list" /\ ticker.autos \in LAutos
  BY TickerShape DEF ListExpired, AutoInvariant, AutoTyped
<1>2. CASE ticker' = Resting
  <2>1. ticker' \in LTicker /\ ticker'.phase = "rest"
    BY <1>2 DEF LTicker, Resting
  <2>2. SlotFree' /\ ListedThere'
    BY <1>1, <2>1, SlotStays DEF ListExpired, ListedThere, AutoInvariant
  <2>. QED
    BY <2>1, <2>2, TickerOnly DEF ListExpired
<1>3. CASE ticker' # Resting
  <2>1. PICK S \in SUBSET Automation : ticker.autos \in [S -> AutoRow]
    BY <1>1 DEF LAutos
  <2>2. PICK a \in S :
          ticker' = [phase |-> "lead", auto |-> a, row |-> ticker.autos[a],
                     autos |-> [b \in DOMAIN ticker.autos \ {a} |-> ticker.autos[b]],
                     leads |-> FindExpired(ticker.autos[a])]
    BY <1>3, <2>1 DEF ListExpired
  <2>3. PICK row \in AutoRow : row = ticker.autos[a]
    BY <2>1
  <2>4. PICK autos : autos = [b \in DOMAIN ticker.autos \ {a} |-> ticker.autos[b]]
    OBVIOUS
  <2>5. autos \in [S \ {a} -> AutoRow]
    BY <2>1, <2>4
  <2>6. S \ {a} \in SUBSET Automation
    OBVIOUS
  <2>7. autos \in LAutos
    BY <2>5, <2>6 DEF LAutos
  <2>8. PICK leads : leads = FindExpired(row)
    OBVIOUS
  <2>9. \A l \in leads : l \in Lead /\ lead[l] # NoRow
    BY <2>8, ExpiredIs DEF BoardInvariant
  <2>10. ticker' = [phase |-> "lead", auto |-> a, row |-> row, autos |-> autos, leads |-> leads]
    BY <2>2, <2>3, <2>4, <2>8
  <2>11. ticker' \in LTicker
    BY <2>7, <2>9, <2>10 DEF LTicker
  <2>12. ticker'.phase = "lead" /\ ticker'.leads = leads /\ ticker'.row = row
    BY <2>10
  <2>13. UNCHANGED lead
    BY DEF ListExpired, boardVars, boardRows
  <2>14. SlotFree' /\ ListedThere'
    BY <1>1, <2>9, <2>12, <2>13, SlotStays DEF ListExpired, ListedThere, AutoInvariant
  <2>. QED
    BY <2>11, <2>14, TickerOnly DEF ListExpired
<1>. QED
  BY <1>2, <1>3

\* The ticker at a lead it has listed.
LTickerAtLead ==
  [phase : {"lead", "moving"}, auto : Automation, row : AutoRow, autos : LAutos, leads : SUBSET Lead]

LEMMA LeadsDoneKeeps ==
  ASSUME BoardInvariant, AutoInvariant, LeadsDone
  PROVE  BoardInvariant' /\ AutoInvariant'
<1>1. ticker \in LTickerAtLead /\ ticker.phase = "lead"
  BY TickerShape DEF LeadsDone, AutoInvariant, AutoTyped, LTickerAtLead
<1>2. ticker' \in LTicker /\ ticker'.phase = "list"
  BY <1>1 DEF LeadsDone, LTicker, LTickerAtLead
<1>3. SlotFree' /\ ListedThere'
  BY <1>1, <1>2, SlotStays DEF LeadsDone, ListedThere, AutoInvariant
<1>. QED
  BY <1>2, <1>3, TickerOnly DEF LeadsDone

LEMMA MoveReturnsKeeps ==
  ASSUME BoardInvariant, AutoInvariant, MoveReturns
  PROVE  BoardInvariant' /\ AutoInvariant'
<1>1. ticker \in LTickerAtLead /\ ticker.phase = "moving"
  BY TickerShape DEF MoveReturns, AutoInvariant, AutoTyped, LTickerAtLead
<1>2. ticker' \in LTickerAtLead /\ ticker'.leads = ticker.leads /\ ticker'.row = ticker.row
  BY <1>1 DEF MoveReturns, LTickerAtLead
<1>3. UNCHANGED <<lead, boardReq>>
  BY DEF MoveReturns, boardVars, boardRows
<1>4. SlotFree' /\ ListedThere'
  BY <1>1, <1>2, <1>3 DEF MoveReturns, SlotFree, ListedThere, AutoInvariant
<1>5. ticker' \in LTicker
  BY <1>2 DEF LTicker, LTickerAtLead
<1>. QED
  BY <1>4, <1>5, TickerOnly DEF MoveReturns

LEMMA TheLeadIs ==
  ASSUME BoardInvariant, AutoInvariant, ticker.phase = "lead", ticker.leads # {}
  PROVE  /\ ticker \in LTickerAtLead /\ TheLead \in ticker.leads /\ TheLead \in Lead
         /\ lead[TheLead] # NoRow /\ lead[TheLead] \in LeadRow
<1>1. ticker \in LTickerAtLead /\ ticker.leads \in SUBSET Lead
  BY TickerShape DEF AutoInvariant, AutoTyped, LTickerAtLead
<1>2. TheLead \in ticker.leads
  BY DEF TheLead
<1>. QED
  BY <1>1, <1>2 DEF AutoInvariant, ListedThere, BoardInvariant, BoardTyped

\* The lead is done with, and the others listed stay.
LEMMA NextLeadKeeps ==
  ASSUME BoardInvariant, AutoInvariant, ticker.phase = "lead", ticker.leads # {}, RowsKept,
         NEW phase \in {"lead", "moving"}, NextLead(phase)
  PROVE  ticker' \in LTicker /\ ListedThere' /\ ticker'.phase = phase
<1>1. ticker \in LTickerAtLead
  BY TheLeadIs
<1>2. PICK left : left = ticker.leads \ {TheLead}
  OBVIOUS
<1>3. ticker' \in LTickerAtLead /\ ticker'.leads = left /\ ticker'.row = ticker.row /\ ticker'.phase = phase
  BY <1>1, <1>2 DEF NextLead, LTickerAtLead
<1>4. \A l \in left : l \in Lead /\ lead[l] # NoRow
  BY <1>1, <1>2 DEF AutoInvariant, ListedThere, LTickerAtLead
<1>5. ListedThere'
  BY <1>3, <1>4 DEF ListedThere, RowsKept
<1>6. ticker' \in LTicker
  BY <1>3 DEF LTicker, LTickerAtLead
<1>. QED
  BY <1>3, <1>5, <1>6

LEMMA DropLeadKeeps ==
  ASSUME BoardInvariant, AutoInvariant, DropLead
  PROVE  BoardInvariant' /\ AutoInvariant'
<1>1. ticker.phase = "lead" /\ ticker.leads # {} /\ NextLead("lead")
  BY DEF DropLead
<1>2. PICK l \in Lead : l = TheLead /\ lead[l] # NoRow /\ lead[l] \in LeadRow
  BY <1>1, TheLeadIs
<1>3. PICK row : row = [lead[l] EXCEPT !.status = "lost", !.dropped = TRUE]
  OBVIOUS
<1>4. row \in LeadRow /\ row.column = lead[l].column /\ row.dropped
  BY <1>2, <1>3 DEF LeadRow
<1>5. lead' = [lead EXCEPT ![l] = row]
  BY <1>2, <1>3 DEF DropLead
<1>6. BoardInvariant' /\ RowsKept
  BY <1>2, <1>4, <1>5, LeadTouched DEF DropLead
<1>7. ticker' \in LTicker /\ ListedThere' /\ ticker'.phase = "lead"
  BY <1>1, <1>6, NextLeadKeeps
<1>8. SlotFree'
  BY <1>1 DEF DropLead, SlotFree, AutoInvariant, Waiting, Over
<1>9. ticker.auto \in Automation
  BY <1>1, TheLeadIs DEF LTickerAtLead
<1>10. execLog' = Logged(ticker.auto, l, "success") /\ UNCHANGED <<automation, notes, autoReq>>
  BY <1>2 DEF DropLead
<1>11. execLog' \subseteq Automation \X Lead \X {"success", "error"} /\ \A e \in execLog' : automation[e[1]] # NoRow
  BY <1>9, <1>10, LoggedSound DEF AutoInvariant
<1>. QED
  BY <1>6, <1>7, <1>8, <1>10, <1>11 DEF AutoInvariant, AutoTyped, LogsHaveAutomation

LEMMA ArchiveLeadKeeps ==
  ASSUME BoardInvariant, AutoInvariant, ArchiveLead
  PROVE  BoardInvariant' /\ AutoInvariant'
<1>1. ticker.phase = "lead" /\ ticker.leads # {}
  BY DEF ArchiveLead
<1>2. PICK l \in Lead : l = TheLead /\ lead[l] # NoRow /\ lead[l] \in LeadRow
  BY <1>1, TheLeadIs
<1>3. PICK a \in Automation : a = ticker.auto
  BY <1>1, TheLeadIs DEF LTickerAtLead
<1>4. UNCHANGED <<boardRows, orderRaced, leadRaced, unlogged, automation, notes, autoReq>>
  BY DEF ArchiveLead
<1>5. boardReq[TickSlot] \in {Waiting, Over} /\ TickSlot \in BoardRequest /\ boardReq[TickSlot].phase # "log"
  BY <1>1, BoardConstants DEF AutoInvariant, SlotFree, Waiting, Over
<1>6. ASSUME NEW c \in LostColumns(lead[l].funnel),
             ChangeLead(TickSlot, l, Moved(l, c, None), TRUE,
               <<[do |-> "log", auto |-> a, lead |-> l, status |-> "success"]>>),
             NextLead("moving"), UNCHANGED execLog
      PROVE  BoardInvariant' /\ AutoInvariant'
  <2>1. c \in ColumnId /\ Exists(c)
    BY DEF LostColumns, ColumnsOf
  <2>2. PICK row \in LeadRow : row = Moved(l, c, None) /\ RowFollows(row)
    BY <1>2, <2>1, MovedFollows
  <2>. DEFINE t == [do |-> "log", auto |-> a, lead |-> l, status |-> "success"]
  <2>3. t \in LTask /\ t.do = "log" /\ t.lead = l
    BY DEF LTask, LLogTask
  <2>. HIDE DEF t
  <2>4. <<t>> \in LRest /\ RestSound(<<t>>) /\ <<t>>[1].do = "log"
    BY <1>2, <2>3 DEF LRest, RestSound
  <2>5. PICK rest \in LRest : rest = <<t>> /\ RestSound(rest) /\ rest[1].do = "log"
    BY <2>4
  <2>6. PICK q : q = [phase |-> "saveLead", id |-> l, seen |-> lead[l], copy |-> row, log |-> TRUE, rest |-> rest]
    OBVIOUS
  <2>7. Goes(TickSlot, q)
    BY <1>6, <2>2, <2>5, <2>6 DEF ChangeLead, t
  <2>8. MayGo(TickSlot, q)
    BY <1>2, <1>5, <2>2, <2>5, <2>6, ChangeLeadMay
  <2>9. BoardInvariant' /\ RowsKept
    BY <1>4, <1>5, <2>7, <2>8, GoesKeeps
  <2>10. ticker' \in LTicker /\ ListedThere' /\ ticker'.phase = "moving"
    BY <1>1, <1>6, <2>9, NextLeadKeeps
  <2>. QED
    BY <1>4, <1>6, <2>9, <2>10 DEF AutoInvariant, AutoTyped, LogsHaveAutomation, SlotFree
<1>7. ASSUME execLog' = Logged(a, l, "error"), NextLead("lead"), UNCHANGED boardReq
      PROVE  BoardInvariant' /\ AutoInvariant'
  <2>1. UNCHANGED boardVars
    BY <1>4, <1>7 DEF boardVars
  <2>2. BoardInvariant' /\ RowsKept
    BY <2>1, BoardStays
  <2>3. ticker' \in LTicker /\ ListedThere' /\ ticker'.phase = "lead"
    BY <1>1, <1>7, <2>2, NextLeadKeeps
  <2>4. SlotFree'
    BY <1>1, <2>1, SlotStays DEF AutoInvariant
  <2>5. execLog' \subseteq Automation \X Lead \X {"success", "error"} /\ \A e \in execLog' : automation[e[1]] # NoRow
    BY <1>7, LoggedSound DEF AutoInvariant
  <2>. QED
    BY <1>4, <2>2, <2>3, <2>4, <2>5 DEF AutoInvariant, AutoTyped, LogsHaveAutomation
<1>. QED
  BY <1>2, <1>3, <1>6, <1>7 DEF ArchiveLead

-----------------------------------------------------------------------------
(* The panel.                                                              *)

\* An edit of the automations leaves the board and the ticker.
LEMMA PanelOnly ==
  ASSUME BoardInvariant, AutoInvariant, UNCHANGED <<boardVars, notes, ticker>>,
         automation' \in [Automation -> AutoRow \cup {NoRow}], autoReq' \in LEdit,
         execLog' \subseteq execLog, \A e \in execLog' : automation'[e[1]] # NoRow
  PROVE  BoardInvariant' /\ AutoInvariant'
<1>1. BoardInvariant' /\ RowsKept /\ boardReq'[TickSlot] = boardReq[TickSlot]
  BY BoardStays
<1>2. SlotFree' /\ ListedThere'
  BY <1>1, TickerStays DEF BoardInvariant, AutoInvariant
<1>. QED
  BY <1>1, <1>2 DEF AutoInvariant, AutoTyped, LogsHaveAutomation

LEMMA EditKeeps ==
  ASSUME BoardInvariant, AutoInvariant, NEW a \in Automation, Edit(a)
  PROVE  BoardInvariant' /\ AutoInvariant'
<1>1. CASE ToggleAutomation(a)
  <2>1. automation[a] \in AutoRow
    BY <1>1 DEF ToggleAutomation, AutoInvariant, AutoTyped
  <2>2. PICK row : row = [automation[a] EXCEPT !.active = ~@]
    OBVIOUS
  <2>3. row \in AutoRow
    BY <2>1, <2>2 DEF AutoRow
  <2>4. autoReq' = [phase |-> "save", id |-> a, copy |-> row] /\ UNCHANGED <<boardVars, automation, execLog, notes, ticker>>
    BY <1>1, <2>2 DEF ToggleAutomation, EditAutomation, autoRows
  <2>5. autoReq' \in LEdit
    BY <2>3, <2>4 DEF LEdit
  <2>. QED
    BY <2>4, <2>5, PanelOnly DEF AutoInvariant, AutoTyped, LogsHaveAutomation
<1>2. CASE SaveAutomation
  <2>1. autoReq.id \in Automation /\ autoReq.copy \in AutoRow
    BY <1>2 DEF SaveAutomation, AutoInvariant, AutoTyped, LEdit
  <2>2. PICK b \in Automation, row \in AutoRow : automation' = [automation EXCEPT ![b] = row]
    BY <1>2, <2>1 DEF SaveAutomation
  <2>3. automation' \in [Automation -> AutoRow \cup {NoRow}] /\ row # NoRow
        /\ \A c \in Automation : automation[c] # NoRow => automation'[c] # NoRow
    BY <2>2, BoardConstants DEF AutoInvariant, AutoTyped
  <2>4. \A e \in execLog : automation'[e[1]] # NoRow
    BY <2>3 DEF AutoInvariant, AutoTyped, LogsHaveAutomation
  <2>5. autoReq' \in LEdit /\ UNCHANGED <<boardVars, execLog, notes, ticker>>
    BY <1>2 DEF SaveAutomation, LEdit
  <2>. QED
    BY <2>3, <2>4, <2>5, PanelOnly
<1>. QED
  BY <1>1, <1>2 DEF Edit

LEMMA AddOrDeleteKeeps ==
  ASSUME BoardInvariant, AutoInvariant, NEW a \in Automation, AddOrDelete(a)
  PROVE  BoardInvariant' /\ AutoInvariant'
<1>1. CASE DeleteAutomation(a)
  <2>1. automation' \in [Automation -> AutoRow \cup {NoRow}]
        /\ \A c \in Automation \ {a} : automation'[c] = automation[c]
    BY <1>1 DEF DeleteAutomation, AutoInvariant, AutoTyped
  <2>2. execLog' \subseteq execLog /\ \A e \in execLog' : e[1] \in Automation \ {a}
    BY <1>1 DEF DeleteAutomation, AutoInvariant, AutoTyped
  <2>. QED
    BY <1>1, <2>1, <2>2, PanelOnly DEF DeleteAutomation, AutoInvariant, AutoTyped, LogsHaveAutomation
<1>2. ASSUME NEW row \in AutoForm, CreateAutomation(a, row) PROVE BoardInvariant' /\ AutoInvariant'
  <2>1. row \in AutoRow /\ row # NoRow
    BY BoardConstants
  <2>2. automation' \in [Automation -> AutoRow \cup {NoRow}]
        /\ \A c \in Automation : automation[c] # NoRow => automation'[c] # NoRow
    BY <1>2, <2>1 DEF CreateAutomation, AutoInvariant, AutoTyped
  <2>3. \A e \in execLog : automation'[e[1]] # NoRow
    BY <2>2 DEF AutoInvariant, AutoTyped, LogsHaveAutomation
  <2>. QED
    BY <1>2, <2>2, <2>3, PanelOnly DEF CreateAutomation, AutoInvariant, AutoTyped
<1>. QED
  BY <1>1, <1>2 DEF AddOrDelete

-----------------------------------------------------------------------------
(* The invariant, and what it says.                                        *)

LEMMA LeadsBegin ==
  ASSUME BoardInit, AutoInit
  PROVE  LeadsInvariant
<1>1. BoardTyped
  <2>1. Waiting \in LSlotReq
    BY DEF LSlotReq
  <2>2. <<>> \in Seq(Movement)
    OBVIOUS
  <2>. QED
    BY <2>1, <2>2, BoardConstants DEF BoardInit, BoardTyped
<1>2. \A f \in Funnel : ColumnsOf(f) = {} /\ AddingTo(f) = {}
  BY DEF BoardInit, ColumnsOf, Exists, AddingTo, Client, Waiting
<1>3. ColumnsHold
  <2>1. ColumnsBounded /\ GoneStays /\ OrdersDistinct
    <3>1. 0 \in Nat /\ \A c \in ColumnId : ~Exists(c)
      BY DEF BoardInit, Exists
    <3>. QED
      BY <1>2, <3>1 DEF BoardInit, ColumnsBounded, GoneStays, OrdersDistinct
  <2>2. RoomKept
    <3>1. Cardinality({}) = 0
      BY FS_EmptySet
    <3>. SUFFICES ASSUME NEW f \in Funnel
                  PROVE  Cardinality(ColumnsOf(f)) + Cardinality(AddingTo(f)) < MaxColumns + Cardinality(Client)
      BY DEF RoomKept
    <3>2. Cardinality(Client) \in Nat
      BY AddingFinite
    <3>. QED
      BY <1>2, <3>1, <3>2, BoardConstants
  <2>. QED
    BY <2>1, <2>2 DEF ColumnsHold
<1>4. OneElected
  BY DEF BoardInit, OneElected, Elected, Waiting
<1>5. LeadsStand /\ WaysHold
  BY DEF BoardInit, LeadsStand, LeadStands, WaysHold
<1>6. RequestsSound
  BY DEF BoardInit, RequestsSound, RequestSound, Waiting
<1>7. AutoTyped
  BY DEF AutoInit, AutoTyped, LTicker, LEdit
<1>8. SlotFree /\ ListedThere /\ LogsHaveAutomation
  BY BoardConstants DEF BoardInit, AutoInit, SlotFree, ListedThere, LogsHaveAutomation, Resting
<1>. QED
  BY <1>1, <1>3, <1>4, <1>5, <1>6, <1>7, <1>8 DEF LeadsInvariant, BoardInvariant, AutoInvariant

LEMMA LeadsStep ==
  ASSUME LeadsInvariant, [LeadsNext]_<<boardVars, autoVars>>
  PROVE  LeadsInvariant'
<1>. USE DEF LeadsInvariant
<1>1. CASE BoardNext /\ UNCHANGED autoVars
  BY <1>1, BoardNextKeeps, SlotKept, AutoStays DEF BoardInvariant
<1>2. ASSUME NEW r \in BoardRequest, Engine(r) PROVE LeadsInvariant'
  BY <1>2, EngineKeeps, EngineAuto DEF AutoInvariant
<1>3. CASE TickerStep
  BY <1>3, TickKeeps, ListExpiredKeeps, LeadsDoneKeeps, DropLeadKeeps, ArchiveLeadKeeps, MoveReturnsKeeps
    DEF TickerStep
<1>4. ASSUME NEW a \in Automation, Edit(a) \/ AddOrDelete(a) PROVE LeadsInvariant'
  BY <1>4, EditKeeps, AddOrDeleteKeeps
<1>5. CASE UNCHANGED <<boardVars, autoVars>>
  <2>1. BoardInvariant' /\ RowsKept /\ boardReq'[TickSlot] = boardReq[TickSlot]
    BY <1>5, BoardStays
  <2>. QED
    BY <1>5, <2>1, AutoStays DEF BoardInvariant
<1>. QED
  BY <1>1, <1>2, <1>3, <1>4, <1>5 DEF LeadsNext

-----------------------------------------------------------------------------
(* A contact's first lead.                                                 *)

\* A creation of a lead of contact k whose lookup met no other one.
MakesFirst(q, k) ==
  \/ q.phase = "entry" /\ q.contact = k /\ ~q.twin
  \/ q.phase = "insertLead" /\ q.copy.contact = k /\ ~q.copy.twin

SameContact(row, old) == row.contact = old.contact /\ row.twin = old.twin
CopyOwn(q) ==
  q.phase = "saveLead" => q.id \in Lead /\ lead[q.id] # NoRow /\ SameContact(q.copy, lead[q.id])

\* Of the leads of a contact and the creations on their way, one at most is not
\* a twin: while a creation is on its way, every other one is, and as soon as a
\* lead is there, its contact is found.
ContactsHold ==
  /\ OneLeadEach
  /\ \A r, s \in BoardRequest, k \in Contact :
       MakesFirst(boardReq[r], k) /\ MakesFirst(boardReq[s], k) => r = s
  /\ \A r \in BoardRequest, l \in Lead :
       lead[l] # NoRow /\ MakesFirst(boardReq[r], lead[l].contact) => lead[l].twin
  /\ \A r \in BoardRequest : CopyOwn(boardReq[r])

LeadSame(l) ==
  /\ lead'[l] = NoRow <=> lead[l] = NoRow
  /\ lead[l] # NoRow => SameContact(lead'[l], lead[l])

\* A step that starts no creation keeps it.
LEMMA ContactsOn ==
  ASSUME BoardTyped, ContactsHold, \A l \in Lead : LeadSame(l),
         NEW r \in BoardRequest, NEW q, boardReq' = [boardReq EXCEPT ![r] = q], CopyOwn(q),
         \A k \in Contact : MakesFirst(q, k) => MakesFirst(boardReq[r], k)
  PROVE  ContactsHold'
<1>1. \A s \in BoardRequest : boardReq'[s] = IF s = r THEN q ELSE boardReq[s]
  BY DEF BoardTyped
<1>2. \A s \in BoardRequest, k \in Contact : MakesFirst(boardReq'[s], k) => MakesFirst(boardReq[s], k)
  BY <1>1
<1>3. \A l \in Lead : lead[l] # NoRow => lead[l].contact \in Contact
  BY DEF BoardTyped, LeadRow
<1>4. OneLeadEach'
  BY DEF ContactsHold, OneLeadEach, LeadSame, SameContact
<1>5. \A s, t \in BoardRequest, k \in Contact :
        MakesFirst(boardReq'[s], k) /\ MakesFirst(boardReq'[t], k) => s = t
  BY <1>2 DEF ContactsHold
<1>6. \A s \in BoardRequest, l \in Lead :
        lead'[l] # NoRow /\ MakesFirst(boardReq'[s], lead'[l].contact) => lead'[l].twin
  BY <1>2, <1>3 DEF ContactsHold, LeadSame, SameContact
<1>7. \A s \in BoardRequest : CopyOwn(boardReq[s])'
  BY <1>1 DEF ContactsHold, CopyOwn, LeadSame, SameContact
<1>8. \A s, t \in BoardRequest, k \in Contact :
        MakesFirst(boardReq[s], k)' /\ MakesFirst(boardReq[t], k)' => s = t
  BY <1>5 DEF MakesFirst
<1>9. \A s \in BoardRequest, l \in Lead :
        lead'[l] # NoRow /\ MakesFirst(boardReq[s], lead[l].contact)' => lead'[l].twin
  BY <1>6 DEF MakesFirst
<1>. QED
  BY <1>4, <1>7, <1>8, <1>9 DEF ContactsHold, CopyOwn

\* So does one that leaves the requests alone, ...
LEMMA ContactsStay ==
  ASSUME BoardTyped, ContactsHold, \A l \in Lead : LeadSame(l), UNCHANGED boardReq
  PROVE  ContactsHold'
<1>1. TickSlot \in BoardRequest /\ boardReq' = [boardReq EXCEPT ![TickSlot] = boardReq[TickSlot]]
  BY BoardConstants DEF BoardTyped
<1>. QED
  BY <1>1, ContactsOn DEF ContactsHold

\* Most steps leave the leads alone.
LEMMA LeadsSame == UNCHANGED lead => \A l \in Lead : LeadSame(l)
BY DEF LeadSame, SameContact

\* ... one that goes on to a phase without a lead, ...
Plain(q) == q.phase \notin {"entry", "insertLead", "saveLead"}
LEMMA PlainKeeps ==
  ASSUME BoardTyped, ContactsHold, \A l \in Lead : LeadSame(l), NEW r \in BoardRequest, NEW q, Goes(r, q), Plain(q)
  PROVE  ContactsHold'
BY ContactsOn DEF Goes, Plain, CopyOwn, MakesFirst

LEMMA PlainEnd ==
  ASSUME BoardTyped, ContactsHold, UNCHANGED lead, NEW r \in BoardRequest, Ends(r)
  PROVE  ContactsHold'
BY PlainKeeps, LeadsSame DEF Ends, Goes, Plain, Over

\* ... and one that changes a lead in memory.
LEMMA ChangeKeeps ==
  ASSUME BoardTyped, ContactsHold, UNCHANGED lead, NEW r \in BoardRequest, NEW l \in Lead, lead[l] # NoRow,
         NEW row, SameContact(row, lead[l]), NEW log, NEW rest, ChangeLead(r, l, row, log, rest)
  PROVE  ContactsHold'
<1>. DEFINE q == [phase |-> "saveLead", id |-> l, seen |-> lead[l], copy |-> row, log |-> log, rest |-> rest]
<1>1. boardReq' = [boardReq EXCEPT ![r] = q]
  BY DEF ChangeLead, Goes
<1>2. CopyOwn(q) /\ \A k \in Contact : MakesFirst(q, k) => MakesFirst(boardReq[r], k)
  BY DEF CopyOwn, MakesFirst
<1>. HIDE DEF q
<1>. QED
  BY <1>1, <1>2, LeadsSame, ContactsOn

\* A move and an edit keep the contact.
LEMMA MovedSame ==
  ASSUME BoardTyped, NEW l \in Lead, lead[l] # NoRow, NEW c, NEW f
  PROVE  SameContact(Moved(l, c, f), lead[l])
<1>1. lead[l] \in LeadRow
  BY DEF BoardTyped
<1>. QED
  BY <1>1 DEF Moved, MoveTo, SameContact, LeadRow

LEMMA EditedSame ==
  ASSUME NEW row \in LeadRow, NEW x
  PROVE  SameContact(AssignResponsible(row, x), row) /\ SameContact(SetProduct(row, x), row)
BY DEF AssignResponsible, SetProduct, SameContact, LeadRow

\* A lookup that finds none: every other creation of the contact makes it a twin.
LEMMA CreateLeadContacts ==
  ASSUME BoardTyped, ContactsHold, NEW r \in Client, NEW k \in Contact, NEW p, CreateLead(r, k, p)
  PROVE  ContactsHold'
<1>0. UNCHANGED lead /\ r \in BoardRequest /\ boardReq[r] = Waiting
  BY ClientIs DEF CreateLead, boardRows, Starts
<1>1. CASE Ends(r)
  BY <1>0, <1>1, PlainEnd
<1>2. CASE ~Ends(r)
  <2>1. PICK f \in Funnel : Goes(r, [phase |-> "entry", contact |-> k, funnel |-> f, product |-> p,
                                     twin |-> Creating(k) # {}])
    BY <1>2 DEF CreateLead, FindDefault
  <2>2. FindByContact(k) = {}
    BY <1>2 DEF CreateLead
  <2>. DEFINE q == [phase |-> "entry", contact |-> k, funnel |-> f, product |-> p, twin |-> Creating(k) # {}]
  <2>3. boardReq' = [boardReq EXCEPT ![r] = q]
    BY <2>1 DEF Goes
  <2>4. ~q.twin => \A s \in BoardRequest : ~MakesFirst(boardReq[s], k)
    BY DEF Creating, CreatesFor, MakesFirst
  <2>5. \A j \in Contact : MakesFirst(q, j) => j = k /\ ~q.twin
    BY DEF MakesFirst
  <2>6. CopyOwn(q)
    BY DEF CopyOwn
  <2>. HIDE DEF q
  <2>7. \A s \in BoardRequest : boardReq'[s] = IF s = r THEN q ELSE boardReq[s]
    BY <2>3 DEF BoardTyped
  <2>8. \A l \in Lead : lead[l] # NoRow => lead[l].contact # k /\ lead[l].contact \in Contact
    BY <2>2 DEF FindByContact, BoardTyped, LeadRow
  <2>9. OneLeadEach' /\ lead' = lead
    BY <1>0 DEF ContactsHold, OneLeadEach
  <2>10. ASSUME NEW s \in BoardRequest, NEW t \in BoardRequest, NEW j \in Contact,
                MakesFirst(boardReq'[s], j), MakesFirst(boardReq'[t], j)
         PROVE  s = t
    BY <2>4, <2>5, <2>7, <2>10 DEF ContactsHold
  <2>11. ASSUME NEW s \in BoardRequest, NEW l \in Lead, lead[l] # NoRow,
                MakesFirst(boardReq'[s], lead[l].contact)
         PROVE  lead[l].twin
    BY <2>5, <2>7, <2>8, <2>11 DEF ContactsHold
  <2>12. \A s \in BoardRequest : CopyOwn(boardReq'[s])
    BY <2>6, <2>7 DEF ContactsHold
  <2>. QED
    BY <2>9, <2>10, <2>11, <2>12 DEF ContactsHold, MakesFirst, CopyOwn
<1>. QED
  BY <1>1, <1>2

\* The entry column changes nothing about whose lead it is.
LEMMA FindEntryContacts ==
  ASSUME BoardTyped, ContactsHold, NEW r \in Client, FindEntry(r)
  PROVE  ContactsHold'
<1>1. UNCHANGED lead /\ r \in BoardRequest /\ boardReq[r] \in LEntryReq /\ boardReq[r].phase = "entry"
  BY ClientIs, RequestShape DEF FindEntry, boardRows, At, BoardTyped
<1>2. CASE Ends(r)
  BY <1>1, <1>2, PlainEnd
<1>3. CASE ~Ends(r)
  <2>. DEFINE q0 == boardReq[r]
  <2>1. PICK c \in EntryOf(q0.funnel), u \in User :
          Goes(r, [phase |-> "insertLead",
                   copy |-> [AssignResponsible(SetProduct(NewLead(q0.contact, q0.funnel, c), q0.product), u)
                               EXCEPT !.twin = q0.twin]])
    BY <1>3 DEF FindEntry
  <2>. DEFINE copy == [AssignResponsible(SetProduct(NewLead(q0.contact, q0.funnel, c), q0.product), u)
                               EXCEPT !.twin = q0.twin]
              q == [phase |-> "insertLead", copy |-> copy]
  <2>2. copy.contact = q0.contact /\ copy.twin = q0.twin
    BY DEF AssignResponsible, SetProduct, NewLead
  <2>3. boardReq' = [boardReq EXCEPT ![r] = q]
    BY <2>1 DEF Goes
  <2>. HIDE DEF copy
  <2>4. CopyOwn(q) /\ \A k \in Contact : MakesFirst(q, k) => MakesFirst(boardReq[r], k)
    BY <1>1, <2>2 DEF CopyOwn, MakesFirst
  <2>. HIDE DEF q
  <2>. QED
    BY <1>1, <2>3, <2>4, LeadsSame, ContactsOn
<1>. QED
  BY <1>2, <1>3

\* The insert turns a creation into a lead.
LEMMA InsertLeadContacts ==
  ASSUME BoardTyped, ContactsHold, NEW r \in Client, NEW l \in Lead, InsertLead(r, l)
  PROVE  ContactsHold'
<1>1. /\ r \in BoardRequest /\ boardReq[r] \in LInsertLeadReq /\ boardReq[r].phase = "insertLead"
      /\ lead[l] = NoRow
  BY ClientIs, RequestShape DEF InsertLead, At, BoardTyped
<1>2. CASE ~ColumnKept(boardReq[r].copy.column)
  BY <1>1, <1>2, PlainEnd DEF InsertLead
<1>3. CASE ColumnKept(boardReq[r].copy.column)
  <2>1. PICK row \in LeadRow : row = boardReq[r].copy /\ row # NoRow
    BY <1>1, BoardConstants DEF LInsertLeadReq
  <2>2. lead' = [lead EXCEPT ![l] = row]
    BY <1>3, <2>1 DEF InsertLead
  <2>. DEFINE q == [phase |-> "log", id |-> l, from |-> None, to |-> boardReq[r].copy.column, rest |-> <<>>]
  <2>3. boardReq' = [boardReq EXCEPT ![r] = q] /\ q.phase = "log"
    BY <1>3 DEF InsertLead, Goes
  <2>. HIDE DEF q
  <2>4. \A s \in BoardRequest : boardReq'[s] = IF s = r THEN q ELSE boardReq[s]
    BY <2>3 DEF BoardTyped
  <2>5. \A m \in Lead : lead'[m] = IF m = l THEN row ELSE lead[m]
    BY <2>2 DEF BoardTyped
  <2>6. row.contact \in Contact /\ (~row.twin => MakesFirst(boardReq[r], row.contact))
    BY <1>1, <2>1 DEF MakesFirst, LeadRow
  <2>7. \A s \in BoardRequest, k \in Contact : MakesFirst(boardReq'[s], k) => s # r /\ MakesFirst(boardReq[s], k)
    BY <2>3, <2>4 DEF MakesFirst
  <2>8. ASSUME NEW m \in Lead, NEW n \in Lead, lead'[m] # NoRow, lead'[n] # NoRow,
               lead'[m].contact = lead'[n].contact, ~lead'[m].twin, ~lead'[n].twin
        PROVE  m = n
    <3>1. CASE m # l /\ n # l
      BY <2>5, <2>8, <3>1 DEF ContactsHold, OneLeadEach
    <3>2. CASE m = l /\ n # l
      BY <1>1, <2>5, <2>6, <2>8, <3>2 DEF ContactsHold
    <3>3. CASE m # l /\ n = l
      BY <1>1, <2>5, <2>6, <2>8, <3>3 DEF ContactsHold
    <3>. QED
      BY <3>1, <3>2, <3>3
  <2>9. ASSUME NEW s \in BoardRequest, NEW t \in BoardRequest, NEW k \in Contact,
               MakesFirst(boardReq'[s], k), MakesFirst(boardReq'[t], k)
        PROVE  s = t
    BY <2>7, <2>9 DEF ContactsHold
  <2>10. ASSUME NEW s \in BoardRequest, NEW m \in Lead, lead'[m] # NoRow,
                MakesFirst(boardReq'[s], lead'[m].contact)
         PROVE  lead'[m].twin
    <3>1. CASE m = l
      BY <1>1, <2>5, <2>6, <2>7, <2>10, <3>1 DEF ContactsHold
    <3>2. CASE m # l
      <4>1. lead[m].contact \in Contact /\ lead'[m] = lead[m]
        BY <2>5, <2>10, <3>2 DEF BoardTyped, LeadRow
      <4>. QED
        BY <2>7, <2>10, <4>1 DEF ContactsHold
    <3>. QED
      BY <3>1, <3>2
  <2>11. \A s \in BoardRequest : CopyOwn(boardReq[s])'
    <3>1. \A s \in BoardRequest : CopyOwn(boardReq'[s])
      BY <2>3, <2>4 DEF ContactsHold, CopyOwn
    <3>2. \A s \in BoardRequest : boardReq'[s].phase = "saveLead" => boardReq'[s].id # l
      BY <1>1, <3>1 DEF CopyOwn
    <3>. QED
      BY <2>5, <3>1, <3>2 DEF CopyOwn
  <2>. QED
    BY <2>8, <2>9, <2>10, <2>11 DEF ContactsHold, OneLeadEach, MakesFirst, CopyOwn
<1>. QED
  BY <1>2, <1>3

\* A save writes the contact that was read.
LEMMA SaveLeadContacts ==
  ASSUME BoardInvariant, ContactsHold, NEW r \in BoardRequest, SaveLead(r)
  PROVE  ContactsHold'
<1>. USE DEF BoardInvariant
<1>1. boardReq[r] \in LSaveLeadReq /\ boardReq[r].phase = "saveLead"
  BY RequestShape DEF SaveLead, At, BoardTyped
<1>2. CASE ~ColumnKept(boardReq[r].copy.column)
  <2>1. UNCHANGED lead /\ Refused(r)
    BY <1>2 DEF SaveLead
  <2>. QED
    BY <2>1, LeadsSame, PlainEnd, PlainKeeps DEF Refused, Plain
<1>3. CASE ColumnKept(boardReq[r].copy.column)
  <2>1. lead' = [lead EXCEPT ![boardReq[r].id] = boardReq[r].copy]
    BY <1>3 DEF SaveLead, SavedLead
  <2>2. /\ boardReq[r].id \in Lead /\ lead[boardReq[r].id] # NoRow /\ boardReq[r].copy # NoRow
        /\ SameContact(boardReq[r].copy, lead[boardReq[r].id])
    BY <1>1, BoardConstants DEF ContactsHold, CopyOwn, LSaveLeadReq
  <2>3. \A l \in Lead : LeadSame(l)
    BY <2>1, <2>2 DEF LeadSame, SameContact, BoardTyped
  <2>4. CASE Ends(r)
    BY <2>3, <2>4, PlainKeeps DEF Ends, Goes, Plain, Over
  <2>5. CASE ~Ends(r)
    BY <1>3, <2>3, <2>5, PlainKeeps DEF SaveLead, Plain
  <2>. QED
    BY <2>4, <2>5
<1>. QED
  BY <1>2, <1>3

\* The other pages read and write rows, and start no creation.
LEMMA PagesContacts ==
  ASSUME BoardInvariant, ContactsHold, NEW r \in BoardRequest,
         FunnelPages(r) \/ ColumnPages(r) \/ BoardFails(r) \/ MoveFails(r) \/ LogMovement(r)
  PROVE  ContactsHold'
<1>. USE DEF BoardInvariant
<1>1. UNCHANGED lead
  BY DEF FunnelPages, CreateFunnel, UpdateFunnel, ToggleFunnel, ChangeFunnel, AddDefaultColumn, IsFirstFunnel,
         SaveFunnel, ColumnPages, CreateColumn, DeleteColumn, MoveColumn, ReadMaxOrder, InsertColumn,
         DeleteColumnRow, SwapOrder, BoardFails, MoveFails, LogMovement, boardRows
<1>2. ASSUME Ends(r) PROVE ContactsHold'
  BY <1>1, <1>2, PlainEnd
<1>3. ASSUME NEW q, Goes(r, q), Plain(q) PROVE ContactsHold'
  BY <1>1, <1>3, LeadsSame, PlainKeeps
<1>4. CASE FunnelPages(r)
  BY <1>2, <1>3, <1>4 DEF FunnelPages, CreateFunnel, UpdateFunnel, ToggleFunnel, ChangeFunnel, AddDefaultColumn,
                          IsFirstFunnel, SaveFunnel, Plain
<1>5. CASE ColumnPages(r)
  BY <1>2, <1>3, <1>5 DEF ColumnPages, CreateColumn, DeleteColumn, MoveColumn, ReadMaxOrder, InsertColumn,
                          DeleteColumnRow, SwapOrder, Plain
<1>6. CASE BoardFails(r) \/ MoveFails(r)
  BY <1>2, <1>3, <1>6 DEF BoardFails, MoveFails, Refused, Plain
<1>7. CASE LogMovement(r)
  <2>1. boardReq[r] \in LLogReq
    BY <1>7, RequestShape DEF LogMovement, At, BoardTyped
  <2>2. [boardReq[r] EXCEPT !.phase = "trigger"].phase = "trigger"
    BY <2>1 DEF LLogReq
  <2>. QED
    BY <1>2, <1>3, <1>7, <2>2 DEF LogMovement, Refused, Plain
<1>. QED
  BY <1>4, <1>5, <1>6, <1>7

\* Moves and edits find the lead and change the copy.
LEMMA EditsContacts ==
  ASSUME BoardInvariant, ContactsHold, NEW r \in BoardRequest,
         MoveForm(r) \/ \E l \in Lead : (\E u \in User : AssignLead(r, l, u)) \/ (\E p \in Product : SetLeadProduct(r, l, p))
  PROVE  ContactsHold'
<1>. USE DEF BoardInvariant
<1>1. CASE MoveForm(r)
  BY <1>1, MovedSame, ChangeKeeps DEF MoveForm, MoveLead, boardRows
<1>2. ASSUME NEW l \in Lead, NEW x, AssignLead(r, l, x) \/ SetLeadProduct(r, l, x) PROVE ContactsHold'
  <2>1. lead[l] # NoRow /\ lead[l] \in LeadRow
    BY <1>2 DEF AssignLead, SetLeadProduct, BoardTyped
  <2>. QED
    BY <1>2, <2>1, EditedSame, ChangeKeeps DEF AssignLead, SetLeadProduct, EditLead, boardRows
<1>. QED
  BY <1>1, <1>2

\* A run inside a request moves leads as a page does.
LEMMA EngineContacts ==
  ASSUME BoardInvariant, AutoTyped, ContactsHold, NEW r \in BoardRequest, Engine(r)
  PROVE  ContactsHold'
<1>. USE DEF BoardInvariant
<1>1. CASE OnLeadEvent(r)
  BY <1>1, LeadsSame, PlainEnd, PlainKeeps DEF OnLeadEvent, boardRows, Plain
<1>2. ASSUME UNCHANGED lead, NEW rest, Continue(r, rest) PROVE ContactsHold'
  BY <1>2, LeadsSame, PlainEnd, PlainKeeps DEF Continue, Plain
<1>3. CASE RunMove(r)
  <2>1. UNCHANGED lead
    BY <1>3 DEF RunMove, boardRows
  <2>2. CASE Continue(r, Then(r, "error"))
    BY <1>2, <2>1, <2>2
  <2>3. CASE ~Continue(r, Then(r, "error"))
    <3>1. At(r, "run") /\ TaskOf(r).do = "run"
      BY <1>3 DEF RunMove
    <3>2. TaskOf(r).lead \in Lead /\ lead[TaskOf(r).lead] # NoRow
      BY <3>1, TaskIs DEF LRunTask, LTask
    <3>. QED
      BY <1>3, <2>1, <2>3, <3>2, MovedSame, ChangeKeeps DEF RunMove
  <2>. QED
    BY <2>2, <2>3
<1>4. CASE MoveFails(r)
  BY <1>4, PagesContacts
<1>5. CASE RunNote(r) \/ RunStub(r) \/ WriteLog(r)
  BY <1>2, <1>5 DEF RunNote, RunStub, WriteLog, boardRows
<1>. QED
  BY <1>1, <1>3, <1>4, <1>5 DEF Engine

\* So does the ticker.
LEMMA TickerContacts ==
  ASSUME LeadsInvariant, ContactsHold, TickerStep
  PROVE  ContactsHold'
<1>. USE DEF LeadsInvariant, BoardInvariant
<1>1. CASE Tick \/ ListExpired \/ LeadsDone \/ MoveReturns
  BY <1>1, LeadsSame, ContactsStay DEF Tick, ListExpired, LeadsDone, MoveReturns, boardVars, boardRows
<1>2. ASSUME ticker.phase = "lead", ticker.leads # {}
      PROVE  TheLead \in Lead /\ lead[TheLead] # NoRow /\ lead[TheLead] \in LeadRow
  BY <1>2, TheLeadIs DEF BoardTyped
<1>3. CASE DropLead
  <2>. DEFINE d == TheLead
              row == [lead[d] EXCEPT !.status = "lost", !.dropped = TRUE]
  <2>1. d \in Lead /\ lead[d] # NoRow /\ lead[d] \in LeadRow
    BY <1>2, <1>3 DEF DropLead
  <2>2. lead \in [Lead -> LeadRow \cup {NoRow}]
    BY DEF BoardTyped
  <2>3. lead' = [lead EXCEPT ![d] = row]
    BY <1>3 DEF DropLead
  <2>4. row \in LeadRow /\ SameContact(row, lead[d])
    BY <2>1 DEF LeadRow, SameContact
  <2>5. NoRow \notin LeadRow
    BY BoardConstants
  <2>6. ASSUME NEW l \in Lead
        PROVE  LeadSame(l)
    <3>. HIDE DEF d, row
    <3>1. CASE l = d
      BY <2>1, <2>2, <2>3, <2>4, <2>5, <3>1 DEF LeadSame
    <3>2. CASE l # d
      BY <2>2, <2>3, <3>2 DEF LeadSame, SameContact
    <3>. QED
      BY <3>1, <3>2
  <2>. QED
    BY <1>3, <2>6, ContactsStay DEF DropLead
<1>4. CASE ArchiveLead
  <2>1. UNCHANGED lead /\ ticker.phase = "lead" /\ ticker.leads # {}
    BY <1>4 DEF ArchiveLead, boardRows
  <2>2. CASE UNCHANGED boardReq
    BY <2>1, <2>2, LeadsSame, ContactsStay
  <2>3. CASE ~UNCHANGED boardReq
    BY <1>2, <1>4, <2>1, <2>3, MovedSame, ChangeKeeps, BoardConstants DEF ArchiveLead
  <2>. QED
    BY <2>2, <2>3
<1>. QED
  BY <1>1, <1>3, <1>4 DEF TickerStep

\* Every step keeps it.
LEMMA ContactsStep ==
  ASSUME LeadsInvariant, ContactsHold, [LeadsNext]_<<boardVars, autoVars>>
  PROVE  ContactsHold'
<1>. USE DEF LeadsInvariant, BoardInvariant, AutoInvariant
<1>1. TickSlot \in BoardRequest
  BY BoardConstants
<1>2. ASSUME NEW r \in Client, LeadPages(r) \/ NewLeads(r) PROVE ContactsHold'
  BY <1>2, ClientIs, EditsContacts, SaveLeadContacts, PagesContacts, CreateLeadContacts, FindEntryContacts,
     InsertLeadContacts DEF LeadPages, NewLeads
<1>3. ASSUME NEW l \in Lead, Age(l) PROVE ContactsHold'
  <2>1. \A m \in Lead : LeadSame(m)
    BY <1>3, BoardConstants DEF Age, LeadSame, SameContact, BoardTyped, LeadRow
  <2>. QED
    BY <1>3, <2>1, ContactsStay DEF Age
<1>4. CASE BoardNext
  BY <1>1, <1>2, <1>3, <1>4, ClientIs, PagesContacts, SaveLeadContacts DEF BoardNext
<1>5. ASSUME NEW r \in BoardRequest, Engine(r) PROVE ContactsHold'
  BY <1>5, EngineContacts
<1>6. CASE TickerStep
  BY <1>6, TickerContacts
<1>7. ASSUME UNCHANGED boardVars PROVE ContactsHold'
  BY <1>7, LeadsSame, ContactsStay DEF boardVars, boardRows
<1>8. ASSUME NEW a \in Automation, Edit(a) \/ AddOrDelete(a) PROVE ContactsHold'
  BY <1>7, <1>8 DEF Edit, ToggleAutomation, EditAutomation, SaveAutomation, AddOrDelete, DeleteAutomation,
                    CreateAutomation
<1>. QED
  BY <1>4, <1>5, <1>6, <1>7, <1>8 DEF LeadsNext

LEMMA ContactsBegin == BoardInit => ContactsHold
BY DEF BoardInit, ContactsHold, OneLeadEach, CopyOwn, MakesFirst, Waiting

LEMMA BoardSound ==
  ASSUME LeadsInvariant, ContactsHold
  PROVE  BoardIsSound
<1>. USE DEF LeadsInvariant, BoardInvariant
<1>1. BoardTypeOK
  <2>1. \A r \in BoardRequest : boardReq[r].phase \in BoardPhase
    BY RequestShape DEF BoardTyped
  <2>. QED
    BY <2>1 DEF BoardTyped, BoardTypeOK
<1>2. AtMostOneDefault
  <2>. DEFINE S == {f \in Funnel : funnel[f] # NoRow /\ funnel[f].default}
  <2>1. \A f, g \in S : f = g
    BY DEF OneElected, Elected
  <2>2. CASE S = {}
    BY <2>2, FS_EmptySet DEF AtMostOneDefault
  <2>3. CASE S # {}
    <3>1. PICK f \in S : S = {f}
      BY <2>1, <2>3
    <3>2. Cardinality({f}) = 1
      BY FS_Singleton
    <3>. QED
      BY <3>1, <3>2 DEF AtMostOneDefault
  <2>. QED
    BY <2>2, <2>3
<1>3. LimitHolds
  <2>. SUFFICES ASSUME ~orderRaced, NEW f \in Funnel
                PROVE  Cardinality(ColumnsOf(f)) < MaxColumns + Cardinality(Client)
    BY DEF LimitHolds
  <2>1. Cardinality(ColumnsOf(f)) + Cardinality(AddingTo(f)) < MaxColumns + Cardinality(Client)
    BY DEF ColumnsHold, RoomKept
  <2>2. Cardinality(ColumnsOf(f)) \in Nat /\ Cardinality(AddingTo(f)) \in Nat /\ Cardinality(Client) \in Nat
    BY ColumnsFinite, AddingFinite DEF ColumnsHold
  <2>. QED
    BY <2>1, <2>2, BoardConstants
<1>4. NothingDangles
  BY DEF LeadsStand, LeadStands, NothingDangles
<1>. QED
  BY <1>1, <1>2, <1>3, <1>4 DEF BoardIsSound, ColumnsHold, ContactsHold

LEMMA WaysTold ==
  ASSUME LeadsInvariant
  PROVE  LeadsTellTheirWay
<1>. USE DEF LeadsInvariant, BoardInvariant, AutoInvariant
<1>1. AutoTypeOK
  <2>1. ticker.phase \in {"rest", "list", "lead", "moving"}
    BY TickerShape DEF AutoTyped
  <2>2. autoReq.phase \in {"none", "save"}
    BY DEF AutoTyped, LEdit, NoEdit
  <2>. QED
    BY <2>1, <2>2 DEF AutoTyped, AutoTypeOK
<1>2. StatusFollowsColumn
  BY DEF LeadsStand, LeadStands, RowFollows, StatusFollowsColumn
<1>3. MovementsTellTheWay
  <2>. SUFFICES ASSUME NEW l \in Lead, lead[l] # NoRow, l \notin leadRaced \cup unlogged, Settled(l)
                PROVE  /\ movement[l] # <<>>
                       /\ movement[l][1].from = None
                       /\ movement[l][Len(movement[l])].to = lead[l].column
                       /\ \A i \in 2 .. Len(movement[l]) : movement[l][i].from = movement[l][i - 1].to
    BY DEF MovementsTellTheWay
  <2>1. WayOf(l) /\ Unwritten(l) = {}
    BY DEF WaysHold, Settled, Unwritten
  <2>2. LastTo(l) = lead[l].column /\ lead[l].column \in ColumnId
    BY <2>1 DEF WayOf, BoardTyped, LeadRow
  <2>3. movement[l] # <<>>
    BY <2>2, BoardConstants DEF LastTo
  <2>. QED
    BY <2>1, <2>2, <2>3 DEF WayOf, LastTo
<1>. QED
  BY <1>1, <1>2, <1>3 DEF LeadsTellTheirWay

-----------------------------------------------------------------------------
(* Theorems.                                                               *)

LEMMA LeadsAlways == LeadsSpec => []LeadsInvariant
<1>1. BoardInit /\ AutoInit => LeadsInvariant
  BY LeadsBegin
<1>2. LeadsInvariant /\ [LeadsNext]_<<boardVars, autoVars>> => LeadsInvariant'
  BY LeadsStep
<1>. QED
  BY <1>1, <1>2, PTL DEF LeadsSpec

LEMMA ContactsAlways == LeadsSpec => []ContactsHold
<1>1. BoardInit => ContactsHold
  BY ContactsBegin
<1>2. LeadsInvariant /\ ContactsHold /\ [LeadsNext]_<<boardVars, autoVars>> => ContactsHold'
  BY ContactsStep
<1>. QED
  BY <1>1, <1>2, LeadsAlways, PTL DEF LeadsSpec

\* However many users create funnels, add, move and delete columns and move
\* leads at once, and whichever statement fails between two others: there is
\* never a second default funnel, the columns of a funnel have distinct
\* indexes and stay below the limit but for those past its check, unless an
\* index was written from a stale read, and no lead and no movement points to
\* a column that is gone; and a contact has one lead, but for those that were
\* looked for while another one was being created (create_funnel.go,
\* create_column.go, move_column.go, delete_column.go, create_lead.go).
THEOREM BoardStaysSound == LeadsSpec => []BoardIsSound
<1>1. LeadsInvariant /\ ContactsHold => BoardIsSound
  BY BoardSound
<1>. QED
  BY <1>1, LeadsAlways, ContactsAlways, PTL

\* A lead's status is the one of its column but for an expiration, its
\* movements lead from none to where it is but for a stale save, overlapping
\* moves and a movement that failed, and every execution log names an
\* automation that is there, beside any runs, ticks and edits
\* (move_lead.go, engine.go, ticker.go).
THEOREM LeadsWayHolds == LeadsSpec => []LeadsTellTheirWay
<1>1. LeadsInvariant => LeadsTellTheirWay
  BY WaysTold
<1>. QED
  BY <1>1, LeadsAlways, PTL
=============================================================================

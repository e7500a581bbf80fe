--------------------------------- MODULE Paging ---------------------------------
(***************************************************************************)
(* The pages of the lists: what each list makes of the page and the size   *)
(* it is asked for, the rows it reads, the links to the next and the       *)
(* previous page it draws and the rows it says it shows.  A reader opens a *)
(* list and follows its links while rows are added, newest first.          *)
(*                                                                         *)
(* A search or a filter only makes a list shorter.                         *)
(***************************************************************************)
EXTENDS Integers, Sequences

CONSTANTS
  RowTotals,   \* how many rows a list may have when it is opened
  DefaultSize, MaxSize,  \* every list's own, 10 or 20 and 100
  Opening,     \* the page or offset and the size each list is opened with; size 0 is none given
  MaxAdded     \* bound: rows that are added

AdminListing == {"tenants", "specialists", "documents", "mcps"}
Listing == AdminListing \cup {"files", "audit", "notices", "logs"}
ASSUME PagingAssumption ==
  /\ RowTotals \subseteq Nat /\ MaxAdded \in Nat
  /\ DefaultSize \in Nat \ {0} /\ MaxSize \in Nat /\ MaxSize >= DefaultSize
  /\ \A o \in Opening : o.list \in Listing /\ o.at \in Nat /\ o.size \in Nat
ByOffset(list) == list \in {"notices", "logs"}
\* Lists are opened from the first page or offset.  Some take no size; the
\* audit list, drawn from what it was asked for, is asked for a page and a size.
ASSUME OpeningAssumption ==
  \A o \in Opening :
    /\ ByOffset(o.list) => o.at = 0
    /\ ~ByOffset(o.list) => o.at \in {0, 1}
    /\ o.list = "audit" => o.at = 1 /\ o.size \in 1..MaxSize
    /\ o.list \in AdminListing \cup {"files"} => o.size = 0

VARIABLES
  total,  \* rows of the list that was opened
  added,  \* rows added on top of them since
  view,   \* the page that is shown
  trail,  \* history: the rows of the pages from the first to this one
  seen    \* history: every row shown, counted from the top at the opening

pagingVars == <<total, added, view, trail, seen>>
NoView ==
  [list |-> "none", at |-> 0, size |-> 0, rows |-> <<1, 0>>, prev |-> FALSE, next |-> FALSE, label |-> <<>>]

PagingTypeOK ==
  /\ total \in RowTotals \cup {0} /\ added \in 0..MaxAdded
  /\ view.list \in Listing \cup {"none"} /\ view.at \in Nat /\ view.size \in Nat
  /\ \A i \in 1..Len(trail) : trail[i] \in Nat \X Nat
  /\ seen \subseteq (1 - MaxAdded)..total

PagingInit == total = 0 /\ added = 0 /\ view = NoView /\ trail = <<>> /\ seen = {}

-----------------------------------------------------------------------------
Least(a, b) == IF a < b THEN a ELSE b
Page(p) == IF p < 1 THEN 1 ELSE p
OrDefault(size) == IF size < 1 THEN DefaultSize ELSE size
Clamped(size) == Least(OrDefault(size), MaxSize)

\* OFFSET and LIMIT: the rows from the first to the last one read of n.
Read(n, offset, limit) == <<offset + 1, Least(offset + limit, n)>>
Many(rows) == IF rows[2] < rows[1] THEN 0 ELSE rows[2] - rows[1] + 1

Found(n, p, limit) ==
  [rows |-> Read(n, (Page(p) - 1) * OrDefault(limit), OrDefault(limit)),
   page |-> Page(p), limit |-> OrDefault(limit)]
FindTenants(n, p, limit) == Found(n, p, limit)
FindSpecialists(n, p, limit) == Found(n, p, limit)
FindDocuments(n, p, limit) == Found(n, p, limit)
FindMcps(n, p, limit) == Found(n, p, limit)
\* The handlers draw from the page and the limit the repository used.
Drawn(list, n, out) ==
  [list |-> list, at |-> out.page, size |-> 0, rows |-> out.rows,
   prev |-> out.page > 1, next |-> out.page * out.limit < n,
   label |-> <<(out.page - 1) * out.limit + 1, Least(out.page * out.limit, n)>>]
RenderTenants(n, p, limit) == Drawn("tenants", n, FindTenants(n, p, limit))
RenderSpecialists(n, p, limit) == Drawn("specialists", n, FindSpecialists(n, p, limit))
RenderDocuments(n, p, limit) == Drawn("documents", n, FindDocuments(n, p, limit))
RenderMcps(n, p, limit) == Drawn("mcps", n, FindMcps(n, p, limit))

\* Mutant: the last page that is not full is not counted.
FullPages(n, size) == LET pages == n \div size IN IF pages < 1 THEN 1 ELSE pages
TotalPages(n, size) == LET pages == (n + size - 1) \div size IN IF pages < 1 THEN 1 ELSE pages
ListFiles(n, p, size) == Read(n, (Page(p) - 1) * Clamped(size), Clamped(size))
BuildListView(n, p) ==
  [list |-> "files", at |-> Page(p), size |-> 0, rows |-> ListFiles(n, p, DefaultSize),
   prev |-> Page(p) > 1, next |-> Page(p) < TotalPages(n, DefaultSize), label |-> <<>>]

\* The use case normalises a copy: the handler goes on with what was asked.
ListAuditLogs(n, p, size) == Read(n, (Page(p) - 1) * Clamped(size), Clamped(size))
BuildListData(n, p, size) ==
  [list |-> "audit", at |-> p, size |-> size, rows |-> ListAuditLogs(n, p, size),
   prev |-> p > 1, next |-> p * size < n, label |-> <<(p - 1) * size + 1, Least(p * size, n)>>]

\* One row more is read to know whether there is another page.
FindByUserID(n, offset, limit) == Read(n, offset, limit + 1)
FindByAutomationID(n, offset, limit) == Read(n, offset, limit + 1)
OffsetView(list, fetched, offset, limit) ==
  [list |-> list, at |-> offset, size |-> limit,
   rows |-> <<fetched[1], Least(fetched[2], offset + limit)>>,
   prev |-> offset > 0, next |-> Many(fetched) > limit, label |-> <<>>]
RenderNotices(n, offset, limit) ==
  OffsetView("notices", FindByUserID(n, offset, Clamped(limit)), offset, Clamped(limit))
RenderLogs(n, offset, limit) ==
  LET v == OffsetView("logs", FindByAutomationID(n, offset, OrDefault(limit)), offset, OrDefault(limit)) IN
  [v EXCEPT !.label = <<offset + 1, offset + Many(v.rows)>>]

Show(list, n, at, size) ==
  CASE list = "tenants" -> RenderTenants(n, at, size)
    [] list = "specialists" -> RenderSpecialists(n, at, size)
    [] list = "documents" -> RenderDocuments(n, at, size)
    [] list = "mcps" -> RenderMcps(n, at, size)
    [] list = "files" -> BuildListView(n, at)
    [] list = "audit" -> BuildListData(n, at, size)
    [] list = "notices" -> RenderNotices(n, at, size)
    [] list = "logs" -> RenderLogs(n, at, size)

-----------------------------------------------------------------------------
Ids(rows) == {r - added : r \in rows[1]..rows[2]}
Shows(v) == view' = v /\ seen' = seen \cup Ids(v.rows)

OpenList(o, n) ==
  /\ view = NoView
  /\ total' = n /\ Shows(Show(o.list, n, o.at, o.size)) /\ trail' = <<view'.rows>>
  /\ UNCHANGED added
\* The links carry the page that is shown and its size; the offset of the
\* previous page is kept from being negative, where it is drawn or read.
NextPage ==
  /\ view.next
  /\ Shows(Show(view.list, total + added,
                IF ByOffset(view.list) THEN view.at + view.size ELSE view.at + 1, view.size))
  /\ trail' = Append(trail, view'.rows)
  /\ UNCHANGED <<total, added>>
PrevOffset == IF view.at < view.size THEN 0 ELSE view.at - view.size
PrevPage ==
  /\ view.prev /\ Len(trail) > 1
  /\ Shows(Show(view.list, total + added, IF ByOffset(view.list) THEN PrevOffset ELSE view.at - 1, view.size))
  /\ trail' = SubSeq(trail, 1, Len(trail) - 1)
  /\ UNCHANGED <<total, added>>
RowAdded ==
  /\ view # NoView /\ added < MaxAdded
  /\ added' = added + 1
  /\ UNCHANGED <<total, view, trail, seen>>

PagingNext == (\E o \in Opening, n \in RowTotals : OpenList(o, n)) \/ NextPage \/ PrevPage \/ RowAdded
PagingSpec == PagingInit /\ [][PagingNext]_pagingVars
-----------------------------------------------------------------------------
\* Whoever follows the links from the first page of a list sees every row
\* that was there, whatever rows are added meanwhile; when none are, each is
\* seen once and in order, the way back shows what the way there did, the
\* last page has no link to another, and a page says which rows it shows
\* (specialist handler.go:115-121, files handler.go:250-253, audit
\* handler.go:134-144, notification page_handler.go:121-141).
PagesCoverTheList ==
  PagingTypeOK /\ (view # NoView =>
    /\ ~view.next => 1..total \subseteq seen
    /\ added = 0 =>
         /\ view.rows = trail[Len(trail)] /\ trail[1][1] = 1
         /\ \A i \in 1..(Len(trail) - 1) : trail[i + 1][1] = trail[i][2] + 1 /\ Many(trail[i + 1]) > 0
         /\ view.next = (view.rows[2] < total)
         /\ view.label # <<>> /\ total > 0 => view.label = view.rows)
=============================================================================

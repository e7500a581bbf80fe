------------------------------- MODULE MCPlatform -------------------------------
(***************************************************************************)
(* What the firms share, on small instances: the clients of WhatsApp, the  *)
(* messages they deliver one at a time, the event bus and notifications,   *)
(* and the pages of the lists. part says which question a behaviour asks.  *)
(***************************************************************************)
EXTENDS MessageIngest, WaClients, Notices, Paging, TLC

CONSTANTS
  d1, d2, d3, first, second, \* deliveries and messages
  g1, e1, e2, e3, u1, u2,    \* firm, clients, requests: u1 polls for the page
  o1, o2, h1, h2, s1, s2     \* offices, readers, streams

VARIABLE part
platformVars == <<vars, waVars, noticeVars, pagingVars, part>>

\* d1 and d2 carry the same message.
Carries == [d \in Delivery |-> IF d = d3 THEN second ELSE first]
ClientsOfG1 == [c \in Client |-> g1]
\* Every list from its first page; the two that take any size, with others.
FirstPages ==
  {[list |-> l, at |-> 1, size |-> 0] : l \in AdminListing}
  \cup {[list |-> "files", at |-> 0, size |-> 0], [list |-> "audit", at |-> 1, size |-> DefaultSize]}
  \cup {[list |-> l, at |-> 0, size |-> s] : l \in {"notices", "logs"}, s \in {0, 1, 5}}

WaParts == {"pairing", "clicks", "startup"}
Parts == WaParts \cup {"messages", "bus", "settings", "paging"}

\* Where clients are not the question, g1 is connected.
Connected ==
  /\ clients = [f \in Firm |-> e1] /\ stores = [f \in Firm |-> e1]
  /\ openStore = {e1} /\ live = {e1} /\ paired = {e1}
Unconnected ==
  /\ clients = [f \in Firm |-> Nobody] /\ stores = [f \in Firm |-> Nobody]
  /\ openStore = {} /\ live = {} /\ paired = {}
\* Faults while a page pairs, clicks while it does, or a start.
MCWaInit ==
  /\ IF part \in WaParts THEN Unconnected ELSE Connected
  /\ retrying = {} /\ pairing = {} /\ logouts = {} /\ replaced = {}
  /\ device \in IF part \in {"pairing", "clicks"} THEN SUBSET Firm ELSE {Firm}
  /\ connStates = [f \in Firm |-> Nobody] /\ attempt = [a \in Attempt |-> NoAttemptYet]
  /\ waReq = [r \in WaRequest |-> WaIdle] /\ page = [f \in Firm |-> IF part \in WaParts THEN "reload" ELSE "chats"]
  /\ startup = [left |-> IF part = "startup" THEN Firm ELSE {}, connecting |-> Nobody]
  /\ clicks = IF part = "pairing" THEN MaxClicks ELSE 0
  /\ troubles = IF part = "pairing" THEN 0 ELSE MaxTroubles

MCInit ==
  /\ part \in Parts
  /\ Init /\ (part # "messages" => contact)
  /\ MCWaInit /\ NoticeInit /\ PagingInit

\* u1 polls and u2 clicks. At startup u2 asks for the status beside the poll,
\* else u1 does between two polls, when there is something to forget.
WaPart ==
  \/ \E c \in Client : ClientEvents(c)
  \/ \E a \in Attempt : RunAttempt(a) \/ QrCode(a)
  \/ \E r \in WaRequest : RunRequest(r)
  \/ RenderPage(g1) \/ RenderQR(u1, g1)
  \/ IF part = "startup" THEN RenderStatus(u2, g1) ELSE connStates[g1] # Nobody /\ RenderStatus(u1, g1)
  \/ HandleConnect(u2, g1) \/ HandleDisconnect(u2, g1)
  \/ HasPairedSession(g1) \/ ReconnectExisting

\* Leads of o1 for h1; s1 is that user's, s2 another user's or another office's.
BusPart ==
  \/ NotifierStep \/ \E p \in LeadPublisher \cup {Notifier} : PublisherStep(p)
  \/ \E p \in LeadPublisher : CreateLeadPublishes(p, o1, h1)
  \/ OpenStream(s1, o1, h1) \/ OpenStream(s2, o1, h2) \/ OpenStream(s2, o2, h1)
  \/ \E s \in Stream : StreamStep(s) \/ LeavePage(s)
  \/ MarkAllRead(o1, h1) \/ \E n \in NoticeId : MarkRead(n)

MCNext ==
  \/ part = "messages" /\ Next /\ UNCHANGED <<waVars, noticeVars, pagingVars, part>>
  \/ part \in WaParts /\ WaPart /\ UNCHANGED <<vars, noticeVars, pagingVars, part>>
  \/ /\ (part = "bus" /\ BusPart) \/ (part = "settings" /\ \E u \in Reader, e \in BOOLEAN : SetPreference(u, e))
     /\ UNCHANGED <<vars, waVars, pagingVars, part>>
  \/ part = "paging" /\ PagingNext /\ UNCHANGED <<vars, waVars, noticeVars, part>>

\* Goroutines and handlers go on, a page that polls does so and a redirect is
\* followed, clients connect again, give codes while they are connected and tell
\* of logouts, and codes that came end where there is no connection.
WaFairness ==
  /\ \A r \in WaRequest : WF_waVars(part \in WaParts /\ RunRequest(r))
  /\ \A a \in Attempt : WF_waVars(part \in WaParts /\ RunAttempt(a)) /\ WF_waVars(part \in WaParts /\ QrCode(a))
  /\ WF_waVars(part \in WaParts /\ RenderQR(u1, g1)) /\ WF_waVars(part \in WaParts /\ page[g1] = "reload" /\ RenderPage(g1))
  /\ WF_waVars(part \in WaParts /\ ReconnectExisting)
  /\ \A c \in Client :
       /\ WF_waVars(part \in WaParts /\ Retry(c)) /\ WF_waVars(part \in WaParts /\ HandleLoggedOut(c))
       /\ WF_waVars(part \in WaParts /\ c \notin live /\ QrTimeout(c))
NoticeFairness ==
  /\ WF_noticeVars(part = "bus" /\ NotifierStep)
  /\ \A p \in LeadPublisher \cup {Notifier} : WF_noticeVars(part = "bus" /\ PublisherStep(p))
  /\ \A s \in Stream : WF_noticeVars(part = "bus" /\ StreamStep(s))
MessageFairness ==
  \A d \in Delivery : WF_vars(part = "messages" /\ Deliver(d)) /\ WF_vars(part = "messages" /\ Receive(d))
MCSpec == MCInit /\ [][MCNext]_platformVars /\ WaFairness /\ NoticeFairness /\ MessageFairness
=============================================================================

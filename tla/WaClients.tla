------------------------------- MODULE WaClients -------------------------------
(***************************************************************************)
(* The WhatsApp clients of the firms: the provider's maps of clients and   *)
(* stores under one mutex (whatsmeow_provider.go), the attempts to connect *)
(* the HTTP handler runs in goroutines, the page that polls them           *)
(* (interfaces/http/handler.go, web/templates/whatsapp), and the           *)
(* reconnection at startup.                                                *)
(*                                                                         *)
(* The library is external: a client is connected or not, reconnects by    *)
(* itself, pairs when its code is scanned, and tells of a logout in a      *)
(* goroutine of its own. A client that was disconnected before its first   *)
(* code gives none, and its codes never end. A client is named with the    *)
(* store it was made on.                                                   *)
(***************************************************************************)
EXTENDS Integers, FiniteSets

CONSTANTS
  Firm, Client, Attempt, WaRequest,
  ClientFirm, \* the firm a client is made for
  WaFaults,   \* {"store", "net", "logout"}
  MaxClicks,  \* bound: requests to connect or disconnect
  MaxTroubles,\* bound: faults
  Nobody

ASSUME WaAssumption ==
  /\ ClientFirm \in [Client -> Firm] /\ MaxClicks \in Nat /\ MaxTroubles \in Nat
  /\ Nobody \notin Client \cup Attempt

VARIABLES
  clients,   \* p.clients
  stores,    \* p.stores: the client made on the store
  openStore, \* clients whose store is open
  live,      \* clients with a connection
  retrying,  \* clients that lost it and will connect again
  paired,    \* clients that know their device
  device,    \* firms whose store file holds a device
  pairing,   \* clients whose QR goroutine runs
  logouts,   \* clients whose logout is still to be handled
  connStates,\* h.connStates
  attempt,   \* states of attempts and their goroutines
  waReq,     \* requests in flight
  page,      \* what the page of a firm shows
  startup,   \* what is left of the reconnection at startup
  troubles, clicks,
  replaced   \* history: clients a logout of another one took out of the map

provider == <<clients, stores, openStore, live, retrying, paired, device, pairing>>
handler == <<connStates, attempt>>
waVars == <<provider, logouts, handler, waReq, page, startup, troubles, clicks, replaced>>

\* seen is history: a page read the code.
NoAttemptYet ==
  [phase |-> "none", firm |-> Nobody, client |-> Nobody, qr |-> FALSE, err |-> FALSE, seen |-> FALSE]
\* open: the page that asked still waits for the answer.
WaIdle == [phase |-> "none", firm |-> Nobody, state |-> Nobody, open |-> FALSE]
Tracked == {clients[f] : f \in Firm} \ {Nobody}

\* An attempt whose client was disconnected without a code waits for ever, cut
\* off by a disconnect or overtaken by another connect.
AttemptState ==
  [phase : {"none", "connect", "drain", "cut", "overtaken", "over"}, firm : Firm \cup {Nobody}, client : Client \cup {Nobody},
   qr : BOOLEAN, err : BOOLEAN, seen : BOOLEAN]
WaReqState ==
  [phase : {"none", "start", "again", "read", "told", "status", "forget"}, firm : Firm \cup {Nobody},
   state : Attempt \cup {Nobody}, open : BOOLEAN]
\* A spinner and a code poll, an error and the conversations do not; a redirect
\* loads the page again.
View == {"wait", "code", "error", "chats", "reload"}
Polling == {"wait", "code"}

ProviderTyped ==
  /\ clients \in [Firm -> Client \cup {Nobody}] /\ stores \in [Firm -> Client \cup {Nobody}]
  /\ openStore \subseteq Client /\ live \subseteq Client /\ retrying \subseteq Client
  /\ logouts \subseteq Client /\ replaced \subseteq Client
RequestsTyped ==
  /\ connStates \in [Firm -> Attempt \cup {Nobody}]
  /\ attempt \in [Attempt -> AttemptState] /\ waReq \in [WaRequest -> WaReqState]
  /\ page \in [Firm -> View] /\ startup.connecting \in Firm \cup {Nobody}
  /\ \A a \in Attempt : attempt[a].phase = "connect" => attempt[a].firm \in Firm
  /\ \A r \in WaRequest : waReq[r].phase \in {"start", "again"} => waReq[r].firm \in Firm
WaTypeOK ==
  /\ ProviderTyped /\ RequestsTyped

WaInit ==
  /\ clients = [f \in Firm |-> Nobody] /\ stores = [f \in Firm |-> Nobody]
  /\ openStore = {} /\ live = {} /\ retrying = {} /\ paired = {} /\ pairing = {} /\ logouts = {}
  /\ device \in SUBSET Firm
  /\ connStates = [f \in Firm |-> Nobody] /\ attempt = [a \in Attempt |-> NoAttemptYet]
  /\ waReq = [r \in WaRequest |-> WaIdle] /\ page = [f \in Firm |-> "reload"]
  /\ startup = [left |-> Firm, connecting |-> Nobody]
  /\ troubles = 0 /\ clicks = 0 /\ replaced = {}

-----------------------------------------------------------------------------
(* The provider. Each of these holds the mutex throughout. *)

IsConnected(f) == clients[f] \in live \cap paired
Trouble(kind) == kind \in WaFaults /\ troubles < MaxTroubles /\ troubles' = troubles + 1
Drains(c) == \E a \in Attempt : attempt[a].phase = "drain" /\ attempt[a].client = c
FreeClients(f) ==
  {c \in Client : /\ ClientFirm[c] = f /\ clients[f] # c /\ stores[f] # c
                  /\ c \notin openStore \cup live \cup retrying \cup pairing \cup logouts /\ ~Drains(c)}
NewClients(f) == IF FreeClients(f) = {} THEN {} ELSE {CHOOSE c \in FreeClients(f) : TRUE}

\* The attempts that wait for the first code of the client there is; they never
\* hear of it when it is disconnected.
Codeless(f) == {a \in Attempt : attempt[a].phase = "drain" /\ attempt[a].client = clients[f] /\ ~attempt[a].qr}
Unheard(f) == {attempt[a].client : a \in Codeless(f)}
Left(f, phase) ==
  [a \in Attempt |->
     IF a \in Codeless(f) THEN [attempt[a] EXCEPT !.phase = phase, !.client = Nobody] ELSE attempt[a]]

\* Mutant: the client there is stays connected.
ExistingStays(f) == {}
Existing(f) == {clients[f]}

\* Connect leaves no store, a store it closed again, or a new client c that is
\* connected and, when there is no device, shows codes.
ConnectNoStore(f) ==
  /\ Trouble("store")
  /\ live' = live \ Existing(f) /\ retrying' = retrying \ Existing(f)
  /\ clients' = [clients EXCEPT ![f] = Nobody] /\ stores' = [stores EXCEPT ![f] = Nobody]
  /\ openStore' = openStore \ {stores[f]} /\ paired' = paired \ Existing(f)
  /\ pairing' = pairing \ Unheard(f) /\ UNCHANGED device
ConnectNoNet(f, c) ==
  /\ Trouble("net")
  /\ live' = live \ Existing(f) /\ retrying' = retrying \ Existing(f)
  /\ clients' = [clients EXCEPT ![f] = Nobody] /\ stores' = [stores EXCEPT ![f] = c]
  /\ openStore' = openStore \ {stores[f]} /\ paired' = paired \ Existing(f)
  /\ pairing' = pairing \ Unheard(f) /\ UNCHANGED device
ConnectClient(f, c) ==
  /\ live' = (live \ Existing(f)) \cup {c} /\ retrying' = retrying \ Existing(f)
  /\ clients' = [clients EXCEPT ![f] = c] /\ stores' = [stores EXCEPT ![f] = c]
  /\ openStore' = (openStore \ {stores[f]}) \cup {c}
  /\ paired' = (paired \ Existing(f)) \cup (IF f \in device THEN {c} ELSE {})
  /\ pairing' = (pairing \ Unheard(f)) \cup (IF f \in device THEN {} ELSE {c})
  /\ UNCHANGED <<device, troubles>>

Disconnect(f) ==
  /\ live' = live \ {clients[f]} /\ retrying' = retrying \ {clients[f]}
  /\ openStore' = openStore \ {stores[f]} /\ paired' = paired \ {clients[f]}
  /\ clients' = [clients EXCEPT ![f] = Nobody] /\ stores' = [stores EXCEPT ![f] = Nobody]
  /\ pairing' = pairing \ Unheard(f) /\ UNCHANGED device

\* The logout of any client of the firm takes out the one that is there now.
HandleLoggedOut(c) ==
  LET f == ClientFirm[c] IN
  /\ c \in logouts /\ logouts' = logouts \ {c}
  /\ clients' = [clients EXCEPT ![f] = Nobody]
  /\ replaced' = IF clients[f] \in {c, Nobody} THEN replaced \ {c} ELSE (replaced \ {c}) \cup {clients[f]}
  /\ UNCHANGED <<stores, openStore, live, retrying, paired, device, pairing, handler, waReq, page, startup, troubles,
                 clicks>>

-----------------------------------------------------------------------------
(* What a client does on its own, external but for the goroutine that reads *)
(* its codes.                                                               *)

Others == <<clients, stores, openStore, waReq, page, startup, clicks, replaced>>

\* A code reaches the attempt that drains the client.
QrCode(a) ==
  /\ attempt[a].phase = "drain" /\ attempt[a].client \in pairing \cap live /\ ~attempt[a].qr
  /\ attempt' = [attempt EXCEPT ![a].qr = TRUE]
  /\ UNCHANGED <<provider, logouts, connStates, waReq, page, startup, troubles, clicks, replaced>>
\* What ServeQRImage draws.
ShownQr(f) == connStates[f] # Nobody /\ attempt[connStates[f]].qr
\* The code that is shown was scanned: the device is written, the client
\* connects again.
QrSuccess(c) ==
  /\ c \in pairing \cap live /\ page[ClientFirm[c]] = "code" /\ ShownQr(ClientFirm[c])
  /\ attempt[connStates[ClientFirm[c]]].client = c
  /\ pairing' = pairing \ {c} /\ paired' = paired \cup {c} /\ device' = device \cup {ClientFirm[c]}
  /\ live' = live \ {c} /\ retrying' = retrying \cup {c}
  /\ UNCHANGED <<Others, logouts, handler, troubles>>
\* The codes run out minutes after the first one, which a page that polls has
\* read within seconds. Without a first code there is nothing to run out.
AtHand(a) == connStates[attempt[a].firm] = a /\ page[attempt[a].firm] \in Polling \cup {"reload"}
QrTimeout(c) ==
  /\ c \in pairing
  /\ \A a \in Attempt : attempt[a].phase = "drain" /\ attempt[a].client = c =>
       attempt[a].qr /\ (AtHand(a) => attempt[a].seen)
  /\ pairing' = pairing \ {c} /\ live' = live \ {c}
  /\ UNCHANGED <<Others, retrying, paired, device, logouts, handler, troubles>>
Drop(c) ==
  /\ c \in live /\ Trouble("net")
  /\ live' = live \ {c} /\ pairing' = pairing \ {c}
  /\ retrying' = IF c \in paired THEN retrying \cup {c} ELSE retrying
  /\ UNCHANGED <<Others, paired, device, logouts, handler>>
Retry(c) ==
  /\ c \in retrying
  /\ live' = live \cup {c} /\ retrying' = retrying \ {c}
  /\ UNCHANGED <<Others, paired, device, pairing, logouts, handler, troubles>>
\* The phone logs the device out: it is deleted, then told of.
LogOut(c) ==
  /\ c \in live \cap paired /\ Trouble("logout")
  /\ live' = live \ {c} /\ paired' = paired \ {c} /\ device' = device \ {ClientFirm[c]}
  /\ logouts' = logouts \cup {c}
  /\ UNCHANGED <<Others, retrying, pairing, handler>>
\* The account connected elsewhere: the client stops for good.
StreamReplaced(c, d) ==
  /\ c \in (live \cap paired) \ Tracked /\ d \in live \cap paired \cap Tracked /\ ClientFirm[c] = ClientFirm[d]
  /\ live' = live \ {c} /\ paired' = paired \ {c}
  /\ UNCHANGED <<Others, retrying, device, pairing, logouts, handler, troubles>>

-----------------------------------------------------------------------------
(* Attempts to connect. *)

\* Mutant: an attempt that is over is the one to wait for.
AnyAttempt(f) == connStates[f] # Nobody
AlreadyRunning(f) == connStates[f] # Nobody /\ attempt[connStates[f]].phase # "over"

NewAttempts == {a \in Attempt : attempt[a].phase = "none"}
\* An attempt that is over, or waits for ever, and that nobody refers to is left
\* out.
Collected(m) ==
  [a \in Attempt |->
     IF /\ m[a].phase \in {"over", "cut", "overtaken"} /\ (\A f \in Firm : connStates'[f] # a)
        /\ (\A r \in WaRequest : waReq'[r].state # a)
     THEN NoAttemptYet ELSE m[a]]
\* The state of the attempt that runs, or of a new one.
StartConnect(f, st) ==
  \/ AlreadyRunning(f) /\ st = connStates[f] /\ UNCHANGED handler
  \/ /\ ~AlreadyRunning(f) /\ NewAttempts # {} /\ st = CHOOSE a \in NewAttempts : TRUE
     /\ connStates' = [connStates EXCEPT ![f] = st]
     /\ attempt' = Collected([attempt EXCEPT ![st] = [NoAttemptYet EXCEPT !.phase = "connect", !.firm = f]])

\* The goroutine of an attempt: Connect, then the codes until there is no more.
ExecuteConnect(a) ==
  LET f == attempt[a].firm
      others == Left(f, "overtaken")
  IN
  /\ attempt[a].phase = "connect"
  /\ UNCHANGED <<connStates, waReq, page>>
  /\ \/ /\ ConnectNoStore(f) \/ \E c \in NewClients(f) : ConnectNoNet(f, c)
        /\ attempt' = Collected([others EXCEPT ![a].phase = "over", ![a].err = TRUE])
     \/ \E c \in NewClients(f) :
          ConnectClient(f, c) /\ attempt' = Collected([others EXCEPT ![a].phase = "drain", ![a].client = c])
  /\ UNCHANGED <<logouts, startup, clicks, replaced>>
DrainQr(a) ==
  /\ attempt[a].phase = "drain" /\ attempt[a].client \notin pairing
  /\ UNCHANGED <<provider, logouts, connStates, waReq, page, startup, troubles, clicks, replaced>>
  /\ attempt' = Collected([attempt EXCEPT ![a].phase = "over", ![a].client = Nobody])

-----------------------------------------------------------------------------
(* Requests. *)

Reply(r, q) == waReq' = [waReq EXCEPT ![r] = q]
Forget(f) == connStates' = [connStates EXCEPT ![f] = Nobody]
Click == clicks < MaxClicks /\ clicks' = clicks + 1

Asked(phase, f, open) == [WaIdle EXCEPT !.phase = phase, !.firm = f, !.open = open]
\* What the answer of r shows, if its page is still open.
Answers(r, view) == page' = IF waReq[r].open THEN [page EXCEPT ![waReq[r].firm] = view] ELSE page

HandleConnect(r, f) ==
  /\ waReq[r].phase = "none" /\ Click
  /\ Forget(f) /\ Reply(r, Asked("again", f, FALSE))
  /\ attempt' = Collected(attempt)
  /\ UNCHANGED <<provider, logouts, page, startup, troubles, replaced>>
HandleDisconnect(r, f) ==
  /\ waReq[r].phase = "none" /\ Click
  /\ Disconnect(f) /\ Reply(r, Asked("forget", f, FALSE))
  /\ UNCHANGED connStates /\ attempt' = Collected(Left(f, "cut"))
  /\ UNCHANGED <<logouts, page, startup, troubles, replaced>>
\* The page is loaded: it shows the conversations, or a spinner that polls.
\* Answers to the page there was are nobody's.
RenderPage(f) ==
  /\ page[f] \notin Polling
  /\ page' = [page EXCEPT ![f] = IF IsConnected(f) THEN "chats" ELSE "wait"]
  /\ waReq' = [r \in WaRequest |-> IF waReq[r].firm = f THEN [waReq[r] EXCEPT !.open = FALSE] ELSE waReq[r]]
  /\ UNCHANGED <<provider, handler, logouts, startup, troubles, clicks, replaced>>
\* The page polls: it is told of a connection, else sees to it that there is
\* an attempt and reads its state.
RenderQR(r, f) ==
  /\ waReq[r].phase = "none" /\ page[f] \in Polling
  /\ Reply(r, Asked(IF IsConnected(f) THEN "told" ELSE "start", f, TRUE))
  /\ UNCHANGED <<provider, handler, logouts, page, startup, troubles, clicks, replaced>>
\* A status that shows a connection ends the pairing too.
RenderStatus(r, f) ==
  /\ waReq[r].phase = "none" /\ IsConnected(f)
  /\ Reply(r, Asked("status", f, TRUE))
  /\ UNCHANGED <<provider, handler, logouts, page, startup, troubles, clicks, replaced>>
\* HandleConnect does not wait for what it starts.
StartAttempt(r) ==
  /\ waReq[r].phase \in {"start", "again"}
  /\ \E st \in Attempt :
       /\ Reply(r, IF waReq[r].phase = "again" THEN WaIdle ELSE [waReq[r] EXCEPT !.phase = "read", !.state = st])
       /\ StartConnect(waReq[r].firm, st)
  /\ UNCHANGED <<provider, logouts, page, startup, troubles, clicks, replaced>>
\* An error, or an end without a code, is shown once.
ReadState(r) ==
  LET st == attempt[waReq[r].state]
      ended == st.phase = "over" /\ ~st.qr
  IN
  /\ waReq[r].phase = "read"
  /\ IF st.err \/ ended THEN Forget(waReq[r].firm) ELSE UNCHANGED connStates
  /\ Answers(r, IF st.err THEN "error" ELSE IF ended THEN "reload" ELSE IF st.qr THEN "code" ELSE "wait")
  /\ Reply(r, WaIdle)
  /\ attempt' = Collected([attempt EXCEPT ![waReq[r].state].seen = @ \/ st.qr])
  /\ UNCHANGED <<provider, logouts, startup, troubles, clicks, replaced>>
\* Whoever was told of a connection loads the page again; a status only when
\* there was an attempt to forget.
ForgetState(r) ==
  LET q == waReq[r] IN
  /\ q.phase \in {"told", "status", "forget"}
  /\ IF q.phase = "told" \/ (q.phase = "status" /\ connStates[q.firm] # Nobody)
     THEN Answers(r, "reload") ELSE UNCHANGED page
  /\ Forget(q.firm) /\ Reply(r, WaIdle)
  /\ attempt' = Collected(attempt)
  /\ UNCHANGED <<provider, logouts, startup, troubles, clicks, replaced>>

-----------------------------------------------------------------------------
(* Startup: a firm whose store holds a device is connected. *)

HasPairedSession(f) ==
  /\ f \in startup.left /\ startup.connecting = Nobody
  /\ startup' = [left |-> startup.left \ {f}, connecting |-> IF f \in device THEN f ELSE Nobody]
  /\ UNCHANGED <<provider, handler, logouts, waReq, page, troubles, clicks, replaced>>
ReconnectExisting ==
  LET f == startup.connecting IN
  /\ f # Nobody
  /\ ConnectNoStore(f) \/ \E c \in NewClients(f) : ConnectNoNet(f, c) \/ ConnectClient(f, c)
  /\ startup' = [startup EXCEPT !.connecting = Nobody]
  /\ UNCHANGED <<connStates, logouts, waReq, page, clicks, replaced>>
  /\ attempt' = Collected(Left(f, "overtaken"))

-----------------------------------------------------------------------------
RunAttempt(a) == ExecuteConnect(a) \/ DrainQr(a)
RunRequest(r) == StartAttempt(r) \/ ReadState(r) \/ ForgetState(r)
ClientEvents(c) ==
  \/ HandleLoggedOut(c) \/ QrSuccess(c) \/ QrTimeout(c) \/ Drop(c) \/ Retry(c) \/ LogOut(c)
  \/ \E d \in Client : StreamReplaced(c, d)
WaNext ==
  \/ \E c \in Client : ClientEvents(c)
  \/ \E a \in Attempt : RunAttempt(a) \/ QrCode(a)
  \/ \E r \in WaRequest :
       \/ RunRequest(r)
       \/ \E f \in Firm : RenderQR(r, f) \/ RenderStatus(r, f) \/ HandleConnect(r, f) \/ HandleDisconnect(r, f)
  \/ ReconnectExisting \/ \E f \in Firm : HasPairedSession(f) \/ RenderPage(f)
WaSpec == WaInit /\ [][WaNext]_waVars
-----------------------------------------------------------------------------
\* A firm has one client and one open store, the ones the maps name: every
\* attempt, page and startup that connects leaves no other behind that would
\* go on receiving. The logout of an earlier client, told late, is the one
\* thing that takes a client out of the map and leaves it connected
\* (whatsmeow_provider.go:45-53, 269-271).
ClientsTracked ==
  /\ live \cup retrying \subseteq Tracked \cup replaced
  /\ openStore \subseteq {stores[f] : f \in Firm}
  /\ \A f \in Firm : clients[f] \in live \cup retrying => clients[f] = stores[f] /\ clients[f] \in openStore

OneClientPerFirm == WaTypeOK /\ ClientsTracked

\* A page that asks for a code does not wait for ever: it shows a code of a
\* client that can be paired with it, or an error with its button, or goes on to
\* the conversations, whatever attempts, timeouts, late logouts, disconnects and
\* a startup do meanwhile (handler.go:69-117, 142-206). The exception is an
\* attempt whose client another connect took before its first code: it is never
\* done, and the page shows its spinner from then on.
ScannableQr(f) ==
  page[f] = "code" /\ ShownQr(f) /\ attempt[connStates[f]].client \in live \cap pairing
WaitsInVain(f) == connStates[f] # Nobody /\ attempt[connStates[f]].phase = "overtaken"
PageSettles == \A f \in Firm : []<>(page[f] \in {"error", "chats"} \/ ScannableQr(f) \/ WaitsInVain(f))
=============================================================================

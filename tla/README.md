# TLA+ models of crm_juridico

crm_juridico is a multi-tenant CRM for law firms, written in Go: WhatsApp messages come in per firm, an
AI specialist answers them along a qualification script, leads move through funnels with automations,
people take conversations over, and permissions, billing and an audit trail run beside. This directory
holds TLA+ models of the program, TLC configurations that check them on small instances, and TLAPS
proofs of the main results for every value of the constants. Paths are relative to `src/internal/` unless they begin
with `cmd/` or `docs/`.

    tlc -workers 2 -config MCTurnAlone.cfg MCLockedTurn.tla
    tlapm ConversationTurnProofs.tla

`PROJECT.json` says for every definition which lines of the source it stands for (`map`), for every run
what it asks (`runs`), for every hazard which property would catch it (`hazards`), and for every property
a change of the code's model that breaks it (`mutants`): operators named `...Mutant...` are such changes and model
nothing. Variables commented "history" are not in the program; they record what a property needs to say.

## 1. Inventory

Code is organised by feature, `<feature>/{domain,application,infrastructure,interfaces/http}`, wired in
`cmd/api/main.go`. One process serves all firms. State is in MySQL, through gorm, whose `Save` writes a
whole row (and inserts it when it is gone), and in a few in-memory maps. There are hardly any transactions: almost every use case
finds a row, changes it in memory and saves it whole, and that is where most hazards come from.

| Component | State | Operations | Talks to | What must be right |
|---|---|---|---|---|
| Per-conversation turn lock (`ai/application/keyed_mutex.go`) | refcounted mutexes by conversation, in memory | Lock, unlock | engine | exclusion per conversation, no two locks of one key, no leak, every caller gets in |
| Conversation engine and state (`ai/application/conversation_engine.go`, `handoff.go`, `reset_conversation.go`) | `conversation_states` row; the lead's score, outcome, column | HandleMessages, handoff on and off, reset | model, funnel, ingestion (send) | turns are serial; a step is completed and scored once; a human who took over is not interrupted |
| AI context, providers and tools (`ai/application/context_builder.go`, `ai/infrastructure`) | configuration rows it reads; leads its tools write | build the request, call the model, run the ten tools, fall back | specialist, funnel, automations, provider | requests are sound, results tell the truth, the loop ends |
| Debouncer and routing contexts (`ai/module.go`, `ai/application/debouncer.go`, `specialist_router.go`) | context, pending messages and timer of each conversation, in memory | HandleIncomingMessage, Add, fire, callback | engine | every message ends in one turn, or is known to be dropped |
| Message ingestion (`whatsapp/application/`) | contacts, conversations (unread_count), messages (unique whatsapp_msg_id) | receive, send, read, note | funnel, files, bus, AI (goroutine) | a message is processed once; the badge is right |
| WhatsApp client management (`whatsapp/infrastructure`, `whatsapp/interfaces/http`) | client, store and page state of each firm, in memory; a device in a file | connect, pair, reconnect, log out, poll | WhatsApp | one live client per firm; a page that polls gets somewhere |
| Funnels, columns and leads (`funnel/`) | funnels, columns (order), leads, movements | create, toggle, move, assign, delete | load balancing, automations | one default funnel, positions distinct, no lead without a column, movements tell its way |
| Automations (`automation/`) | automations, execution log; ticker goroutine | run on entering a column, tick, panel edits | funnel | runs end; an expired lead leaves its column |
| Accounts, invites and sessions (`auth/`) | users, user_tenants, invite_tokens; signed tokens | invite, accept, revoke, block, log in, choose a firm | tenants | an invite lets one account in; no session without a membership that once was |
| Load balancing (`auth/`) | configuration and index per group | pick, configure | groups, funnel | members are picked in turn; one active group per column |
| Permissions and groups (`permission/`) | groups, members, permissions, view profiles, covered columns | set, ask, delete | auth, funnel | who is let in held the right at some moment of the question |
| Tenants (`tenant/`) | firm row, block history | create, update, block, unblock, deactivate | audit | a blocked firm has its reason, status and history agree |
| Specialist configuration (`specialist/`) | specialists, firms and default, guardrails, tools, steps, scoring, rules | CRUD, reorder, sync | engine, router | a sole specialist is the default; steps are numbered without a gap |
| Payments and billing (`pagamentos/`) | payments (unique recurring key), billing data; daily scheduler | generate, refresh overdue, register, settle, cancel | tenants | what is paid stays paid; no month is skipped or doubled; due dates are open days |
| Event bus and notifications (`shared/events`, `notification/`) | subscribers' bounded channels; notifications | publish, subscribe, leave, notify, mark read | SSE pages, funnel | publishers never block; a page shows its user's notifications only |
| Files, documents, MCP servers (`files/`, `document/`, `mcp/`) | a row and content on disk | store, link, read, delete | ingestion, specialists | what is listed can be opened |
| Products (`product/`) | products, keywords, links to firms and funnels | CRUD, detect | router, funnel | a message is matched to what its firm offers |
| Audit trail (`audit/`) | audit_logs | publish a login, a difference | tenants, auth | the trail tells what is stored |
| Lists and their pages (`*/interfaces/http`) | - | open, next, previous | - | no row is skipped by following the links |
| Observability, UI helpers, configuration; dashboard and landing; panel pages; process start and shutdown | - | - | - | not modelled (section 6) |

### How a message travels

    provider --(callback, error discarded)--> ReceiveMessage --(go)--> HandleIncomingMessage
      --> router --> storeContext --> Debouncer.Add --(timer)--> fire --> callback --> HandleMessages
      --> turnLock --> find state --> model and tools --> lead --> save state --> SendMessage --> provider

Beside it, HTTP requests write the same rows without any of those locks: handoff, the playground's reset,
notes, reading a conversation, sending from the panel, moving a lead.

### What is hard

Goroutines per message, per timer and per request on whole-row saves (stale copies, lost updates, rows that
come back); a lock map with eviction; timers that cannot be stopped once fired; duplicated deliveries and late logouts; calls of a language
model in the middle of a read-modify-write; crashes and failures between two of the rows a use case writes;
checks whose answer is assembled from several statements; best-effort calls whose failure is only
logged; a publisher that is its own subscriber.

## 2. Modules

| Module | Extends | Models |
|---|---|---|
| `KeyedMutex` | | `keyedMutex.Lock` and unlock, step by step |
| `AbstractKeyedLock`, `KeyedMutexRefinement` | `KeyedMutex` | one atomic lock per key, and the refinement |
| `ConversationTurn` | | turns of one conversation, the requests on its row, tools, faults, crashes |
| `LockedTurn` | `ConversationTurn`, `KeyedMutex` | the turns with the engine's mutex in place of the abstract lock, beside other conversations |
| `SerialConversation`, `ConversationSerial` | `ConversationTurn` | one speaker at a time, and the refinement |
| `ToolLoop` | | what one turn asks of the model and does for it |
| `InboundDebounce` | | routing contexts and debouncer |
| `MessageIngest` | | receive, send, read and note on the rows of one contact |
| `WaClients` | | WhatsApp clients, attempts to pair, the page that polls |
| `Notices` | | event bus, notifier, streams, notifications |
| `Paging` | | the pages of eight lists |
| `AuditTrail` | | entries about logins and changes of firms |
| `Tenants` | | law firms and their history |
| `HolidayCalendar` | | the calendar of business days |
| `Billing` | `Tenants`, `HolidayCalendar` | payments and their scheduler |
| `LeadBoard` | | funnels, columns, leads, movements |
| `Automations` | `LeadBoard` | runs of automations, ticker, panel edits |
| `Members` | | accounts, memberships, invites, sessions |
| `Groups` | `Members` | groups, grants, the permission question |
| `LoadBalance` | `Groups` | the picker and its configuration |
| `Specialists` | | specialists, firms, default, guardrails, tools |
| `Script` | `Specialists` | steps, scoring, cross-sell rules of one specialist |
| `Products`, `Library` | `Specialists` | products and detection; documents and MCP servers |
| `FileStore` | | media of conversations |
| `Catalogue` | `Script`, `Products`, `Library`, `FileStore` | all of an office's configuration |
| `MCKeyedMutex` ... `MCPlatform` | the modules above | instances for TLC |
| `...Proofs` | the modules above | theorems (section 4) |

The models meet at named actions. `MessageIngest!TriggerAI` is `InboundDebounce!Trigger`;
`InboundDebounce!StartTurn` is `ConversationTurn!Arrive`; `ConversationTurn` uses the turn lock by its
abstraction (a variable with one holder) and `LockedTurn` puts `KeyedMutex` in its place; the model call of a turn is
`ToolLoop`, from `ask` to `answered` or `fallback`; `ConversationTurn!Send` is a `Writer` of `MessageIngest`; a lead that a first message makes is
`LeadBoard`'s create, with the owner `LoadBalance` picks. A component is modelled for one conversation, contact, firm or specialist
where the code never relates two of them.

Requests of the panel are values of one variable per module (`tenantReq`, `boardReq`, `groupReq`, ...): a function of request names to
records with a `phase`, the copies the handler holds and nothing else. A statement is an action; what the code does in memory between
two statements belongs to the action of the later one. A failing statement is an action of its own where the code goes on differently.

### KeyedMutex

`locks` is the map from keys to lock objects, `refs` and `lockMu` the fields of an object, `mapMu` the
mutex of the map, `pc` the place of each goroutine, `obj` the object it looked up. Each critical section
of the map (`keyed_mutex.go:24-33` and `40-46`) is entered, worked in and left as separate steps, and the
blocking `l.mu.Lock()` at line 35 comes after the map's mutex is released, so that a goroutine may wait on an object which
another one evicts. Objects may be reused as soon as nobody points to them (`NewObject`).

### ConversationTurn

`row` is the `conversation_states` row, `lead` the part of the lead the engine writes, `state` and `side`
the in-memory copies of a turn, `request` those of the HTTP requests. A row keeps the specialist, the step
index, the set of answered steps, the score and the handoff flag. One action per find, save and external
call of `HandleMessages`, in the order of the code: lock, `/reset`, find or create, self-heal of the
specialist, the model and its tools, `AdvanceStep` in memory, the lead's score, column routing with the
outcome, the handoff of outcome humano, the move, the save, the send.

- Abstracted: prompt, guardrails and metadata parsing (the model's answer completes the step,
  with its own score or the model's, with a veto or without, or it does not); the text of messages; times.
- `ScoreUpdater` and `LeadMover` find and save the lead; that pair is one action here. Leads
  under concurrent writers are `LeadBoard`'s.
- Left out: cross-sell. `main.go` never sets the cross-sell repository of the engine, so its branches are dead.
- `handedOff`, `muted` are history: the last answered handoff request, and that
  a human has owned the conversation ever since the turn's message came.

`LockedTurn` joins the two modules: `HandleMessages` calls `Lock` when a turn begins (`Begin`), `Acquire` is the step that lets the turn in (`TakeLock`), its last
step runs the deferred closure (`Proceed`), whose eviction comes after the turn has returned, and turns of other conversations use the same map (`OtherStep`). The variable `turnLock` is only
written there, never read, so that what `ConversationTurn` asks of it has to follow from the mutex.

`SerialConversation` is what the lock is for: a conversation whose steps are completed one on top of the other and scored once. `ConversationSerial`
maps the row to it and names what a turn alone on the row knows (`CopiesFresh`), and where the lead's score may be (`LeadAhead`, `LeadFollows`).

### ToolLoop

`toolRows`, `aiRow`, `steps` and `texts` are the configuration and the history the request is built from, read in
separate statements (`BuildStep`) while they change; `turn` holds the request, round, calls and results; `leadRows` what the tools
write; `recorded` (history) the calls whose change is in the database. `LoopStep` is one round: the model's answer with any calls, the ten tools with their checks and partial failures,
the results matched to the calls, the limit of iterations, the fallback. An automation that the model triggers runs one of three kinds of executor (`RuleRuns`): a note, a move, or one that only logs; whatever its
executor returns, the model is told of success (`Failed`). The step of the prompt is the one at `CurrentStepIndex` in the list as it is read then. No tool but those that read a lead first looks at the firm
of what the model names. `clock` and `resumedAt` are the seconds that
decide which messages belong to the AI again after a handoff. The model is external and may call anything.

### InboundDebounce

A timer is named by the message whose `Add` made it, so `timers` may point to a timer that has already
fired, and `Stopped` is `time.Timer.Stop`: it has no effect on a timer whose goroutine has started.
`Fire` is the critical section of `fire`, `StartTurn`/`DropBatch` the callback outside of it. `lost`
collects messages the callback dropped or that died with the process. Time is abstract: a running timer may
expire at any moment, so every interleaving of windows is covered. The order of the messages inside a batch
is left out. `Debouncer.Stop` is never called.

### MessageIngest

The rows of one contact. A delivery walks through `Execute` with one action per database call. A conversation is
found by primary key order (`First`), so that two of them may exist. `Writer` is a call of SendMessage or
of GetConversationMessages, both of which read the conversation and save it whole; `Noter` is a note that promotes
the conversation to a lead. `Overlap` says whether deliveries overlap: one WhatsApp client delivers
one after the other; the playground's endpoint and a second client of the same firm
deliver beside it, and the comment at `whatsapp/application/receive_message.go:138` expects it. Left out: message status, the contact's name,
SSE events, messages without a WhatsApp id (none of the callers sends one), closing a conversation (no code calls `Close`).

### WaClients

`clients` and `stores` are the provider's maps, `openStore`, `live`, `retrying`, `paired` and `device` the library's state of each client,
`logouts` the events a client's goroutine has still to handle, `attempt` and `connStates` what the handler's goroutines
left for the page, `startup` the firms still to reconnect. Connecting, pairing, the QR goroutine and its timeout, the three
ways a connection ends, disconnecting and the polling page are actions; `replaced` (history) are
clients that another one's late logout took out of the map. The goroutine of an attempt reads its client's codes: a client that another connect replaces before its first code gives none any more, and its
attempt never ends (`overtaken`; `cut` when a disconnect did it). The page polls while it shows the spinner or a code (`Polling`); its error has a button and does not poll, and a click is not fair. `MaxClicks` and `MaxTroubles` bound user's clicks and lost connections.

### Notices

`subscribers` and `queue` are the bus, `publishing` where each publisher is in its loop over the channels, under the bus's read lock;
`stream` a page, from subscribing to closing its channel; `notifier` the goroutine that makes notifications
and publishes to the bus it listens to; `notice` and `preference` rows. `BufferSize` is the length of a channel (100 in the code).

### Paging

`view` is the page shown: list, page or offset, size, rows, links and label, computed as each of the eight lists does. `trail` and
`seen` are history: the rows of the pages on the way and all rows shown. `RowAdded` puts a row on top.

### AuditTrail

`lawfirm` rows are found, saved whole and then told of (`editor`), `entries` is `audit_logs`, `login` how far an administrator is with logging
in. `BuildDiff` is the snapshot's difference. `unlogged` and `raced` (history) are what the trail cannot tell of.

### Tenants, HolidayCalendar, Billing

`tenant` rows, `blockHistory`, `trail`, `tenantReq`: find, save, history entry and audit entry are four actions. `payment` is a function of what makes
a payment unique (firm and month, or an id); `cron` is a run of the scheduler, which catches up month by month, stops at a failed statement and
may die; `payReq` are the administrators, who save copies. Days are numbers; in `Billing` a month has
`MonthLength` of them and `ClosedDay` says which are not business days, while `HolidayCalendar` translates the real calendar,
Easter and all, from `pagamentos/domain/holiday_calendar.go`: `cache` holds the holidays of the years that were asked for, which `holidaysForYear` fills
under its lock. The two loops `NextOpen` and `AddOpen` take the set of open days and are shared by both.

### LeadBoard, Automations

`funnel`, `column`, `goneColumn`, `lead`, `movement`: rows of one firm. `boardReq` is a request, read by read and write by write; one that put a
lead into a column ends in phase `trigger`, and `Automations` takes it up: `rest` is the stack of runs, because an automation
that moves the lead runs the next column's automations inside. `ticker` lists expired leads per automation and acts on them one after
the other; `autoReq` are edits from the panel. `aged` says that a lead has stayed for the hours of an
automation, `dropped` (history) that the status is an expiration's. Sending a message, switching specialists and
routing by product are stubs in the code. `orderRaced`, `leadRaced`, `unlogged` are history, and so is `twin`: another lead of
the contact was on its way when this one's lookup found none.

### Members, Groups, LoadBalance

Accepting an invite is six statements on four tables (`memberReq`); `session` are tokens, whose content is not read again. The permission
question is up to four statements (owner, user's grants, groups, groups' grants), each
an action, and `groupReq` keeps what was read and, as history, which sources of the permission there were at some moment and at every moment (`seen`, `steady`); setting grants is
one statement per permission. `config` is a group's load balancing and `lead` the owners of new leads in order; no lead is closed. A pick reads the groups of its column, their configurations, the members
and the counts one after the other, while forms, assignments of columns and members come and go (`FirmNext`). History: `turns` are the picks of
a group by round robin since its members or its configuration changed, or one was made from a stale copy of them; `beside[u]` the accounts that were candidates, too, each time `u` was picked, always by least load;
`unchecked` the groups whose columns were assigned after they were switched on, or whose form was not looked at alone.

### Specialists, Script, Products, Library, FileStore, Catalogue

`assigned` and `preferred` are `specialist_tenants` and its default flag. A form is sent from a page that showed what there was when it was opened,
so a request carries what it saw. Settling the default after a change is read and one write, in statements of their own; `unsettled` (history)
are firms a request left without that last step. `Script` is one specialist's steps, thresholds and rules: orders are plain columns, read, decided in memory and written back one by one. `stepsRaced` and
`rulesRaced` (history) say that a write met another request that had read before it. In `Products` a message is matched by two queries and routed by a
third; `seen`, `steady` and `unlinked` (history) are what was offered to it at some moment and at every moment, and what its firm lost meanwhile. `Library` and `FileStore` write content and row apart: `partial`, `temp` are half-written files, `leftOver` (history)
content that a failure left without a row; one form attaches up to `MaxAssociationBatchSize` items (50 in the code). `Catalogue` puts them side by side: they share the rows of specialists only. Guardrails, tools, MCP servers and the form of keywords are there because their use cases write the rows; of them
only the types are checked, and no property depends on them.

## 3. Runs

| Run | Bounds | Asks |
|---|---|---|
| `keyed_mutex` | 3 goroutines, 2 keys, 3 objects | `MutualExclusion`, the refinement, `LockReturns`. Three goroutines are the holder, one waiting on the evicted object and one that creates the next; a reachable object has a goroutine counted on it, so more objects than goroutines add nothing |
| `turn_alone` | 2 turns, 2 specialists, the engine's mutex with 2 keys and 3 objects, one column for every outcome, no request; either failures and crashes, or a turn of another conversation beside turns that end at the model | turns are serial: `OneTurnAtATime`, `NoRewind`, refinement of `SerialConversation`, `LeadOneStepAhead`. A lock object evicted too early needs a third object to be missed for, hence 3; which column a lead is moved to is `turn_lead`'s question |
| `turn_requests` | 2 turns, 1 request of any kind, 1 specialist, one column for every outcome, failing statements, lost updates of the lead, crashes | `AnswersMatchStep`, `HumanIsNotInterrupted` while the row is overwritten by stale copies |
| `turn_lead` | 2 turns, failing model, tools that move leads and switch specialists | `LeadInStep`, `TurnsReturn` |
| `turn_handoff_holds` | 2 turns, 1 handoff request | the finding of section 5 |
| `inbound` | 3 messages of one conversation and 1 of another, crashes; a turn with 2 calls an answer, 2 iterations, a window of 2 of 3 messages, 4 seconds, 2 leads of which one is another firm's | `OnePlace`, `AllSettled`; `RequestIsSound`, `ToolsTellTruth`, `LoopEnds` |
| `ingest` | 3 overlapping deliveries of 2 messages, 1 writer, 1 note, every fault and crashes | `TriggeredOnce`, `UnreadBounded` |
| `platform` | deliveries one at a time; 1 firm with 3 clients, 3 attempts, 2 requests; 2 streams, channels of 1; lists of 0 to 7 rows, 2 added, pages of 3 or 4 | `MessagesArrive`; `OneClientPerFirm`, `PageSettles`; `StreamsAreTrue`, `PublishersReturn`; `PagesCoverTheList` |
| `back_office` | 2 firms, 3 requests; 5 days in months of 2, 2 administrators, 1 manual payment; the years 2020 to 2032 and Easter from 1583 to 2582; 2 editors, 4 entries | `TenantsAreSound`; `PaymentsAreSound`, `FinalStays`; `CalendarIsRight`; `TrailTellsState` |
| `leads` | 2 funnels, 5 columns each, 2 leads, 3 requests and the tick, 3 automations; part `chain`: two automations that take a moved lead on, over three columns, while they are switched and a third, back or not, is created; part `contacts`: leads of 2 contacts created by 3 requests at once | `BoardIsSound`, `LeadsTellTheirWay`, `RunsEnd` |
| `access` | 4 accounts, 2 firms, 1 invite, 2 groups, 2 columns, 2 or 3 requests, 3 leads | `AccountsAreSound`, `RightsAreSound`, `BalanceIsSound` |
| `catalogue` | 3 specialists, 2 firms, 2 guardrails, 3 steps, 3 rules, 2 products, funnels, documents and files, 2 requests, attached one at a time | `SoleIsDefault`, `ScriptInOrder`, `MatchedAsOffered`, `NothingHalfStored` |

The last six runs but `ingest` ask several questions of components that share constants and not a state space: a variable `part` of the MC module is
chosen initially, says which component moves and where it begins (an empty database, a board with leads, a firm that is billed, a team whose leads are balanced), and never changes. In two parts of `catalogue`
(`steps`, `rules`) and one of `back_office` (`trail`) a behaviour ends with the first race or lost entry, because nothing is claimed after it.

Why the bounds are enough: every property is about at most two requests and something that runs beside them, or about a
request and a fault; where a third makes a difference (the object map, three requests on a firm's status, three picks of a
round robin) there are three. In `access` a member leaves and comes back between the picks. Two-step scripts are the smallest in which a turn can rewind another one, and `GreyZone`
makes score 0 reprovado, 1 humano and 2 aprovado, so that all outcomes occur. `MaxColumns` is five because a funnel is created with five columns: the limit (15 in the code) is then reached at once. `BufferSize` 1 makes
a channel full after one event. Months of two days and years of two months bring due days beyond a month's end, annual plans and a
weekend across a month into five days. `CollectedData`, `SomeCalls` and the other operators of the MC modules hold what the code tells apart:
an empty answer, a call of a tool that is not registered, one without arguments, one on another firm's lead. Unbounded quantities are bounded by
`MaxRest`, `MaxCreated`, `MaxLeads`, `MaxEntries`, `MaxClock`, `MaxTexts`, `MaxClicks` and `MaxTroubles`.

Deadlock is checked for the lock and the turns; elsewhere it is switched off because finite requests and messages are used up.
Symmetry is used only in runs without liveness properties (`turn_alone`, `turn_requests`, `access`, `back_office`, `catalogue`).

### What the compound properties say

- `TenantsAreSound`: no two firms share a document; a blocked firm has its reason and an active one none (a deactivated one keeps whichever it had, and nothing is said of it);
  the history explains the status and the trail follows the history, unless a stale copy was saved or a record failed.
- `PaymentsAreSound`: dates match the status; late only after the grace; due on open days; no month up to the scheduler's mark
  is skipped; a firm with a late payment is shown as a debtor. `CalendarIsRight`: Easter is the one of the ecclesiastical tables, what is remembered of a year are its holidays, no date is pushed by more than four
  days, a grace of n business days is n business days. `FinalStays` (action): deactivated, paid and cancelled stay so but for a save of a copy read before.
- `BoardIsSound`: never two default funnels; indexes of columns distinct and below the limit but for requests past the check; no lead or movement
  on a column that is gone; one lead per contact but for those looked for while another one was being created. `LeadsTellTheirWay`: status is the column's but for an expiration, movements tell the way, a log names an automation.
  `RunsEnd` (liveness): a lead that has expired leaves, unless it is moved or its automation switched off; a request that moved a lead comes back from the runs inside it, unless automations lead back to a column.
- `AccountsAreSound`, `RightsAreSound`, `BalanceIsSound`: one account per invite unless accepts overlapped or failed midway, a revoked invite is useless, sessions were earned,
  owners stay; who is let in held the right at a moment of the question, who is turned away had no source of it all along; round robin gives no member two leads more than another
  as long as members and configuration stay, least load keeps two candidates within as many leads of each other as there are requests, one active group per column unless overlap was not looked at.
- `SoleIsDefault`: a firm left with one specialist has it as default once requests on it are done, unless one failed before its last step.
  `ScriptInOrder`: while no write raced, steps are numbered from 1 without a gap and rules have one number each.
  `MatchedAsOffered`: a message is left without a product only when none was offered to it all along; the one it is matched to was offered to it at one moment, or its firm lost it meanwhile,
  and is no younger than any that was offered all along.
  `NothingHalfStored`: listed documents and media have their whole content, and what a row names is there.
- `OneClientPerFirm`: live clients and open stores are the ones the maps name, but for clients a late logout took out.
  `PageSettles` (liveness): again and again the page shows an error, the conversations or a code that can be scanned, unless its attempt was overtaken before its first code. `StreamsAreTrue`: nobody publishes to a closed channel and toasts are stored notices of their user.
  `PagesCoverTheList`: the pages to the last one show every row that was there, each once if none is added. `TrailTellsState`: the last entries say what is stored.
- `RequestIsSound`, `ToolsTellTruth`: answers once, at most the window's messages in order and none from before the AI was resumed,
  only tools the step allows, each call's result with its id; a tool that tells of a change made it, and one that tells of a failure made none, but for an automation
  triggered by hand and for a move whose movement failed; a lead of another firm is shown by its conversation's history alone, gets a note from an automation alone, and is not moved or scored.
- `LeadInStep`, `LeadOneStepAhead`: the lead's score is the row's between turns where only the model or the send fails; with failing statements and crashes it is ahead by what one step is worth at most,
  because the lead is given the sum of the row that was read. A conversation back at its first step may have the lead of before a reset that died half way. Of a lost update of the lead nothing is said.

### Fairness

- `KeyedMutex`: every goroutine goes on (weak), and `sync.Mutex` hands itself to a waiter in the end
  (strong fairness of the two lock operations): Go's mutex has a starvation mode for exactly that.
- `ConversationTurn`: strong for `Lock`, by the same argument through `LockReturns`; weak for
  the database and funnel calls, which return or fail; strong for the outcome of the model call, because the
  provider's HTTP client has a timeout and the tool loop a maximum of iterations. Nothing is assumed about
  messages or requests arriving.
- `InboundDebounce`: goroutines run and timers expire (weak). `ToolLoop`: statements and calls of the provider return (weak).
- `MessageIngest`: a delivery is received and runs to its end (weak), where deliveries come one by one and nothing fails.
- `WaClients`: requests and attempts run to their end, a connected client that pairs gives its first code, the library retries and hands over its logout events (all weak). A page that shows
  the spinner or a code polls (`web/templates/whatsapp/qr.html`: every 2 and 30 seconds), a redirect loads the page. Codes last for minutes, so that they run out after a polling page has read the first one (`QrTimeout`); that they run out
  is fair for a client that lost its connection, scanned or not. An error does not poll. Scanning, clicking and losing a connection are not fair.
- `Notices`: the notifier, publishers and streams go on (weak); pages need not come or leave.
- `Automations`: the ticker, and the request and tick slot it shares the board with, are served (weak). Other requests are not fair.

## 4. Proofs

TLAPS proves the following for every value of the constants: any number of requests, turns, firms, leads and rows, with and without
faults. Assumptions are the named ASSUMEs of the modules (types of the constants, finiteness of some sets, distinctness of null
values, and of the IDs that sort accounts), which TLC evaluates on every run. A few theorems have a hypothesis of their own, stated in the theorem:

- `NoRewindHolds`, `ImplementsSerialConversationHolds` and `LockedTurnsAreSerial`: `Request = {}`. With requests that write the row from outside both are false (section 5).
- `LeadOneStepAheadHolds`: `ScoresAreTold`, no requests, no lost update of the lead and no tool that writes a score of its own; statements may fail and the process die. `turn_alone` is such an instance.
- `LeadInStepHolds`: `LeadIsTold`, the same without failing statements and crashes. `turn_lead` is such an instance.
- `BackOfficeInvariantHolds`, `PaymentsStaySound` and `FinalStaysHolds`: `OpenDaysGoOn`, after every day there is an open one. The real calendar has one: `RealDaysGoOn` proves it
  for every day, and `CalendarStaysRight` that it is at most four days away. Without it the code's loop does not end.

| Theorem | Module | States |
|---|---|---|
| `InvariantHolds`, `EntriesHold`, `KeysIndependentHolds`, `MutualExclusionHolds`, `ImplementsKeyedLockHolds` | `KeyedMutexProofs` | `MutualExclusion`, the refinement |
| `TurnInvariantHolds`, `OneTurnAtATimeHolds`, `AnswersMatchStepHolds`, `HumanIsNotInterruptedHolds`, `NoRewindHolds`, `ImplementsSerialConversationHolds`, `LeadOneStepAheadHolds`, `LeadInStepHolds`, `LockedInvariantHolds`, `LockedTurnsAreTurns`, `LockedTurnsAreAlone`, `LockedTurnsAreSerial` | `ConversationTurnProofs` | `OneTurnAtATime`, `AnswersMatchStep`, `HumanIsNotInterrupted`, `NoRewind`, the refinement, `LeadOneStepAhead`, `LeadInStep` |
| `InboundInvariantHolds`, `HandedOnceHolds`, `OnePlaceHolds`, `NoneStrandedHolds`, `ToolInvariantHolds`, `ToolsStayTrue`, `RequestStaysSound` | `InboundDebounceProofs` | `OnePlace`, `ToolsTellTruth`, `RequestIsSound` |
| `IngestInvariantHolds`, `TriggeredOnceHolds`, `UnreadBoundedHolds`, `ClientsSafe`, `StreamsStayTrue`, `PagesStayCovered`, `TrailStaysTrue` | `PlatformProofs` | `TriggeredOnce`, `UnreadBounded`, `OneClientPerFirm`, `StreamsAreTrue`, `PagesCoverTheList`, `TrailTellsState` |
| `TenantInvariantHolds`, `TenantsStaySound`, `BackOfficeInvariantHolds`, `PaymentsStaySound`, `FinalStaysHolds`, `CalendarStaysRight`, `RealDaysGoOn` | `BackOfficeProofs` | `TenantsAreSound`, `PaymentsAreSound`, `FinalStays`, `CalendarIsRight` |
| `BoardStaysSound`, `LeadsWayHolds` | `LeadsProofs` | `BoardIsSound`, `LeadsTellTheirWay` |
| `MembersSafe`, `RightsStaySound`, `BalanceStaysSound` | `AccessProofs` | `AccountsAreSound`, `RightsAreSound`, `BalanceIsSound` |
| `MatchesAsOffered`, `DocumentsHold`, `FilesHold`, `SoleStaysDefault`, `ScriptStaysInOrder`, `NothingStaysHalfStored` | `CatalogueProofs` | `MatchedAsOffered`, `SoleIsDefault`, `ScriptInOrder`, `NothingHalfStored` |

The theorems are about each component's own specification (`TenantSpec`, `LeadsSpec`, ...), which starts from an empty or initial state; the MC modules add states to begin with
(a board with leads) and restrict which requests a part has.

### The arguments

Most invariants have the same shape: the property is about rows, rows are written from copies, so the invariant says what *every copy
in flight* may be relied on for. It is worth saying which facts those are, for each module.

**KeyedMutexProofs.** `LockInvariant` adds to exclusion that the map's mutex is held
by whoever is inside a critical section, that a counted goroutine's object is in the map (`EntryPinned`), that an object serves one key and that counts are exact.
Exclusion alone is not inductive: it depends on nobody creating a second object for a key while the first is in use, hence on `RefsExact`.
The refinement maps a step to Ask, Grant, Give or a stutter.

**ConversationTurnProofs.** `TurnInvariant` is types, one turn past the lock, presence of every copy that will be
saved, `CopiesMatchStep` (no copy is torn, the requests' included, so any overwriting, however stale, keeps `AnswersMatchStep`) and `MuteSeen` (a turn between the find
and the handoff check whose message came into a human's hands holds a copy that has the flag). Without requests, `CopiesFresh`: the
copies of the turn that holds the lock have the row's progress or one step more, so a save is a step of `SerialConversation` or a stutter.
`LeadAhead` adds that a step that was scored and is not yet saved is what the lead was given, so that the save catches up with it and a turn that is cut off leaves it one step ahead;
without failing statements and crashes `LeadFollows` says where the lead's score stands at each place of a turn. With the mutex (`LockedInvariant`), a turn's place in `Lock` goes with its place in `HandleMessages`, and
a turn of this conversation that is counted points at the conversation's entry; so `Acquire` finds that entry's mutex free only when no turn runs (`FreeMutexFreeLock`), which is what the abstract lock asks.
The invariant of the mutex is `KeyedMutexProofs`', cited through an instance.

**InboundDebounceProofs.** `InboundInvariant` says where a message can be by its stage: nowhere before `Add`,
then in `pending`, in one timer's batch, handed or lost; `timers` points only to
timers of the same conversation, and a timer can be stopped only by an `Add` that starts another. `ToolInvariant` says of the turn, phase by phase, what of the request has been built:
its lines (`LinesSound`), its messages (`MessagesSound`), its tools (`ToolsSound`), and of the loop that results answer the calls in order and tell what was done (`Truthful`). That needs to know of a call between two statements whose lead it is and, when a movement is missing, that its move is saved
(`CallSound`), and of every recorded call that it came before the current one (`NumbersSound`), so that no failure is told of a change.
Messages in order needs that sorting a finite set yields each element once and ascending, proved by well-founded induction on cardinality.

**PlatformProofs.** *Ingestion*: past the insert a delivery is the only one of
its message; the unique key, not the lookup at line 89, keeps that. No copy of the unread count exceeds the
number of stored messages, and one about to be incremented is below it. *Clients*: `LiveOrRetrying`, `LoggedOutIsDown` and `ClientsTracked` say where a client that is connected can be found; which attempt drains which client is typed (`AttemptsTyped`). *Notices*: `QueuesTrue`,
`PublishersTrue` (what a publisher holds under the read lock is open), `ToldTrue` and `ToastsTrue` carry a notification's user and office
from the row through channels to the page. *Pages*: `PagingInvariant` says that the reader stands on a page that `p` others of `L` rows precede, read when `b` rows had been
added, with every row down to its end seen; a link moves one page, a row on top shifts all. *Trail*: `AllTell` says of each firm without an unwritten
difference that the last entries tell the row and that differences are linked, and of one with such a difference that it continues them.

**AccessProofs.** `MembersInvariant` says what a request is in the middle of: an accept has read an invite that was not revoked, or revoked is used when it
comes back (`RevokedIsUsed`, because `Save` inserts a deleted row again); two accepts of one invite are apart (`AcceptsApart`) unless raced; memberships of the past cover what sessions carry.
`RightsInvariant` says for each stage of the permission question which sources of the permission it has excluded
(`QuestionsHold`) and that nothing belongs to a deleted group.
`BalanceInvariant` needs more than `BalanceIsSound` says. *Round robin*: the counts alone do not tell whose turn it is, so `TurnsEven` orders the members by how far off their next turn is (`TurnsAway`) and says that whoever is nearer had as many
as the others or one less; a pick puts its member at the end of that line, where it has one more, and moves the others up (`LineMovesUp`). *Least load*: leads on their way count (`Coming`), one per request at most, because a
pick is made on counts that others are about to change. *Overlap*: of two open forms one is unchecked (`FormsApart`), a form that looks knows all groups on its columns (`PeersKnown`), and past the look
none of them has a configuration (`RivalsOff`); that a configuration that is there is always on, by the default of section 5, is part of the types.

**BackOfficeProofs.** `TenantInvariant`: a copy is as consistent as a row (`CopiesConsistent`), each firm's history balances with its status and with the request
that owes it an entry (`HistoryBalances`), and the trail with the history. `BillingInvariant`: `CronSound` says what the run in progress has done, `AdminsSound` what
administrators' copies are, and `Gapless` that months up to the mark have their payment. The loops of the calendar are recursive functions: that each ends on the first open day, and that the
rounds of the grace are so many open days later (`GraceCounts`), is proved by taking the least counterexample.
*Calendar*: Easter is right because each correction of the tables is a term of `computeEaster` (`FullMoonIs`, `EpactIs`, `DominicalIs`) and its division by 451 is 1 exactly when the
tables move the full moon by a day and that changes the Sunday. The year of a day is one of three guesses (`MarchIsNear`, `YearIs`). No date is pushed far (`OpenSoon`) because of five days in a row three are weekdays
(`ThreeWeekdays`) and no five days hold three holidays (`NoThree`), the movable ones being bound to dates by Easter's falling between 22 March and 25 April (`EasterIs`).

**LeadsProofs.** `BoardInvariant` and `AutoInvariant`. Stale copies and stacks of runs carry only facts that stay true: funnels and leads are not deleted, or not named again, and a column keeps its
funnel and type while it is there. The limit of columns is a count of columns and of requests past the check; two elected defaults would be two requests past the same lookup (`OneElected`). `WaysHold` says that a lead whose saves did not race has a
chain of movements, with at most one still to be written. `ContactsHold` says that of the
leads of a contact and the creations on their way at most one is no twin: whoever looks while one is on its way becomes a twin, and saves keep the contact that was read.

**CatalogueProofs.** *Specialists*: a firm whose rows a request changed is that request's until it is settled or written off, and `SoleIsDefault` holds of all others. *Script*: while no write raced,
what a request carries is current, so renumbering closes exactly the gap it knows of, and the second save of an exchange completes it; `Max` of a finite set is found by well-founded
induction. *Products*: `MatchSound` and `MatchSeen` say of a message in flight that what was offered to it all along is offered now and among the products read, and that what is on, in its text and among them was seen or lost. *Library*, *Files*: `OwnersApart`, `FlightsApart` (an id belongs to one request), `InsertsWhole` and `ContentKnown` say that a row is inserted only after its content,
`LinksHold` and `UnderOwnLead` that what is named is there. *Catalogue*: `CatalogueSpec` implies the specification of each part.

### Only model-checked

- Liveness, which needs fairness and ENABLED and is out of TLAPS' reach: `LockReturns`, `TurnsReturn`, `AllSettled`, `LoopEnds`, `MessagesArrive`, `PageSettles`, `PublishersReturn`, `RunsEnd`.

Every invariant and every action property of a passing run is stated by a theorem.

## 5. Where code and documents disagree

One is a run whose property TLC violates: `turn_handoff_holds`. A handoff requested while the model is answering is overwritten by the turn's
save, and the AI goes on answering (`ai/application/conversation_engine.go:529` against `docs/artefatos/F16-motor-ia/arquiteto-design/v1.md:350` and `:232`).

Met on the way and left without a run. The models have these behaviours, and properties exclude them by name or by hypothesis:

- Outcome humano activates the handoff in the row, and the save of the same turn clears it; the same for
  `switch_specialist`. Neither needs concurrency.
- Two current leads of one contact: the first message and a note may both find none (`funnel/application/create_lead.go:84`), although
  `migrations/000062_relax_leads_tenant_contact_unique.up.sql` says that the lookup enforces one. `BoardIsSound` calls such
  leads twins and says that this is the only way to them.
- Batches are lost when the context of a message is consumed by the timer of the window before (`ai/module.go:338`). Nobody is told.
- A crash after a message's insert leaves a message that a redelivery will not process.
- A message in the second of `ResumedAt` is dropped from the request and replaced by "oi" (`conversation_state.go:93`).
- An unknown provider ends a turn in silence (`conversation_engine.go`, from line 350), where the comment says never to leave the client staring at silence.
- Load balancing switched off is stored switched on: the column's default is true and gorm leaves false out of an insert (`auth/infrastructure/gorm_load_balance_repo.go:20`).
- The audit list without page and size says rows 1 to 0 (`audit/interfaces/http/handler.go:134-144`, against the comment at line 93). `OpeningAssumption` opens it with both.
- Notification preferences are stored and never consulted.
- The parser of keywords takes quoted ones with commas (`product/interfaces/http/handler.go:526-531`), but the form shows them without quotes (line 167): saving it unchanged splits them.
- A move may name a funnel that is not the column's (`funnel/application/move_lead.go:95-107`).
- A threshold may be above what the steps can reach, against `docs/artefatos/F05-especialistas-treinamento/po-stories/v1.md:217`.
- Columns created while a funnel's defaults are still being added may pass the limit, and so may two creates at once.
- Automations whose moves form a cycle recurse until the stack ends (`automation/application/engine.go:64`); nothing in the panel prevents them. `RunsEnd` excepts boards that had one while the run went on, one of switched-off automations included.
- An automation's error goes into its log and nowhere else: `engine.go:92-108` returns nothing, and `TriggerByID` tells the panel and the model "executada com sucesso" of a change that was not made.
- `get_conversation_history`, `switch_specialist` and the notes of automations do not ask whose conversation, specialist or lead they are given (`ai/infrastructure/tools/get_conversation_history.go:57`,
  `ai/infrastructure/tool_adapters.go:370`). The model names them, and may name another firm's.
- The ticker does not look at a lead again before it archives or deletes it (`automation/application/ticker.go:80`): one that was moved or answered since the listing is expired all the same.
  `docs/artefatos/F08-F09-usuarios-permissoes-automacoes/design-v1.md:338` has the action verify the time.
- A guardrail attached between the count of its specialists and its deletion is deleted out from under them, against the comment at `specialist/application/delete_guardrail.go:22-24`.
- The page that shows a WhatsApp code waits for ever when another connect replaces the client of its attempt before the first code: the channel of codes is never closed, the attempt is never done
  (`whatsapp/interfaces/http/handler.go:74-75, 97`, `whatsapp/infrastructure/whatsmeow_provider.go:46-49`), and the comment at `handler.go:202`, "show loading (HTMX will retry)", has it retry for nothing. An error page has a button and does not retry.
- The logout of a client that was replaced takes the new one out of the map (`whatsmeow_provider.go:271`): it goes on receiving and nobody can disconnect it.
- The daily refresh and administrators save whole stale payments: one that was settled or cancelled meanwhile may be open again (`pagamentos/application/refresh_overdue_statuses.go:40`).
- Two picks of a round robin that overlap give both leads to one member (`auth/infrastructure/load_balance_picker.go:198`).
- The unread count loses messages that come while a reader or a sender holds a copy.

## 6. Not modelled, and the plan

Not modelled, because no state that a property is about is in them: observability, UI helpers and configuration (logging, tracing, metrics, templates); dashboard and landing pages (queries and
rendering); the panel pages of the conversation, the funnel and the playground (parsing and rendering around use cases that are modelled); start and shutdown of the process (wiring; what it
decides is mapped where it matters). Out of the models by abstraction: HTTP parsing, passwords, hashing and signatures of tokens, the WhatsApp protocol, the providers' services, guardrail
texts, prompts, message status, phone numbers of products, visible columns of a view profile.

What is left, in this order:

1. A refinement for payments (paid and cancelled are final) and for the debouncer (a bag of messages that empties in turns).


-------------------------------- MODULE Notices --------------------------------
(***************************************************************************)
(* The event bus (src/internal/shared/events), the goroutine that makes    *)
(* notifications of assigned leads, the streams of pages, and what users   *)
(* do with their notifications (src/internal/notification).                *)
(*                                                                         *)
(* Publish holds the bus's read lock while it sends to each channel in     *)
(* turn; a full channel loses the event. Subscribing and leaving take the  *)
(* lock for writing. The goroutine publishes to a bus it is itself         *)
(* subscribed to.                                                          *)
(***************************************************************************)
EXTENDS Integers, FiniteSets, Sequences

CONSTANTS
  Office, Reader,  \* tenants and users
  Stream,          \* pages' streams, each opened once
  LeadPublisher,   \* goroutines that create a lead, one each
  NoticeId,        \* ids of notifications
  BufferSize,      \* 100
  NoticeFaults,    \* {"db"}: an insert or a count may fail
  Notifier         \* the goroutine of NewModule, and its channel

ASSUME NoticeAssumption == BufferSize \in Nat \ {0} /\ Notifier \notin Stream \cup LeadPublisher

VARIABLES
  subscribers, \* channels of streams, by office
  queue,       \* what is in each channel
  closed,      \* channels that are closed
  publishing,  \* what each publisher is doing
  stream,      \* state of each stream
  notifier,    \* state of the goroutine
  notice,      \* rows of notifications, a function of the ids that have one
  preference,  \* rows of notification_preferences: user and whether in_app is on
  toasts,      \* history: what each stream has shown
  failed       \* history: notes whose toast was shown without a count

bus == <<subscribers, queue, closed>>
noticeVars == <<bus, publishing, stream, notifier, notice, preference, toasts, failed>>

EventType == {"lead-created", "lead-responsible-assigned", "notification"}
NotificationRow == [office : Office, user : Reader, read : BOOLEAN]
PreferenceRow == [Reader -> {"none", "on", "off"}]
Channel == Stream \cup {Notifier}
Quiet == [phase |-> "none", event |-> [type |-> "none"], left |-> {}, next |-> [type |-> "none"]]
Waiting == [phase |-> "wait"]

Publisher == LeadPublisher \cup {Notifier}
NoEvent == [type |-> "none"]
Event ==
  [type : {"lead-created"}, office : Office]
    \cup [type : {"lead-responsible-assigned"}, office : Office, user : Reader]
    \cup [type : {"notification"}, office : Office, user : Reader, note : NoticeId]
Publishing ==
  [phase : {"none", "done", "send"}, event : Event \cup {NoEvent}, left : SUBSET Channel, next : Event \cup {NoEvent}]
StreamState ==
  [phase : {"none"}]
    \cup [phase : {"open", "leave", "left"}, office : Office, user : Reader]
    \cup [phase : {"toast"}, office : Office, user : Reader, note : NoticeId]
NotifierState ==
  [phase : {"wait"}]
    \cup [phase : {"insert"}, office : Office, user : Reader]
    \cup [phase : {"publish"}, office : Office, user : Reader, note : NoticeId]
NoticeTypeOK ==
  /\ notice \in [DOMAIN notice -> NotificationRow] /\ IsFiniteSet(DOMAIN notice)
  /\ subscribers \in [Office -> SUBSET Stream] /\ closed \subseteq Stream
  /\ queue \in [Channel -> Seq(Event)]
  /\ publishing \in [Publisher -> Publishing]
  /\ stream \in [Stream -> StreamState]
  /\ notifier \in NotifierState
  /\ toasts \in [Stream -> SUBSET [note : NoticeId, count : Nat]]

NoticeInit ==
  /\ subscribers = [o \in Office |-> {}] /\ queue = [c \in Channel |-> <<>>] /\ closed = {}
  /\ publishing = [p \in LeadPublisher \cup {Notifier} |-> Quiet]
  /\ stream = [s \in Stream |-> [phase |-> "none"]] /\ notifier = Waiting
  /\ notice = <<>> /\ preference = [u \in Reader |-> "none"]
  /\ toasts = [s \in Stream |-> {}] /\ failed = {}

-----------------------------------------------------------------------------
(* The bus. *)

Locked == \E p \in LeadPublisher \cup {Notifier} : publishing[p].phase = "send"
SendsTo(p, events) ==
  publishing' = [publishing EXCEPT ![p] =
    [phase |-> "send", event |-> Head(events), left |-> subscribers[Head(events).office] \cup {Notifier},
     next |-> IF Len(events) > 1 THEN events[2] ELSE [type |-> "none"]]]

\* The office's channels come before the goroutine's.
Turn(p, c) ==
  publishing[p].phase = "send" /\ c \in publishing[p].left /\ (c = Notifier => publishing[p].left = {c})
\* Mutant: a send waits for room.
SendOrWait(p, c) ==
  /\ Turn(p, c)
  /\ Len(queue[c]) < BufferSize
  /\ queue' = [queue EXCEPT ![c] = Append(@, publishing[p].event)]
  /\ publishing' = [publishing EXCEPT ![p].left = @ \ {c}]
  /\ UNCHANGED <<subscribers, closed, stream, notifier, notice, preference, toasts, failed>>
Send(p, c) ==
  /\ Turn(p, c)
  /\ queue' = IF Len(queue[c]) < BufferSize THEN [queue EXCEPT ![c] = Append(@, publishing[p].event)] ELSE queue
  /\ publishing' = [publishing EXCEPT ![p].left = @ \ {c}]
  /\ UNCHANGED <<subscribers, closed, stream, notifier, notice, preference, toasts, failed>>
\* The lock is given back; a second event takes it again.
Sent(p) ==
  /\ publishing[p].phase = "send" /\ publishing[p].left = {}
  /\ IF publishing[p].next.type # "none" THEN SendsTo(p, <<publishing[p].next>>)
     ELSE publishing' = [publishing EXCEPT ![p] =
            IF p = Notifier THEN Quiet ELSE [Quiet EXCEPT !.phase = "done"]]
  /\ UNCHANGED <<bus, stream, notifier, notice, preference, toasts, failed>>

Subscribe(s, o) ==
  /\ ~Locked
  /\ subscribers' = [subscribers EXCEPT ![o] = @ \cup {s}]
  /\ UNCHANGED <<queue, closed>>
\* Mutant: the channel is closed while a publisher may hold it.
CleanupUnlocked(s) ==
  /\ subscribers' = [o \in Office |-> subscribers[o] \ {s}]
  /\ closed' = closed \cup {s} /\ queue' = [queue EXCEPT ![s] = <<>>]
Cleanup(s) ==
  /\ ~Locked
  /\ subscribers' = [o \in Office |-> subscribers[o] \ {s}]
  /\ closed' = closed \cup {s} /\ queue' = [queue EXCEPT ![s] = <<>>]

-----------------------------------------------------------------------------
(* A lead that is created tells of itself and of who got it. *)

CreateLeadPublishes(p, o, u) ==
  /\ publishing[p].phase = "none"
  /\ SendsTo(p, <<[type |-> "lead-created", office |-> o],
                  [type |-> "lead-responsible-assigned", office |-> o, user |-> u]>>)
  /\ UNCHANGED <<bus, stream, notifier, notice, preference, toasts, failed>>

\* The goroutine: other events are passed over, an assignment is notified of.
ConsumeResponsibleAssigned ==
  LET e == Head(queue[Notifier]) IN
  /\ notifier.phase = "wait" /\ publishing[Notifier].phase = "none" /\ queue[Notifier] # <<>>
  /\ queue' = [queue EXCEPT ![Notifier] = Tail(@)]
  /\ notifier' = IF e.type = "lead-responsible-assigned"
                 THEN [phase |-> "insert", office |-> e.office, user |-> e.user] ELSE Waiting
  /\ UNCHANGED <<subscribers, closed, publishing, stream, notice, preference, toasts, failed>>
NewNotification(o, u) == [office |-> o, user |-> u, read |-> FALSE]
CreateNotification(n) ==
  /\ notifier.phase = "insert" /\ n \notin DOMAIN notice
  /\ \/ /\ notice' = [x \in DOMAIN notice \cup {n} |->
             IF x = n THEN NewNotification(notifier.office, notifier.user) ELSE notice[x]]
        /\ notifier' = [phase |-> "publish", office |-> notifier.office, user |-> notifier.user, note |-> n]
     \/ "db" \in NoticeFaults /\ notifier' = Waiting /\ UNCHANGED notice
  /\ UNCHANGED <<bus, publishing, stream, preference, toasts, failed>>
Notify ==
  /\ notifier.phase = "publish" /\ publishing[Notifier].phase = "none"
  /\ SendsTo(Notifier, <<[type |-> "notification", office |-> notifier.office, user |-> notifier.user,
                          note |-> notifier.note]>>)
  /\ notifier' = Waiting
  /\ UNCHANGED <<bus, stream, notice, preference, toasts, failed>>

-----------------------------------------------------------------------------
(* The stream of a page: events of its office, notifications of its user.   *)

OpenStream(s, o, u) ==
  /\ stream[s].phase = "none" /\ Subscribe(s, o)
  /\ stream' = [stream EXCEPT ![s] = [phase |-> "open", office |-> o, user |-> u]]
  /\ UNCHANGED <<publishing, notifier, notice, preference, toasts, failed>>
StreamNotifications(s) ==
  LET e == Head(queue[s]) IN
  /\ stream[s].phase = "open" /\ queue[s] # <<>>
  /\ queue' = [queue EXCEPT ![s] = Tail(@)]
  /\ stream' = IF e.type = "notification" /\ e.user = stream[s].user
               THEN [stream EXCEPT ![s] =
                       [phase |-> "toast", office |-> @.office, user |-> @.user, note |-> e.note]]
               ELSE stream
  /\ UNCHANGED <<subscribers, closed, publishing, notifier, notice, preference, toasts, failed>>
CountUnread(o, u) ==
  Cardinality({n \in DOMAIN notice : notice[n].office = o /\ notice[n].user = u /\ ~notice[n].read})
\* A count that fails is shown as none.
EmitToast(s) ==
  LET q == stream[s] IN
  /\ q.phase = "toast"
  /\ \/ /\ toasts' = [toasts EXCEPT ![s] = @ \cup {[note |-> q.note, count |-> CountUnread(q.office, q.user)]}]
        /\ UNCHANGED failed
     \/ /\ "db" \in NoticeFaults
        /\ toasts' = [toasts EXCEPT ![s] = @ \cup {[note |-> q.note, count |-> 0]}]
        /\ failed' = failed \cup {q.note}
  /\ stream' = [stream EXCEPT ![s] = [phase |-> "open", office |-> q.office, user |-> q.user]]
  /\ UNCHANGED <<bus, publishing, notifier, notice, preference>>
LeavePage(s) ==
  /\ stream[s].phase = "open"
  /\ stream' = [stream EXCEPT ![s].phase = "leave"]
  /\ UNCHANGED <<bus, publishing, notifier, notice, preference, toasts, failed>>
CloseStream(s) ==
  /\ stream[s].phase = "leave" /\ Cleanup(s)
  /\ stream' = [stream EXCEPT ![s].phase = "left"]
  /\ UNCHANGED <<publishing, notifier, notice, preference, toasts, failed>>

-----------------------------------------------------------------------------
(* What users do. *)

NoticeOnly == UNCHANGED <<bus, publishing, stream, notifier, preference, toasts, failed>>
MarkRead(n) ==
  /\ n \in DOMAIN notice /\ ~notice[n].read
  /\ notice' = [notice EXCEPT ![n].read = TRUE]
  /\ NoticeOnly
MarkAllRead(o, u) ==
  /\ CountUnread(o, u) > 0
  /\ notice' = [n \in DOMAIN notice |->
       IF notice[n].office = o /\ notice[n].user = u THEN [notice[n] EXCEPT !.read = TRUE] ELSE notice[n]]
  /\ NoticeOnly
\* A row that is new is stored with the column's default, on, whatever was
\* asked for: GORM leaves a false out of the INSERT.
CreateOrUpdate(u, enabled) ==
  preference' = [preference EXCEPT ![u] = IF preference[u] = "none" \/ enabled THEN "on" ELSE "off"]
SetPreference(u, enabled) ==
  /\ CreateOrUpdate(u, enabled)
  /\ UNCHANGED <<bus, publishing, stream, notifier, notice, toasts, failed>>

-----------------------------------------------------------------------------
NotifierStep ==
  \/ ConsumeResponsibleAssigned \/ Notify
  \/ \E n \in NoticeId : n = Cardinality(DOMAIN notice) + 1 /\ CreateNotification(n)
PublisherStep(p) == Sent(p) \/ \E c \in Channel : Send(p, c)
StreamStep(s) == StreamNotifications(s) \/ EmitToast(s) \/ CloseStream(s)
NoticeNext ==
  \/ NotifierStep \/ \E p \in LeadPublisher \cup {Notifier} : PublisherStep(p)
  \/ \E o \in Office, u \in Reader :
       \/ \E p \in LeadPublisher : CreateLeadPublishes(p, o, u)
       \/ \E s \in Stream : OpenStream(s, o, u)
       \/ MarkAllRead(o, u)
  \/ \E s \in Stream : StreamStep(s) \/ LeavePage(s)
  \/ \E n \in NoticeId : MarkRead(n)
  \/ \E u \in Reader, e \in BOOLEAN : SetPreference(u, e)
NoticeSpec == NoticeInit /\ [][NoticeNext]_noticeVars
-----------------------------------------------------------------------------
\* No publisher is left with a channel that was closed, whoever leaves while
\* it sends (a send on it would stop the process), and a page is shown the
\* notifications of its user and office only, each stored before it is shown
\* and counted in the badge that comes with it, unless it was read meanwhile
\* or the count failed (memory_bus.go:21-66, notify.go:49-62,
\* notification handler.go:97-133).
StreamsAreTrue ==
  /\ NoticeTypeOK
  /\ \A p \in LeadPublisher \cup {Notifier} : publishing[p].left \cap closed = {}
  /\ \A o \in Office : subscribers[o] \cap closed = {}
  /\ \A s \in Stream : \A t \in toasts[s] :
       /\ t.note \in DOMAIN notice
       /\ notice[t.note].office = stream[s].office /\ notice[t.note].user = stream[s].user
       /\ t.count = 0 => notice[t.note].read \/ t.note \in failed

\* Whoever publishes is done in the end, the goroutine that publishes into
\* its own full channel included, and it comes to every event it was left
\* (memory_bus.go:25-40, module.go:64-103).
PublishersReturn ==
  /\ \A p \in LeadPublisher : []<>(publishing[p].phase # "send")
  /\ []<>(queue[Notifier] = <<>> /\ notifier.phase = "wait" /\ publishing[Notifier].phase # "send")

=============================================================================

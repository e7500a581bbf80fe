----------------------------- MODULE MessageIngest -----------------------------
(***************************************************************************)
(* ReceiveMessageUseCase for the messages of one contact, and what writes  *)
(* the same rows beside it: SendMessageUseCase (the answers of the AI and  *)
(* of the panel), GetConversationMessagesUseCase (which marks the          *)
(* conversation read) and the notes adapter (which promotes a conversation *)
(* to a lead).  Each row is read, changed in memory and saved whole, and   *)
(* every find and every save is an action of its own.                      *)
(*                                                                         *)
(* A delivery is one call of the message handler; the same WhatsApp        *)
(* message may be delivered again.  The handler's error is discarded       *)
(* (whatsapp/module.go:42), so a delivery that fails is not retried.       *)
(***************************************************************************)
EXTENDS Naturals, FiniteSets

CONSTANTS
  WaMessage,    \* messages, named by their WhatsApp id
  Delivery, MessageOf,  \* deliveries and the message each one carries
  Conv,         \* primary keys for conversations; First takes the least
  Writer,       \* sends and reads that may overlap
  Noter,        \* note requests that may overlap
  Overlap,      \* deliveries overlap: the playground's HTTP requests, or two provider clients
  Faults,       \* what may fail
  NoConv

ASSUME IngestAssumption ==
  /\ MessageOf \in [Delivery -> WaMessage]
  /\ Conv \subseteq Nat /\ NoConv \notin Conv
  /\ Overlap \in BOOLEAN
  /\ Faults \subseteq {"db", "lead", "crash"}

VARIABLES
  contact,   \* the contacts row exists
  exists,    \* the conversations of the contact, all open
  unread,    \* unread_count of each conversation
  stored,    \* messages.whatsapp_msg_id: the conversation each message is in
  leads,     \* leads of the contact
  pc,        \* where each delivery is
  conv,      \* a delivery's conversation
  copy,      \* the unread_count of a delivery's copy
  writer,    \* each send or read: its conversation and the unread_count it will save
  noter,     \* each note request
  triggered  \* history: how often the AI handler was started for a message

rows == <<contact, exists, unread, stored, leads>>
locals == <<pc, conv, copy>>
vars == <<rows, locals, writer, noter, triggered>>

Phase ==
  {"idle", "dedup", "contact", "newContact", "conv", "newConv", "message", "update",
   "findLead", "createLead", "trigger", "over"}

Writing == [stage : {"idle", "save"}, conv : Conv \cup {NoConv}, unread : Nat]
NotWriting == [stage |-> "idle", conv |-> NoConv, unread |-> 0]

TypeOK ==
  /\ contact \in BOOLEAN
  /\ exists \subseteq Conv
  /\ unread \in [Conv -> Nat]
  /\ stored \in [WaMessage -> Conv \cup {NoConv}]
  /\ leads \in Nat
  /\ pc \in [Delivery -> Phase]
  /\ conv \in [Delivery -> Conv \cup {NoConv}]
  /\ copy \in [Delivery -> Nat]
  /\ writer \in [Writer -> Writing]
  /\ noter \in [Noter -> {"idle", "create", "over"}]
  /\ triggered \in [WaMessage -> Nat]

Init ==
  /\ contact \in BOOLEAN
  /\ exists = {}
  /\ unread = [c \in Conv |-> 0]
  /\ stored = [m \in WaMessage |-> NoConv]
  /\ leads = 0
  /\ pc = [d \in Delivery |-> "idle"]
  /\ conv = [d \in Delivery |-> NoConv]
  /\ copy = [d \in Delivery |-> 0]
  /\ writer = [w \in Writer |-> NotWriting]
  /\ noter = [n \in Noter |-> "idle"]
  /\ triggered = [m \in WaMessage |-> 0]

First(convs) == CHOOSE c \in convs : \A e \in convs : c <= e

Goto(d, phase) == pc' = [pc EXCEPT ![d] = phase]
Stored(d) == stored[MessageOf[d]] # NoConv
Busy(d) == pc[d] \notin {"idle", "over"}

-----------------------------------------------------------------------------
(* Execute, for one delivery. *)

Deliver(d) ==
  /\ pc[d] = "idle"
  /\ Overlap \/ \A e \in Delivery : ~Busy(e)
  /\ Goto(d, "dedup")
  /\ UNCHANGED <<rows, conv, copy, writer, noter, triggered>>

\* "already processed": the message row is there, whatever became of the message.
Discard(d) ==
  /\ pc[d] = "dedup"
  /\ Stored(d)
  /\ Goto(d, "over")
  /\ UNCHANGED <<rows, conv, copy, writer, noter, triggered>>

NotDuplicate(d) ==
  /\ pc[d] = "dedup"
  /\ ~Stored(d)
  /\ Goto(d, "contact")
  /\ UNCHANGED <<rows, conv, copy, writer, noter, triggered>>

FindContact(d) ==
  /\ pc[d] = "contact"
  /\ Goto(d, IF contact THEN "conv" ELSE "newContact")
  /\ UNCHANGED <<rows, conv, copy, writer, noter, triggered>>

\* contacts is unique on (tenant, whatsapp_id): the loser of a race fails, and
\* with it the delivery.
CreateContact(d) ==
  /\ pc[d] = "newContact"
  /\ contact' = TRUE
  /\ Goto(d, IF contact THEN "over" ELSE "conv")
  /\ UNCHANGED <<exists, unread, stored, leads, conv, copy, writer, noter, triggered>>

\* FindByContactID: the open conversations of the contact.
OpenConvs == exists

FindConv(d) ==
  /\ pc[d] = "conv"
  /\ IF OpenConvs = {}
     THEN Goto(d, "newConv") /\ UNCHANGED <<conv, copy>>
     ELSE /\ Goto(d, "message")
          /\ conv' = [conv EXCEPT ![d] = First(OpenConvs)]
          /\ copy' = [copy EXCEPT ![d] = unread[First(OpenConvs)]]
  /\ UNCHANGED <<rows, writer, noter, triggered>>

\* Nothing makes a contact's open conversation unique.
CreateConv(d, c) ==
  /\ pc[d] = "newConv"
  /\ c \notin exists
  /\ exists' = exists \cup {c}
  /\ conv' = [conv EXCEPT ![d] = c]
  /\ copy' = [copy EXCEPT ![d] = 0]
  /\ Goto(d, "message")
  /\ UNCHANGED <<contact, unread, stored, leads, writer, noter, triggered>>

\* messages is unique on whatsapp_msg_id: the loser of a race returns nil.
\* Mutant: the duplicate is not noticed.
NoUniqueKey(d) == FALSE
Rejected(d) == Stored(d)

CreateMessage(d) ==
  /\ pc[d] = "message"
  /\ IF Rejected(d)
     THEN Goto(d, "over") /\ UNCHANGED stored
     ELSE /\ Goto(d, "update")
          /\ stored' = [stored EXCEPT ![MessageOf[d]] = conv[d]]
  /\ UNCHANGED <<contact, exists, unread, leads, conv, copy, writer, noter, triggered>>

\* Conversation.RecordMessage: an incoming message counts, an outgoing one does not.
\* Mutant: an answer counts too.
CountsAnswers(n, incoming) == n + 1
RecordMessage(n, incoming) == IF incoming THEN n + 1 ELSE n

UpdateConv(d) ==
  /\ pc[d] = "update"
  /\ unread' = [unread EXCEPT ![conv[d]] = RecordMessage(copy[d], TRUE)]
  /\ Goto(d, "findLead")
  /\ UNCHANGED <<contact, exists, stored, leads, conv, copy, writer, noter, triggered>>

\* CreateLeadUseCase: no-op when the contact has a lead.
\* Mutant: and the delivery returns with it.
FoundLeadReturns(d) ==
  /\ pc[d] = "findLead"
  /\ Goto(d, IF leads > 0 THEN "over" ELSE "createLead")
  /\ UNCHANGED <<rows, conv, copy, writer, noter, triggered>>

FindLead(d) ==
  /\ pc[d] = "findLead"
  /\ Goto(d, IF leads > 0 THEN "trigger" ELSE "createLead")
  /\ UNCHANGED <<rows, conv, copy, writer, noter, triggered>>

CreateLead(d) ==
  /\ pc[d] = "createLead"
  /\ leads' = leads + 1
  /\ Goto(d, "trigger")
  /\ UNCHANGED <<contact, exists, unread, stored, conv, copy, writer, noter, triggered>>

\* No default funnel, no responsible available, a database error: only logged.
LeadFails(d) ==
  /\ "lead" \in Faults
  /\ pc[d] \in {"findLead", "createLead"}
  /\ Goto(d, "trigger")
  /\ UNCHANGED <<rows, conv, copy, writer, noter, triggered>>

\* go aiHandler.HandleIncomingMessage (module InboundDebounce, action Trigger).
TriggerAI(d) ==
  /\ pc[d] = "trigger"
  /\ triggered' = [triggered EXCEPT ![MessageOf[d]] = @ + 1]
  /\ Goto(d, "over")
  /\ UNCHANGED <<rows, conv, copy, writer, noter>>

\* A database call returns an error, and with it the delivery.
DbFails(d) ==
  /\ "db" \in Faults
  /\ pc[d] \in {"dedup", "contact", "newContact", "conv", "newConv", "message", "update"}
  /\ Goto(d, "over")
  /\ UNCHANGED <<rows, conv, copy, writer, noter, triggered>>

Lookup(d) == Discard(d) \/ NotDuplicate(d) \/ FindContact(d) \/ FindConv(d) \/ FindLead(d)
Store(d) ==
  \/ CreateContact(d) \/ (\E c \in Conv : CreateConv(d, c)) \/ CreateMessage(d)
  \/ UpdateConv(d) \/ CreateLead(d)
Receive(d) == Lookup(d) \/ Store(d) \/ LeadFails(d) \/ TriggerAI(d) \/ DbFails(d)

-----------------------------------------------------------------------------
(* The other writers. *)

\* SendMessageUseCase reads the conversation before it calls the provider ...
SendFind(w, c) ==
  /\ writer[w].stage = "idle"
  /\ c \in exists
  /\ writer' = [writer EXCEPT ![w] =
       [stage |-> "save", conv |-> c, unread |-> RecordMessage(unread[c], FALSE)]]
  /\ UNCHANGED <<rows, locals, noter, triggered>>

\* ... GetConversationMessages before it marks it read ...
ReadFind(w, c) ==
  /\ writer[w].stage = "idle"
  /\ c \in exists
  /\ writer' = IF unread[c] > 0
               THEN [writer EXCEPT ![w] = [stage |-> "save", conv |-> c, unread |-> 0]]
               ELSE writer
  /\ UNCHANGED <<rows, locals, noter, triggered>>

\* ... and each saves its whole copy.
WriterSave(w) ==
  /\ writer[w].stage = "save"
  /\ unread' = [unread EXCEPT ![writer[w].conv] = writer[w].unread]
  /\ writer' = [writer EXCEPT ![w] = NotWriting]
  /\ UNCHANGED <<contact, exists, stored, leads, locals, noter, triggered>>

\* The provider fails, or the best-effort update does.
WriterGivesUp(w) ==
  /\ "db" \in Faults
  /\ writer[w].stage = "save"
  /\ writer' = [writer EXCEPT ![w] = NotWriting]
  /\ UNCHANGED <<rows, locals, noter, triggered>>

\* A note on a conversation without a lead promotes it to one.
NoteFind(n) ==
  /\ noter[n] = "idle"
  /\ exists # {}
  /\ noter' = [noter EXCEPT ![n] = IF leads > 0 THEN "over" ELSE "create"]
  /\ UNCHANGED <<rows, locals, writer, triggered>>

NoteCreateLead(n) ==
  /\ noter[n] = "create"
  /\ leads' = leads + 1
  /\ noter' = [noter EXCEPT ![n] = "over"]
  /\ UNCHANGED <<contact, exists, unread, stored, locals, writer, triggered>>

NoteFails(n) ==
  /\ "lead" \in Faults
  /\ noter[n] = "create"
  /\ noter' = [noter EXCEPT ![n] = "over"]
  /\ UNCHANGED <<rows, locals, writer, triggered>>

Write(w) ==
  \/ \E c \in Conv : SendFind(w, c) \/ ReadFind(w, c)
  \/ WriterSave(w) \/ WriterGivesUp(w)
Note(n) == NoteFind(n) \/ NoteCreateLead(n) \/ NoteFails(n)

Crash ==
  /\ "crash" \in Faults
  /\ pc' = [d \in Delivery |-> IF Busy(d) THEN "over" ELSE pc[d]]
  /\ writer' = [w \in Writer |-> NotWriting]
  /\ noter' = [n \in Noter |-> IF noter[n] = "create" THEN "over" ELSE noter[n]]
  /\ UNCHANGED <<rows, conv, copy, triggered>>

Next ==
  \/ \E d \in Delivery : Deliver(d) \/ Receive(d)
  \/ \E w \in Writer : Write(w)
  \/ \E n \in Noter : Note(n)
  \/ Crash

Spec == Init /\ [][Next]_vars

\* A delivery runs to its end.
Fairness == \A d \in Delivery : WF_vars(Deliver(d)) /\ WF_vars(Receive(d))
FairSpec == Spec /\ Fairness

-----------------------------------------------------------------------------
(* Properties that hold. *)

\* The AI handler is started at most once for a message, however often and
\* however concurrently it is delivered (receive_message.go:137-145).
TriggeredOnce == \A m \in WaMessage : triggered[m] <= 1

\* The badge never shows more messages than there are, whoever saves a stale
\* copy over whom (receive_message.go:148).
InConv(c) == {m \in WaMessage : stored[m] = c}
UnreadBounded == \A c \in Conv : unread[c] <= Cardinality(InConv(c))

\* One delivery after the other leaves no second conversation of the contact, and
\* without faults every message whose delivery began reaches the AI handler
\* (receive_message.go:118, 206): again and again both hold of all that was
\* delivered, and neither a conversation nor a start of the AI is taken back.
OneConversation == Cardinality(exists) <= 1
AllTriggered == \A d \in Delivery : pc[d] # "idle" => triggered[MessageOf[d]] = 1
MessagesArrive == []<>(OneConversation /\ AllTriggered)

\* The inductive invariant behind the first two.  A delivery past the
\* deduplication knows its conversation; past CreateMessage it is the only one
\* for its message, which is stored and not triggered; and no copy of the
\* unread count, whoever holds it, is above the messages of its conversation.
Knows == {"message", "update", "findLead", "createLead", "trigger"}
Past(d) == pc[d] \in {"update", "findLead", "createLead", "trigger"}

Located ==
  /\ \A d \in Delivery : pc[d] \in Knows => conv[d] \in Conv
  /\ \A w \in Writer : writer[w].stage = "save" => writer[w].conv \in Conv
OnlyOnePast ==
  /\ \A d \in Delivery : Past(d) => Stored(d) /\ triggered[MessageOf[d]] = 0
  /\ \A d, e \in Delivery : Past(d) /\ Past(e) /\ MessageOf[d] = MessageOf[e] => d = e
TriggeredIsStored ==
  \A m \in WaMessage : triggered[m] <= 1 /\ (triggered[m] = 1 => stored[m] # NoConv)
FiniteConvs == \A c \in Conv : IsFiniteSet(InConv(c))
Count == [c \in Conv |-> Cardinality(InConv(c))]
CopiesBounded ==
  /\ \A c \in Conv : unread[c] <= Count[c]
  /\ \A d \in Delivery :
       /\ pc[d] = "message" => copy[d] <= Count[conv[d]]
       /\ pc[d] = "update" => copy[d] < Count[conv[d]]
  /\ \A w \in Writer :
       writer[w].stage = "save" => writer[w].unread <= Count[writer[w].conv]

IngestInvariant ==
  TypeOK /\ Located /\ OnlyOnePast /\ TriggeredIsStored /\ FiniteConvs /\ CopiesBounded

=============================================================================

---------------------------- MODULE InboundDebounce ----------------------------
(***************************************************************************)
(* The way of an incoming message into a turn: one goroutine per message   *)
(* (ai.Module.HandleIncomingMessage) routes it, stores the routing context *)
(* of its conversation and adds it to the Debouncer; the timer of the last *)
(* message added takes the messages of the conversation and, outside the   *)
(* Debouncer's mutex, looks the routing context up and starts the turn     *)
(* (module ConversationTurn, action Arrive).                               *)
(*                                                                         *)
(* A timer is named by the message whose Add made it.  Time is abstract: a *)
(* running timer may expire at any moment.  The order of the messages in a *)
(* batch is the order of Add and is left out.                              *)
(***************************************************************************)
EXTENDS Naturals

CONSTANTS Message, Conversation,
          ConvOf,       \* the conversation of each message
          NoMessage,
          Unroutable,   \* messages for which the router may find no specialist
          MayCrash

ASSUME InboundAssumption ==
  /\ ConvOf \in [Message -> Conversation]
  /\ NoMessage \notin Message
  /\ Unroutable \subseteq Message
  /\ MayCrash \in BOOLEAN

VARIABLES
  pc,       \* HandleIncomingMessage of each message
  contexts, \* Module.contexts: the message whose routing is stored
  pending,  \* Debouncer.messages
  timers,   \* Debouncer.timers: the conversation's current timer
  timer,    \* the life of each timer
  batch,    \* what a timer's goroutine has taken and not yet handed on
  handed,   \* history: in how many turns a message was
  lost      \* history: messages that were dropped or died with the process

vars == <<pc, contexts, pending, timers, timer, batch, handed, lost>>

Stage == {"unsent", "route", "store", "add", "added", "dropped"}
Life == {"none", "running", "fired", "calling", "over"}

TypeOK ==
  /\ pc \in [Message -> Stage]
  /\ contexts \in [Conversation -> Message \cup {NoMessage}]
  /\ pending \in [Conversation -> SUBSET Message]
  /\ timers \in [Conversation -> Message \cup {NoMessage}]
  /\ timer \in [Message -> Life]
  /\ batch \in [Message -> SUBSET Message]
  /\ handed \in [Message -> Nat]
  /\ lost \subseteq Message

Init ==
  /\ pc = [m \in Message |-> "unsent"]
  /\ contexts = [c \in Conversation |-> NoMessage]
  /\ pending = [c \in Conversation |-> {}]
  /\ timers = [c \in Conversation |-> NoMessage]
  /\ timer = [m \in Message |-> "none"]
  /\ batch = [m \in Message |-> {}]
  /\ handed = [m \in Message |-> 0]
  /\ lost = {}

-----------------------------------------------------------------------------
\* ReceiveMessage saved the message and starts a goroutine for it.
Trigger(m) ==
  /\ pc[m] = "unsent"
  /\ pc' = [pc EXCEPT ![m] = "route"]
  /\ UNCHANGED <<contexts, pending, timers, timer, batch, handed, lost>>

\* The router answers, or finds no specialist and the message goes no further.
Route(m) ==
  /\ pc[m] = "route"
  /\ \/ pc' = [pc EXCEPT ![m] = "store"]
     \/ m \in Unroutable /\ pc' = [pc EXCEPT ![m] = "dropped"]
  /\ UNCHANGED <<contexts, pending, timers, timer, batch, handed, lost>>

StoreContext(m) ==
  /\ pc[m] = "store"
  /\ contexts' = [contexts EXCEPT ![ConvOf[m]] = m]
  /\ pc' = [pc EXCEPT ![m] = "add"]
  /\ UNCHANGED <<pending, timers, timer, batch, handed, lost>>

\* t.Stop: a timer that has not expired never will; one that has, is not stopped.
Stopped(k) ==
  IF k # NoMessage /\ timer[k] = "running" THEN [timer EXCEPT ![k] = "over"] ELSE timer

\* Mutant: a new conversation's message is kept, its timer is not started.
TimerOfTheFirst(m) == timers[ConvOf[m]] = NoMessage
StartsTimer(m) == TRUE

Add(m) ==
  /\ pc[m] = "add"
  /\ pending' = [pending EXCEPT ![ConvOf[m]] = @ \cup {m}]
  /\ timers' = [timers EXCEPT ![ConvOf[m]] = m]
  /\ timer' = [Stopped(timers[ConvOf[m]]) EXCEPT ![m] = IF StartsTimer(m) THEN "running" ELSE "over"]
  /\ pc' = [pc EXCEPT ![m] = "added"]
  /\ UNCHANGED <<contexts, batch, handed, lost>>

\* The runtime starts the timer's function in a goroutine of its own.
Expire(k) ==
  /\ timer[k] = "running"
  /\ timer' = [timer EXCEPT ![k] = "fired"]
  /\ UNCHANGED <<pc, contexts, pending, timers, batch, handed, lost>>

\* What is left of the conversation's messages once a timer has taken them.
\* Mutant: they are not deleted.
StillPending(c) == pending[c]
AfterTaking(c) == {}

\* fire, under the mutex: take and clear the messages and the timer's entry.
Fire(k) ==
  /\ timer[k] = "fired"
  /\ LET c == ConvOf[k]
     IN /\ batch' = [batch EXCEPT ![k] = pending[c]]
        /\ pending' = [pending EXCEPT ![c] = AfterTaking(c)]
        /\ timers' = [timers EXCEPT ![c] = NoMessage]
        /\ timer' = [timer EXCEPT ![k] = IF pending[c] = {} THEN "over" ELSE "calling"]
  /\ UNCHANGED <<pc, contexts, handed, lost>>

\* The callback: getContext reads and removes the context and the turn starts;
\* without one the messages are dropped.
StartTurn(k) ==
  /\ timer[k] = "calling"
  /\ contexts[ConvOf[k]] # NoMessage
  /\ contexts' = [contexts EXCEPT ![ConvOf[k]] = NoMessage]
  /\ handed' = [m \in Message |-> IF m \in batch[k] THEN handed[m] + 1 ELSE handed[m]]
  /\ batch' = [batch EXCEPT ![k] = {}]
  /\ timer' = [timer EXCEPT ![k] = "over"]
  /\ UNCHANGED <<pc, pending, timers, lost>>

DropBatch(k) ==
  /\ timer[k] = "calling"
  /\ contexts[ConvOf[k]] = NoMessage
  /\ lost' = lost \cup batch[k]
  /\ batch' = [batch EXCEPT ![k] = {}]
  /\ timer' = [timer EXCEPT ![k] = "over"]
  /\ UNCHANGED <<pc, contexts, pending, timers, handed>>

Waits(m) == m \in pending[ConvOf[m]]
Taken(m) == \E k \in Message : m \in batch[k]

\* The process dies.  The messages are in the database and a redelivery is a
\* duplicate for ReceiveMessage, so nothing brings them back here.
Crash ==
  /\ MayCrash
  /\ pc' = [m \in Message |-> IF pc[m] = "unsent" THEN "unsent" ELSE "dropped"]
  /\ lost' = lost \cup {m \in Message : Waits(m) \/ Taken(m)}
  /\ contexts' = [c \in Conversation |-> NoMessage]
  /\ pending' = [c \in Conversation |-> {}]
  /\ timers' = [c \in Conversation |-> NoMessage]
  /\ timer' = [k \in Message |-> IF timer[k] = "none" THEN "none" ELSE "over"]
  /\ batch' = [k \in Message |-> {}]
  /\ UNCHANGED handed

Handle(m) == Route(m) \/ StoreContext(m) \/ Add(m)
Tick(k) == Expire(k) \/ Fire(k) \/ StartTurn(k) \/ DropBatch(k)

Next == (\E m \in Message : Trigger(m) \/ Handle(m) \/ Tick(m)) \/ Crash

Spec == Init /\ [][Next]_vars

\* Goroutines run on and timers expire.
Fairness == \A m \in Message : WF_vars(Handle(m)) /\ WF_vars(Tick(m))

FairSpec == Spec /\ Fairness

-----------------------------------------------------------------------------
(* Properties that hold. *)

\* No message is in two turns, although a timer that could not be stopped and
\* its successor both fire (debouncer.go:49-54).
HandedOnce == \A m \in Message : handed[m] <= 1

\* A message the debouncer took is in exactly one place: it waits, or one timer
\* has it, or it was handed to one turn, or it was dropped (debouncer.go:32-59).
OnePlace ==
  \A m \in Message : pc[m] = "added" =>
    /\ Waits(m) \/ Taken(m) \/ handed[m] > 0 \/ m \in lost
    /\ Waits(m) => ~Taken(m) /\ handed[m] = 0 /\ m \notin lost
    /\ Taken(m) => handed[m] = 0 /\ m \notin lost
    /\ handed[m] <= 1 /\ (handed[m] > 0 => m \notin lost)
    /\ \A j, k \in Message : (m \in batch[j] /\ m \in batch[k]) => j = k

\* Messages that wait have a timer that will take them: an overwritten or
\* deleted map entry never strands them (debouncer.go:36-43).
WillFire(c) == \E k \in Message : ConvOf[k] = c /\ timer[k] \in {"running", "fired"}
NoneStranded == \A c \in Conversation : pending[c] # {} => WillFire(c)

\* Every message that reached the debouncer is handed to a turn or dropped by
\* the callback in the end; none waits for ever.
Settled(m) == handed[m] = 1 \/ m \in lost
AllSettled == \A m \in Message : (pc[m] = "added") ~> Settled(m)

-----------------------------------------------------------------------------
(* The inductive invariant behind the first three. *)

Early(m) == pc[m] \in {"unsent", "route", "store", "add"}

\* What is on its way has left no trace yet.
EarlyIsNew == \A m \in Message : Early(m) => timer[m] = "none" /\ handed[m] = 0 /\ m \notin lost

\* Who waits or is taken was added, to its own conversation, and to nothing else.
WaitsOnly ==
  \A c \in Conversation : \A m \in pending[c] :
    pc[m] = "added" /\ ConvOf[m] = c /\ ~Taken(m) /\ handed[m] = 0 /\ m \notin lost

TakenOnly ==
  \A k \in Message : \A m \in batch[k] :
    /\ pc[m] = "added" /\ ConvOf[m] = ConvOf[k] /\ handed[m] = 0 /\ m \notin lost
    /\ \A j \in Message : m \in batch[j] => j = k

HandedOrLost == \A m \in Message : handed[m] <= 1 /\ (handed[m] > 0 => m \notin lost)
AddedIsSomewhere ==
  \A m \in Message : pc[m] = "added" => Waits(m) \/ Taken(m) \/ handed[m] > 0 \/ m \in lost

BatchesAreCalling == \A k \in Message : batch[k] # {} => timer[k] = "calling"
TimersOfTheirOwn == \A c \in Conversation : timers[c] # NoMessage => ConvOf[timers[c]] = c

InboundInvariant ==
  /\ TypeOK /\ EarlyIsNew /\ WaitsOnly /\ TakenOnly /\ HandedOrLost
  /\ AddedIsSomewhere /\ BatchesAreCalling /\ TimersOfTheirOwn /\ NoneStranded

=============================================================================

------------------------------- MODULE LockedTurn -------------------------------
(***************************************************************************)
(* The turns of a conversation (ConversationTurn) with the lock they       *)
(* really take: HandleMessages calls turnLock.Lock(conversationID) of the  *)
(* engine's keyedMutex (KeyedMutex), which turns of other conversations    *)
(* use at the same time, and unlocks it when it returns.                   *)
(*                                                                         *)
(* Nothing here looks at the variable turnLock: it is history, written as  *)
(* the abstract lock would be, so that it can be said that the mutex is    *)
(* all the turns need of it.                                               *)
(***************************************************************************)
EXTENDS ConversationTurn, FiniteSets

CONSTANTS
  OtherTurn,     \* turns of other conversations
  Key,           \* conversation IDs
  Conversation,  \* the one whose turns are modelled
  Object, NoObject

VARIABLES
  mapMu, locks, refs, lockMu,  \* the keyedMutex of the engine
  lockPc, lockKey, lockObj     \* where each turn is in Lock and its closure

Goroutine == Turn \cup OtherTurn

ASSUME LockedAssumption ==
  /\ Conversation \in Key
  /\ Turn \cap OtherTurn = {} /\ IsFiniteSet(Goroutine)
  /\ NoTurn \notin OtherTurn /\ NoObject \notin Object

Mutex == INSTANCE KeyedMutex
  WITH Proc <- Goroutine, NoProc <- NoTurn, pc <- lockPc, key <- lockKey, obj <- lockObj

mutexVars == <<mapMu, locks, refs, lockMu, lockPc, lockKey, lockObj>>
lockedVars == <<vars, mutexVars>>

LockedInit == Init /\ Mutex!Init

\* HandleMessages is called and calls Lock.
Begin(t, s, isReset) == Arrive(t, s, isReset) /\ Mutex!Call(t, Conversation)

\* In Lock before l.mu, and in the closure after it.
Bookkeeping(t) ==
  \/ Mutex!LockMap(t) \/ Mutex!LookupExisting(t) \/ Mutex!LookupNew(t)
  \/ Mutex!Evict(t)
InLock(t) == Bookkeeping(t) /\ UNCHANGED vars

\* Lock returns.
TakeLock(t) == Mutex!Acquire(t) /\ Enter(t)

\* The turn goes on; its last step runs the deferred closure.
Proceed(t) ==
  /\ Works(t)
  /\ IF pc'[t] = "idle" THEN Mutex!Release(t) ELSE UNCHANGED mutexVars

\* Turns of other conversations.
OtherStep(t) ==
  /\ Mutex!Step(t) \/ \E k \in Key \ {Conversation} : Mutex!Call(t, k)
  /\ UNCHANGED vars

\* The process restarts with an empty map.
Restart ==
  /\ Crash
  /\ mapMu' = NoTurn /\ locks' = [k \in Key |-> NoObject]
  /\ refs' = [o \in Object |-> 0] /\ lockMu' = [o \in Object |-> NoTurn]
  /\ lockPc' = [t \in Goroutine |-> "idle"] /\ lockObj' = [t \in Goroutine |-> NoObject]
  /\ UNCHANGED lockKey

LockedNext ==
  \/ \E t \in Turn, s \in Specialist, isReset \in BOOLEAN : Begin(t, s, isReset)
  \/ \E t \in Turn : InLock(t) \/ TakeLock(t) \/ Proceed(t)
  \/ \E t \in OtherTurn : OtherStep(t)
  \/ (\E q \in Request : RequestStep(q)) /\ UNCHANGED mutexVars
  \/ Restart

LockedSpec == LockedInit /\ [][LockedNext]_lockedVars

-----------------------------------------------------------------------------
\* A turn is between the lock and its return exactly while the mutex of the
\* conversation is its own.
LockedInvariant ==
  /\ Mutex!LockInvariant
  /\ \A t \in Turn :
       /\ pc[t] = "idle" => lockPc[t] \in {"idle", "leave", "evict"}
       /\ pc[t] = "queued" => lockPc[t] \in {"enter", "lookup", "wait"}
       /\ Running(t) => lockPc[t] = "held"
       /\ lockPc[t] # "idle" => lockKey[t] = Conversation
  /\ \A t \in OtherTurn : lockPc[t] # "idle" => lockKey[t] # Conversation
  /\ OneTurnAtATime
=============================================================================

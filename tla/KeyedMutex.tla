------------------------------ MODULE KeyedMutex ------------------------------
(***************************************************************************)
(* The refcounted per-key mutex of the conversation engine                 *)
(* (src/internal/ai/application/keyed_mutex.go).                           *)
(*                                                                         *)
(* Lock(key) finds or creates the keyedLock object of the key under the    *)
(* map's own mutex, counts itself on it, and only then waits for the       *)
(* object's mutex; the closure it returns releases the object's mutex and, *)
(* in a second critical section, drops the count and evicts the object at  *)
(* zero.  What can go wrong is object identity: two callers of one key     *)
(* that hold two different keyedLock objects are not serialised at all, so *)
(* the objects are modelled explicitly.  An object that nothing points to  *)
(* is garbage and its name may be used again.                              *)
(***************************************************************************)
EXTENDS Naturals, FiniteSets

CONSTANTS
  Proc,      \* goroutines that run a turn
  Key,       \* conversation IDs
  Object,    \* names of keyedLock objects on the heap
  NoProc,    \* a mutex that is not locked
  NoObject   \* no keyedLock: a missing map entry, an unset pointer

ASSUME NullAssumption == NoProc \notin Proc /\ NoObject \notin Object
ASSUME FiniteAssumption == IsFiniteSet(Proc)

VARIABLES
  mapMu,     \* holder of k.mu
  locks,     \* k.locks: the object of each key
  refs,      \* keyedLock.refs
  lockMu,    \* holder of keyedLock.mu
  pc,        \* where each goroutine is
  key,       \* the argument of its call
  obj        \* its local l, from the lookup to the end of the closure

vars == <<mapMu, locks, refs, lockMu, pc, key, obj>>

\* idle: not inside; enter: wants k.mu; lookup: holds k.mu in Lock;
\* wait: counted, wants l.mu; held: in the critical section;
\* leave: l.mu released, wants k.mu; evict: holds k.mu in the closure.
Phase == {"idle", "enter", "lookup", "wait", "held", "leave", "evict"}

TypeOK ==
  /\ mapMu \in Proc \cup {NoProc}
  /\ locks \in [Key -> Object \cup {NoObject}]
  /\ refs \in [Object -> Nat]
  /\ lockMu \in [Object -> Proc \cup {NoProc}]
  /\ pc \in [Proc -> Phase]
  /\ key \in [Proc -> Key]
  /\ obj \in [Proc -> Object \cup {NoObject}]

Init ==
  /\ mapMu = NoProc
  /\ locks = [k \in Key |-> NoObject]
  /\ refs = [o \in Object |-> 0]
  /\ lockMu = [o \in Object |-> NoProc]
  /\ pc = [p \in Proc |-> "idle"]
  /\ key \in [Proc -> Key]
  /\ obj = [p \in Proc |-> NoObject]

\* The goroutines whose count is on object o.
Referrers(o) == {p \in Proc : obj[p] = o}

\* &keyedLock{}: an object to which nothing points.
NewObject(o) == (\A k \in Key : locks[k] # o) /\ Referrers(o) = {}

-----------------------------------------------------------------------------
\* A turn of conversation k calls Lock(k).
Call(p, k) ==
  /\ pc[p] = "idle"
  /\ pc' = [pc EXCEPT ![p] = "enter"]
  /\ key' = [key EXCEPT ![p] = k]
  /\ UNCHANGED <<mapMu, locks, refs, lockMu, obj>>

\* k.mu.Lock(), in Lock and again in the closure.
LockMap(p) ==
  /\ mapMu = NoProc
  /\ \/ pc[p] = "enter" /\ pc' = [pc EXCEPT ![p] = "lookup"]
     \/ pc[p] = "leave" /\ pc' = [pc EXCEPT ![p] = "evict"]
  /\ mapMu' = p
  /\ UNCHANGED <<locks, refs, lockMu, key, obj>>

OneMore(o) == refs[o] + 1

\* Mutant: the entry is evicted by whoever leaves.
AlwaysLast(o) == TRUE
LastReference(o) == refs[o] = 1

\* Mutant: the closure forgets l.mu.
LeftLocked(o) == lockMu
Unlocked(o) == [lockMu EXCEPT ![o] = NoProc]

\* Find the key's object, count the caller on it, unlock the map.
LookupExisting(p) ==
  /\ pc[p] = "lookup"
  /\ locks[key[p]] # NoObject
  /\ obj' = [obj EXCEPT ![p] = locks[key[p]]]
  /\ refs' = [refs EXCEPT ![locks[key[p]]] = OneMore(locks[key[p]])]
  /\ pc' = [pc EXCEPT ![p] = "wait"]
  /\ mapMu' = NoProc
  /\ UNCHANGED <<locks, lockMu, key>>

\* The key has no object: install a new one, unlocked, with the caller counted.
LookupNew(p) ==
  /\ pc[p] = "lookup"
  /\ locks[key[p]] = NoObject
  /\ \E o \in Object :
       /\ NewObject(o)
       /\ obj' = [obj EXCEPT ![p] = o]
       /\ refs' = [refs EXCEPT ![o] = 1]
       /\ lockMu' = [lockMu EXCEPT ![o] = NoProc]
       /\ locks' = [locks EXCEPT ![key[p]] = o]
  /\ pc' = [pc EXCEPT ![p] = "wait"]
  /\ mapMu' = NoProc
  /\ UNCHANGED key

\* l.mu.Lock(): Lock returns.
Acquire(p) ==
  /\ pc[p] = "wait"
  /\ lockMu[obj[p]] = NoProc
  /\ lockMu' = [lockMu EXCEPT ![obj[p]] = p]
  /\ pc' = [pc EXCEPT ![p] = "held"]
  /\ UNCHANGED <<mapMu, locks, refs, key, obj>>

\* The closure: l.mu.Unlock() ...
Release(p) ==
  /\ pc[p] = "held"
  /\ lockMu' = Unlocked(obj[p])
  /\ pc' = [pc EXCEPT ![p] = "leave"]
  /\ UNCHANGED <<mapMu, locks, refs, key, obj>>

\* ... then refs--, delete at zero, k.mu.Unlock().
Evict(p) ==
  /\ pc[p] = "evict"
  /\ refs' = [refs EXCEPT ![obj[p]] = @ - 1]
  /\ locks' = IF LastReference(obj[p]) THEN [locks EXCEPT ![key[p]] = NoObject] ELSE locks
  /\ obj' = [obj EXCEPT ![p] = NoObject]
  /\ pc' = [pc EXCEPT ![p] = "idle"]
  /\ mapMu' = NoProc
  /\ UNCHANGED <<lockMu, key>>

Step(p) ==
  \/ LockMap(p)
  \/ LookupExisting(p)
  \/ LookupNew(p)
  \/ Acquire(p)
  \/ Release(p)
  \/ Evict(p)

Next == \E p \in Proc : Step(p) \/ \E k \in Key : Call(p, k)

Spec == Init /\ [][Next]_vars

\* A goroutine that is not blocked keeps running, and turns end (HandleMessages
\* unlocks in a defer).  sync.Mutex hands itself to the longest waiter after a
\* millisecond, so a waiter that keeps finding the mutex free gets it.
Fairness == \A p \in Proc : SF_vars(LockMap(p)) /\ SF_vars(Acquire(p)) /\ WF_vars(Step(p))

FairSpec == Spec /\ Fairness

-----------------------------------------------------------------------------
\* A goroutine between the lookup and the end of its closure.
Counted(p) == pc[p] \in {"wait", "held", "leave", "evict"}

\* "One turn at a time per conversation" (conversation_engine.go:197): two
\* goroutines are never inside the critical section of one key.
MutualExclusion ==
  \A p, q \in Proc :
    (pc[p] = "held" /\ pc[q] = "held" /\ key[p] = key[q]) => p = q

\* "so the entry cannot be evicted out from under a waiter and split the queue
\* across two different mutexes" (keyed_mutex.go:29-30): whoever is counted
\* holds the very object the map still has for its key.
EntryPinned == \A p \in Proc : Counted(p) => locks[key[p]] = obj[p]

\* "the map tracks in-flight keys only instead of growing with every key ever
\* seen" (keyed_mutex.go:5-7): every entry of the map has a goroutine counted
\* on it for that key.
NoIdleEntry ==
  \A k \in Key : locks[k] # NoObject => \E p \in Proc : Counted(p) /\ key[p] = k

\* The count of an object is the number of goroutines that hold a pointer to it.
RefsExact == \A o \in Object : refs[o] = Cardinality(Referrers(o))

\* "while leaving different keys fully parallel" (keyed_mutex.go:5-6): a
\* goroutine that waits for l.mu waits only for goroutines of its own key.
KeysIndependent ==
  \A p \in Proc :
    (pc[p] = "wait" /\ lockMu[obj[p]] # NoProc) => key[lockMu[obj[p]]] = key[p]

\* Every call of Lock returns: waiters are neither lost nor starved.
LockReturns == \A p \in Proc : (pc[p] = "enter") ~> (pc[p] = "held")
-----------------------------------------------------------------------------
\* The inductive invariant behind the properties above.

\* k.mu is held exactly by the goroutine inside one of its critical sections.
MapMutex == \A p \in Proc : pc[p] \in {"lookup", "evict"} <=> mapMu = p

\* A goroutine has a pointer exactly while it is counted.
PointerWhileCounted == \A p \in Proc : Counted(p) <=> obj[p] # NoObject

\* Two keys never share an object.
ObjectOfOneKey ==
  \A j, k \in Key : (locks[j] = locks[k] /\ locks[j] # NoObject) => j = k

\* l.mu is held exactly by the goroutine in the critical section of l.
HolderInside ==
  /\ \A p \in Proc : pc[p] = "held" => lockMu[obj[p]] = p
  /\ \A o \in Object : lockMu[o] # NoProc => pc[lockMu[o]] = "held" /\ obj[lockMu[o]] = o

LockInvariant ==
  /\ TypeOK
  /\ MapMutex
  /\ PointerWhileCounted
  /\ EntryPinned
  /\ NoIdleEntry
  /\ ObjectOfOneKey
  /\ HolderInside
  /\ RefsExact
=============================================================================

--------------------------- MODULE KeyedMutexProofs ---------------------------
(***************************************************************************)
(* Mutual exclusion per key, pinning of entries and eviction of idle ones, *)
(* for every finite set of goroutines and every set of keys and objects.   *)
(* The argument: counts are exact (RefsExact), so an object reaches count  *)
(* zero only when the evicting goroutine was the last to point to it, so   *)
(* the map never forgets an object somebody still uses (EntryPinned), so   *)
(* all callers of a key meet on one mutex.                                 *)
(***************************************************************************)
EXTENDS KeyedMutexRefinement, FiniteSetTheorems, TLAPS

USE NullAssumption

\* The set of goroutines on an object is finite, so its size is a number.
LEMMA ReferrersFinite ==
  ASSUME NEW o
  PROVE  IsFiniteSet(Referrers(o)) /\ Cardinality(Referrers(o)) \in Nat
<1>1. Referrers(o) \in SUBSET Proc
  BY DEF Referrers
<1>2. IsFiniteSet(Referrers(o))
  BY <1>1, FiniteAssumption, FS_Subset
<1> QED
  BY <1>2, FS_CardinalityType

\* The initial states satisfy the invariant.
LEMMA InitInvariant == Init => LockInvariant
<1> SUFFICES ASSUME Init PROVE LockInvariant
  OBVIOUS
<1>1. TypeOK
  BY DEF Init, TypeOK, Phase
<1>2. MapMutex /\ PointerWhileCounted /\ EntryPinned /\ NoIdleEntry /\ ObjectOfOneKey /\ HolderInside
  BY DEF Init, MapMutex, PointerWhileCounted, EntryPinned, NoIdleEntry, ObjectOfOneKey, HolderInside, Counted
<1>3. RefsExact
  <2> SUFFICES ASSUME NEW o \in Object PROVE refs[o] = Cardinality(Referrers(o))
    BY DEF RefsExact
  <2>1. Referrers(o) = {}
    BY DEF Init, Referrers
  <2> QED
    BY <2>1, FS_EmptySet DEF Init
<1> QED
  BY <1>1, <1>2, <1>3 DEF LockInvariant

\* A step that leaves obj and refs alone leaves the counts exact.
LEMMA CountsUntouched ==
  ASSUME RefsExact, UNCHANGED <<obj, refs>>
  PROVE  RefsExact'
BY DEF RefsExact, Referrers

\* A step in which p starts or stops pointing to object o, and the count of o
\* follows, leaves the counts exact.
LEMMA CountUp ==
  ASSUME TypeOK, RefsExact, NEW p \in Proc, NEW o \in Object, obj[p] = NoObject,
         obj' = [obj EXCEPT ![p] = o], refs' = [refs EXCEPT ![o] = @ + 1]
  PROVE  RefsExact'
<1> SUFFICES ASSUME NEW x \in Object PROVE refs'[x] = Cardinality(Referrers(x)')
  BY DEF RefsExact
<1>1. CASE x = o
  <2>1. Referrers(x)' = Referrers(x) \cup {p} /\ p \notin Referrers(x)
    BY <1>1 DEF Referrers, TypeOK
  <2>2. Cardinality(Referrers(x) \cup {p}) = Cardinality(Referrers(x)) + 1
    BY <2>1, ReferrersFinite, FS_AddElement
  <2> QED
    BY <1>1, <2>1, <2>2 DEF RefsExact, TypeOK
<1>2. CASE x # o
  <2>1. Referrers(x)' = Referrers(x)
    BY <1>2 DEF Referrers, TypeOK
  <2> QED
    BY <1>2, <2>1 DEF RefsExact, TypeOK
<1> QED
  BY <1>1, <1>2

\* What a counter that is not the last one's becomes.
LEMMA CountDown ==
  ASSUME TypeOK, RefsExact, NEW p \in Proc, NEW o \in Object, obj[p] = o,
         obj' = [obj EXCEPT ![p] = NoObject], refs' = [refs EXCEPT ![o] = @ - 1]
  PROVE  RefsExact' /\ refs' \in [Object -> Nat]
<1>1. p \in Referrers(o) /\ Referrers(o)' = Referrers(o) \ {p}
  BY DEF Referrers, TypeOK
<1>2. Cardinality(Referrers(o)') = Cardinality(Referrers(o)) - 1
  BY <1>1, ReferrersFinite, FS_RemoveElement, ZenonT(40)
<1>3. Cardinality(Referrers(o)) \in Nat /\ Cardinality(Referrers(o)) # 0
  BY <1>1, ReferrersFinite, FS_EmptySet
<1>4. refs'[o] = Cardinality(Referrers(o)') /\ refs'[o] \in Nat
  BY <1>2, <1>3 DEF RefsExact, TypeOK
<1>5. ASSUME NEW x \in Object, x # o
      PROVE  refs'[x] = Cardinality(Referrers(x)') /\ refs'[x] \in Nat
  <2>1. Referrers(x)' = Referrers(x)
    BY <1>5 DEF Referrers, TypeOK
  <2> QED
    BY <1>5, <2>1 DEF RefsExact, TypeOK
<1> QED
  BY <1>4, <1>5 DEF RefsExact, TypeOK

-----------------------------------------------------------------------------
\* One lemma per action: it keeps the invariant.

\* A call that starts keeps the invariant.
LEMMA CallKeeps ==
  ASSUME LockInvariant, NEW p \in Proc, NEW k \in Key, Call(p, k)
  PROVE  LockInvariant'
<1> USE DEF LockInvariant, Call
<1>1. TypeOK'
  BY DEF TypeOK, Phase
<1>2. MapMutex' /\ PointerWhileCounted' /\ EntryPinned' /\ NoIdleEntry'
  BY DEF MapMutex, PointerWhileCounted, EntryPinned, NoIdleEntry, Counted, TypeOK, Phase
<1>3. ObjectOfOneKey' /\ HolderInside'
  BY DEF ObjectOfOneKey, HolderInside, TypeOK, Phase
<1> QED
  BY <1>1, <1>2, <1>3, CountsUntouched

\* Taking the map's lock keeps the invariant.
LEMMA LockMapKeeps ==
  ASSUME LockInvariant, NEW p \in Proc, LockMap(p)
  PROVE  LockInvariant'
<1> USE DEF LockInvariant, LockMap
<1>1. TypeOK'
  BY DEF TypeOK, Phase
<1>2. MapMutex' /\ PointerWhileCounted' /\ EntryPinned' /\ NoIdleEntry'
  BY DEF MapMutex, PointerWhileCounted, EntryPinned, NoIdleEntry, Counted, TypeOK, Phase
<1>3. ObjectOfOneKey' /\ HolderInside'
  BY DEF ObjectOfOneKey, HolderInside, TypeOK, Phase
<1> QED
  BY <1>1, <1>2, <1>3, CountsUntouched

\* Counting oneself on an entry keeps the invariant.
LEMMA LookupExistingKeeps ==
  ASSUME LockInvariant, NEW p \in Proc, LookupExisting(p)
  PROVE  LockInvariant'
<1> USE DEF LockInvariant, LookupExisting, OneMore
<1>1. locks[key[p]] \in Object /\ obj[p] = NoObject
  BY DEF TypeOK, PointerWhileCounted, Counted
<1>2. TypeOK'
  BY <1>1 DEF TypeOK, Phase
<1>3. MapMutex' /\ PointerWhileCounted' /\ EntryPinned'
  BY <1>1 DEF MapMutex, PointerWhileCounted, EntryPinned, Counted, TypeOK, Phase
<1>4. NoIdleEntry'
  BY DEF NoIdleEntry, Counted, TypeOK, Phase
<1>5. ObjectOfOneKey' /\ HolderInside'
  BY <1>1 DEF ObjectOfOneKey, HolderInside, TypeOK, Phase
<1> QED
  BY <1>1, <1>2, <1>3, <1>4, <1>5, CountUp

\* A new entry keeps the invariant.
LEMMA LookupNewKeeps ==
  ASSUME LockInvariant, NEW p \in Proc, LookupNew(p)
  PROVE  LockInvariant'
<1> USE DEF LockInvariant, LookupNew
<1>0. PICK o \in Object :
        /\ NewObject(o)
        /\ obj' = [obj EXCEPT ![p] = o]
        /\ refs' = [refs EXCEPT ![o] = 1]
        /\ lockMu' = [lockMu EXCEPT ![o] = NoProc]
        /\ locks' = [locks EXCEPT ![key[p]] = o]
  OBVIOUS
<1>1. obj[p] = NoObject
  BY DEF TypeOK, PointerWhileCounted, Counted
<1>2. refs[o] = 0
  BY <1>0, FS_EmptySet DEF RefsExact, NewObject
<1>3. \A k \in Key : locks[k] # o
  BY <1>0 DEF NewObject
<1>4. \A q \in Proc : obj[q] # o
  BY <1>0 DEF NewObject, Referrers
<1>5. TypeOK'
  BY <1>0 DEF TypeOK, Phase
<1>6. MapMutex' /\ PointerWhileCounted'
  BY <1>0, <1>1 DEF MapMutex, PointerWhileCounted, Counted, TypeOK, Phase
<1>7. EntryPinned'
  BY <1>0, <1>1 DEF EntryPinned, PointerWhileCounted, Counted, TypeOK, Phase
<1>8. NoIdleEntry'
  BY <1>0 DEF NoIdleEntry, Counted, TypeOK, Phase
<1>9. ObjectOfOneKey'
  BY <1>0, <1>3 DEF ObjectOfOneKey, TypeOK
<1>10. HolderInside'
  BY <1>0, <1>1, <1>4 DEF HolderInside, TypeOK, Phase
<1>11. RefsExact'
  <2>1. refs[o] + 1 = 1
    BY <1>2
  <2>2. refs' = [refs EXCEPT ![o] = @ + 1]
    BY <1>0, <2>1, Zenon
  <2> QED
    BY <1>0, <1>1, <2>2, CountUp
<1> QED
  BY <1>5, <1>6, <1>7, <1>8, <1>9, <1>10, <1>11

\* Taking the entry's lock keeps the invariant.
LEMMA AcquireKeeps ==
  ASSUME LockInvariant, NEW p \in Proc, Acquire(p)
  PROVE  LockInvariant'
<1> USE DEF LockInvariant, Acquire
<1>0. obj[p] \in Object
  BY DEF TypeOK, PointerWhileCounted, Counted
<1>1. TypeOK'
  BY <1>0 DEF TypeOK, Phase
<1>2. MapMutex' /\ PointerWhileCounted' /\ EntryPinned' /\ NoIdleEntry'
  BY DEF MapMutex, PointerWhileCounted, EntryPinned, NoIdleEntry, Counted, TypeOK, Phase
<1>3. ObjectOfOneKey' /\ HolderInside'
  BY <1>0 DEF ObjectOfOneKey, HolderInside, TypeOK, Phase
<1> QED
  BY <1>1, <1>2, <1>3, CountsUntouched

\* Giving it back keeps the invariant.
LEMMA ReleaseKeeps ==
  ASSUME LockInvariant, NEW p \in Proc, Release(p)
  PROVE  LockInvariant'
<1> USE DEF LockInvariant, Release, Unlocked
<1>0. obj[p] \in Object /\ lockMu[obj[p]] = p
  BY DEF TypeOK, PointerWhileCounted, Counted, HolderInside
<1>1. TypeOK'
  BY <1>0 DEF TypeOK, Phase
<1>2. MapMutex' /\ PointerWhileCounted' /\ EntryPinned' /\ NoIdleEntry'
  BY DEF MapMutex, PointerWhileCounted, EntryPinned, NoIdleEntry, Counted, TypeOK, Phase
<1>3. ObjectOfOneKey' /\ HolderInside'
  BY <1>0 DEF ObjectOfOneKey, HolderInside, TypeOK, Phase
<1> QED
  BY <1>1, <1>2, <1>3, CountsUntouched

\* Counting oneself off keeps the invariant.
LEMMA EvictKeeps ==
  ASSUME LockInvariant, NEW p \in Proc, Evict(p)
  PROVE  LockInvariant'
<1> USE DEF LockInvariant, Evict, LastReference
<1>0. PICK o \in Object : obj[p] = o /\ locks[key[p]] = o
  BY DEF TypeOK, PointerWhileCounted, Counted, EntryPinned
<1>1. RefsExact' /\ refs' \in [Object -> Nat]
  BY <1>0, CountDown
\* At count one the evicting goroutine is the only one that points to o ...
<1>2. ASSUME refs[o] = 1, NEW q \in Proc, obj[q] = o
      PROVE  q = p
  <2>1. Cardinality(Referrers(o)) = 1
    BY <1>0, <1>2 DEF RefsExact
  <2>2. \E x : Referrers(o) = {x}
    BY <2>1, ReferrersFinite, FS_Singleton
  <2>3. p \in Referrers(o) /\ q \in Referrers(o)
    BY <1>0, <1>2 DEF Referrers
  <2> QED
    BY <2>2, <2>3
\* ... and above it somebody else points to o, for the same key.
<1>3. ASSUME refs[o] # 1
      PROVE  \E q \in Proc : q # p /\ Counted(q) /\ key[q] = key[p]
  <2>1. Referrers(o) # {p}
    BY <1>0, <1>3, FS_Singleton DEF RefsExact
  <2>2. PICK q \in Referrers(o) : q # p
    BY <1>0, <2>1 DEF Referrers
  <2>3. q \in Proc /\ obj[q] = o
    BY <2>2 DEF Referrers
  <2>4. Counted(q) /\ locks[key[q]] = o
    BY <1>0, <2>3 DEF PointerWhileCounted, EntryPinned
  <2>5. key[q] = key[p]
    BY <1>0, <2>3, <2>4 DEF ObjectOfOneKey, TypeOK
  <2> QED
    BY <2>2, <2>3, <2>4, <2>5
<1>4. TypeOK'
  BY <1>1 DEF TypeOK, Phase
<1>5. MapMutex' /\ PointerWhileCounted'
  BY DEF MapMutex, PointerWhileCounted, Counted, TypeOK, Phase
<1>6. EntryPinned'
  <2> SUFFICES ASSUME NEW q \in Proc, Counted(q)' PROVE locks'[key'[q]] = obj'[q]
    BY DEF EntryPinned
  <2>1. q # p /\ Counted(q) /\ locks[key[q]] = obj[q] /\ obj'[q] = obj[q]
    BY DEF Counted, EntryPinned, TypeOK, Phase
  <2>2. CASE refs[o] = 1
    <3>1. key[q] # key[p]
      BY <1>0, <1>2, <2>1, <2>2
    <3> QED
      BY <1>0, <2>1, <2>2, <3>1 DEF TypeOK
  <2>3. CASE refs[o] # 1
    BY <1>0, <2>1, <2>3
  <2> QED
    BY <2>2, <2>3
<1>7. NoIdleEntry'
  <2> SUFFICES ASSUME NEW k \in Key, locks'[k] # NoObject
               PROVE  \E q \in Proc : Counted(q)' /\ key'[q] = k
    BY DEF NoIdleEntry
  <2>1. \E q \in Proc : q # p /\ Counted(q) /\ key[q] = k
    <3>1. CASE k = key[p]
      BY <1>0, <1>3, <3>1 DEF TypeOK
    <3>2. CASE k # key[p]
      BY <1>0, <3>2 DEF NoIdleEntry, TypeOK
    <3> QED
      BY <3>1, <3>2
  <2> QED
    BY <2>1 DEF Counted, TypeOK, Phase
<1>8. ObjectOfOneKey'
  BY DEF ObjectOfOneKey, TypeOK
<1>9. HolderInside'
  BY DEF HolderInside, TypeOK, Phase
<1> QED
  BY <1>1, <1>4, <1>5, <1>6, <1>7, <1>8, <1>9

\* The invariant is inductive.
LEMMA NextKeepsInvariant == LockInvariant /\ [Next]_vars => LockInvariant'
<1> SUFFICES ASSUME LockInvariant, [Next]_vars PROVE LockInvariant'
  OBVIOUS
<1>1. ASSUME NEW p \in Proc, Step(p) PROVE LockInvariant'
  BY <1>1, LockMapKeeps, LookupExistingKeeps, LookupNewKeeps, AcquireKeeps, ReleaseKeeps, EvictKeeps
     DEF Step
<1>2. ASSUME NEW p \in Proc, NEW k \in Key, Call(p, k) PROVE LockInvariant'
  BY <1>2, CallKeeps
<1>3. CASE UNCHANGED vars
  BY <1>3 DEF vars, LockInvariant, TypeOK, MapMutex, PointerWhileCounted, EntryPinned, NoIdleEntry,
              ObjectOfOneKey, HolderInside, RefsExact, Referrers, Counted
<1> QED
  BY <1>1, <1>2, <1>3 DEF Next

-----------------------------------------------------------------------------
\* Typing, pinning, eviction and exact counts hold in every reachable state of
\* keyed_mutex.go.
THEOREM InvariantHolds == Spec => []LockInvariant
BY InitInvariant, NextKeepsInvariant, PTL DEF Spec

\* Two turns of one conversation are never both inside Lock's critical section.
THEOREM MutualExclusionHolds == Spec => []MutualExclusion
<1>1. LockInvariant => MutualExclusion
  BY DEF LockInvariant, MutualExclusion, EntryPinned, HolderInside, Counted
<1> QED
  BY <1>1, InvariantHolds, PTL

\* The map has an entry only for keys that are in flight, and everyone counted
\* on a key uses that entry.
THEOREM EntriesHold == Spec => [](EntryPinned /\ NoIdleEntry /\ RefsExact)
<1>1. LockInvariant => EntryPinned /\ NoIdleEntry /\ RefsExact
  BY DEF LockInvariant
<1> QED
  BY <1>1, InvariantHolds, PTL

\* A waiter waits only for callers of its own key.
THEOREM KeysIndependentHolds == Spec => []KeysIndependent
<1>1. LockInvariant => KeysIndependent
  BY DEF LockInvariant, KeysIndependent, EntryPinned, HolderInside, PointerWhileCounted,
         ObjectOfOneKey, Counted, TypeOK
<1> QED
  BY <1>1, InvariantHolds, PTL

-----------------------------------------------------------------------------
\* The abstract holder of a key is the goroutine in its critical section.
HolderMapped ==
  \A k \in Key :
    /\ \A p \in Proc : AbsHolder[k] = p <=> (pc[p] = "held" /\ key[p] = k)
    /\ (\A p \in Proc : ~ (pc[p] = "held" /\ key[p] = k)) => AbsHolder[k] = NoProc

\* The holder of the abstract lock is the one inside.
LEMMA HolderIs == MutualExclusion => HolderMapped
<1> SUFFICES ASSUME MutualExclusion, NEW k \in Key
             PROVE  /\ \A p \in Proc : AbsHolder[k] = p <=> (pc[p] = "held" /\ key[p] = k)
                    /\ (\A p \in Proc : ~ (pc[p] = "held" /\ key[p] = k)) => AbsHolder[k] = NoProc
  BY DEF HolderMapped
<1>1. CASE \E p \in Proc : pc[p] = "held" /\ key[p] = k
  <2>1. PICK p \in Proc : pc[p] = "held" /\ key[p] = k
    BY <1>1
  <2>2. \A q \in Proc : (pc[q] = "held" /\ key[q] = k) <=> q = p
    BY <2>1 DEF MutualExclusion
  <2>3. AbsHolder[k] = p
    BY <2>1, <2>2 DEF AbsHolder
  <2> QED
    BY <2>2, <2>3
<1>2. CASE ~ \E p \in Proc : pc[p] = "held" /\ key[p] = k
  BY <1>2 DEF AbsHolder
<1> QED
  BY <1>1, <1>2

\* If the same goroutines are inside for k after a step, its holder is the same.
LEMMA HolderSame ==
  ASSUME HolderMapped, HolderMapped', NEW k \in Key,
         \A p \in Proc : (pc[p] = "held" /\ key[p] = k) <=> (pc'[p] = "held" /\ key'[p] = k)
  PROVE  AbsHolder'[k] = AbsHolder[k]
<1>1. CASE \E p \in Proc : pc[p] = "held" /\ key[p] = k
  BY <1>1 DEF HolderMapped
<1>2. CASE \A p \in Proc : ~ (pc[p] = "held" /\ key[p] = k)
  BY <1>2 DEF HolderMapped
<1> QED
  BY <1>1, <1>2

\* A step that changes neither who wants nor who holds is an abstract stutter.
LEMMA PhaseStutter ==
  ASSUME HolderMapped, HolderMapped', UNCHANGED key,
         \A p \in Proc : (pc[p] = "held") <=> (pc'[p] = "held"),
         \A p \in Proc : (pc[p] \in {"enter", "lookup", "wait"}) <=> (pc'[p] \in {"enter", "lookup", "wait"})
  PROVE  UNCHANGED Abs!vars
<1>1. AbsWants' = AbsWants
  BY DEF AbsWants
<1>2. ASSUME NEW k \in Key PROVE AbsHolder'[k] = AbsHolder[k]
  BY HolderSame
<1>3. AbsHolder' = AbsHolder
  BY <1>2 DEF AbsHolder
<1> QED
  BY <1>1, <1>3 DEF Abs!vars

\* An initial state is an initial state of the abstract lock.
LEMMA InitMaps == Init => Abs!Init
BY DEF Init, Abs!Init, AbsWants, AbsHolder

\* A call is a call of the abstract lock.
LEMMA CallMaps ==
  ASSUME TypeOK, HolderMapped, HolderMapped', NEW p \in Proc, NEW k \in Key, Call(p, k)
  PROVE  Abs!Ask(p, k)
<1> USE DEF Call, TypeOK, Phase
<1>1. \A j \in Key : p \notin AbsWants[j] /\ AbsHolder[j] # p
  BY DEF AbsWants, HolderMapped
<1>2. AbsWants' = [AbsWants EXCEPT ![k] = @ \cup {p}]
  <2>1. ASSUME NEW j \in Key, j # k PROVE AbsWants'[j] = AbsWants[j]
    BY <2>1 DEF AbsWants
  <2>2. AbsWants'[k] = AbsWants[k] \cup {p}
    BY DEF AbsWants
  <2> QED
    BY <2>1, <2>2 DEF AbsWants
<1>3. ASSUME NEW j \in Key PROVE AbsHolder'[j] = AbsHolder[j]
  BY HolderSame
<1>4. AbsHolder' = AbsHolder
  BY <1>3 DEF AbsHolder
<1> QED
  BY <1>1, <1>2, <1>4 DEF Abs!Ask

\* Taking the entry's lock takes the abstract lock.
LEMMA AcquireMaps ==
  ASSUME LockInvariant, HolderMapped, HolderMapped', NEW p \in Proc, Acquire(p)
  PROVE  \E k \in Key : Abs!Grant(p, k)
<1> USE DEF Acquire, LockInvariant, TypeOK, Phase
<1>0. PICK k \in Key : key[p] = k
  OBVIOUS
<1>1. p \in AbsWants[k]
  BY <1>0 DEF AbsWants
<1>2. AbsHolder[k] = NoProc
  <2>1. ASSUME NEW q \in Proc, pc[q] = "held", key[q] = k PROVE FALSE
    <3>1. obj[q] = obj[p] /\ lockMu[obj[q]] = q
      BY <1>0, <2>1 DEF EntryPinned, HolderInside, Counted
    <3> QED
      BY <3>1
  <2> QED
    BY <2>1 DEF HolderMapped
<1>3. AbsHolder'[k] = p
  BY <1>0 DEF HolderMapped
<1>4. ASSUME NEW j \in Key, j # k PROVE AbsHolder'[j] = AbsHolder[j]
  BY <1>0, <1>4, HolderSame
<1>5. AbsHolder' = [AbsHolder EXCEPT ![k] = p]
  <2>1. AbsHolder = [j \in Key |-> AbsHolder[j]] /\ AbsHolder' = [j \in Key |-> AbsHolder'[j]]
    BY DEF AbsHolder
  <2> QED
    BY <1>3, <1>4, <2>1
<1>6. ASSUME NEW j \in Key, j # k PROVE AbsWants'[j] = AbsWants[j]
  BY <1>0, <1>6 DEF AbsWants
<1>7. AbsWants'[k] = AbsWants[k] \ {p}
  BY <1>0 DEF AbsWants
<1>8. AbsWants' = [AbsWants EXCEPT ![k] = @ \ {p}]
  BY <1>6, <1>7 DEF AbsWants
<1> QED
  BY <1>1, <1>2, <1>5, <1>8 DEF Abs!Grant

\* Giving it back gives the abstract lock back.
LEMMA ReleaseMaps ==
  ASSUME LockInvariant, HolderMapped, HolderMapped', NEW p \in Proc, Release(p)
  PROVE  \E k \in Key : Abs!Give(p, k)
<1> USE DEF Release, Unlocked, LockInvariant, TypeOK, Phase
<1>0. PICK k \in Key : key[p] = k
  OBVIOUS
<1>1. AbsHolder[k] = p
  BY <1>0 DEF HolderMapped
<1>2. \A q \in Proc : ~ (pc'[q] = "held" /\ key'[q] = k)
  BY <1>0, <1>1 DEF HolderMapped
<1>3. AbsHolder'[k] = NoProc
  BY <1>2 DEF HolderMapped
<1>4. ASSUME NEW j \in Key, j # k PROVE AbsHolder'[j] = AbsHolder[j]
  BY <1>0, <1>4, HolderSame
<1>5. AbsHolder' = [AbsHolder EXCEPT ![k] = NoProc]
  BY <1>3, <1>4, ZenonT(40) DEF AbsHolder
<1>6. AbsWants' = AbsWants
  BY DEF AbsWants
<1> QED
  BY <1>1, <1>5, <1>6 DEF Abs!Give

\* The bookkeeping under k.mu is invisible to callers.
LEMMA BookkeepingStutters ==
  ASSUME LockInvariant, HolderMapped, HolderMapped', NEW p \in Proc,
         LockMap(p) \/ LookupExisting(p) \/ LookupNew(p) \/ Evict(p)
  PROVE  UNCHANGED Abs!vars
<1> USE DEF LockInvariant, TypeOK, Phase
<1>1. CASE LockMap(p)
  BY <1>1, PhaseStutter DEF LockMap
<1>2. CASE LookupExisting(p)
  BY <1>2, PhaseStutter DEF LookupExisting
<1>3. CASE LookupNew(p)
  BY <1>3, PhaseStutter DEF LookupNew
<1>4. CASE Evict(p)
  BY <1>4, PhaseStutter DEF Evict
<1> QED
  BY <1>1, <1>2, <1>3, <1>4

\* Every step is a step of the abstract lock, or none.
LEMMA NextMaps ==
  LockInvariant /\ HolderMapped /\ HolderMapped' /\ [Next]_vars => [Abs!Next]_(Abs!vars)
<1> SUFFICES ASSUME LockInvariant, HolderMapped, HolderMapped', [Next]_vars
             PROVE  [Abs!Next]_(Abs!vars)
  OBVIOUS
<1>1. ASSUME NEW p \in Proc, NEW k \in Key, Call(p, k) PROVE Abs!Next
  BY <1>1, CallMaps DEF Abs!Next, LockInvariant
<1>2. ASSUME NEW p \in Proc, Step(p) PROVE [Abs!Next]_(Abs!vars)
  BY <1>2, AcquireMaps, ReleaseMaps, BookkeepingStutters DEF Step, Abs!Next
<1>3. CASE UNCHANGED vars
  BY <1>3, PhaseStutter DEF vars
<1> QED
  BY <1>1, <1>2, <1>3 DEF Next

\* keyedMutex implements the abstract keyed lock: every behaviour of the
\* refcounted map is, for its callers, one of a plain per-key lock.
THEOREM ImplementsKeyedLockHolds == Spec => ImplementsKeyedLock
<1>1. LockInvariant => HolderMapped
  <2>1. LockInvariant => MutualExclusion
    BY DEF LockInvariant, MutualExclusion, EntryPinned, HolderInside, Counted
  <2> QED
    BY <2>1, HolderIs
<1> QED
  BY <1>1, InitMaps, NextMaps, InvariantHolds, PTL DEF Spec, ImplementsKeyedLock, Abs!Spec
=============================================================================

------------------------- MODULE KeyedMutexRefinement -------------------------
(***************************************************************************)
(* The refcounted map implements the abstract keyed lock: a caller wants   *)
(* its key from the call until l.mu is its own, and holds it until l.mu is *)
(* unlocked.  The bookkeeping of the map is stuttering.                    *)
(***************************************************************************)
EXTENDS KeyedMutex

AbsWants == [k \in Key |-> {p \in Proc : pc[p] \in {"enter", "lookup", "wait"} /\ key[p] = k}]

AbsHolder ==
  [k \in Key |->
     IF \E p \in Proc : pc[p] = "held" /\ key[p] = k
     THEN CHOOSE p \in Proc : pc[p] = "held" /\ key[p] = k
     ELSE NoProc]

Abs == INSTANCE AbstractKeyedLock WITH wants <- AbsWants, holder <- AbsHolder

\* keyedMutex.Lock and its closure behave, for every caller, as the abstract
\* keyed lock does.
ImplementsKeyedLock == Abs!Spec
=============================================================================

-------------------------- MODULE AbstractKeyedLock --------------------------
(***************************************************************************)
(* What keyedMutex.Lock promises its callers: for each key a set of        *)
(* callers and at most one of them inside.  No map, no counts, no objects. *)
(***************************************************************************)
CONSTANTS Proc, Key, NoProc

VARIABLES
  wants,     \* wants[k]: callers of Lock(k) that it has not returned to
  holder     \* holder[k]: the caller it returned to, or NoProc

vars == <<wants, holder>>

Init ==
  /\ wants = [k \in Key |-> {}]
  /\ holder = [k \in Key |-> NoProc]

Ask(p, k) ==
  /\ \A j \in Key : p \notin wants[j] /\ holder[j] # p
  /\ wants' = [wants EXCEPT ![k] = @ \cup {p}]
  /\ UNCHANGED holder

Grant(p, k) ==
  /\ p \in wants[k]
  /\ holder[k] = NoProc
  /\ holder' = [holder EXCEPT ![k] = p]
  /\ wants' = [wants EXCEPT ![k] = @ \ {p}]

Give(p, k) ==
  /\ holder[k] = p
  /\ holder' = [holder EXCEPT ![k] = NoProc]
  /\ UNCHANGED wants

Next == \E p \in Proc, k \in Key : Ask(p, k) \/ Grant(p, k) \/ Give(p, k)

Spec == Init /\ [][Next]_vars
=============================================================================

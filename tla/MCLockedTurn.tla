------------------------------ MODULE MCLockedTurn ------------------------------
(***************************************************************************)
(* Two overlapping turns of one conversation, with every fault and /reset; *)
(* and short ones, beside a turn of another conversation that uses the     *)
(* engine's mutex, too.                                                    *)
(***************************************************************************)
EXTENDS LockedTurn, MCConversationTurn

VARIABLE part
partVars == <<lockedVars, part>>

Symmetry == Turns \cup Permutations(Object)

MCInit == LockedInit /\ lockKey = [t \in Goroutine |-> Conversation] /\ part \in {"alone", "beside"}

MCNext ==
  /\ \/ \E t \in Turn, s \in Specialist, isReset \in BOOLEAN :
          (part = "beside" => s = a /\ ~isReset) /\ Begin(t, s, isReset)
     \/ \E t \in Turn :
          InLock(t) \/ TakeLock(t) \/ ((part = "beside" => Loads(t) \/ LlmFails(t)) /\ Proceed(t))
     \/ \E t \in OtherTurn : part = "beside" /\ OtherStep(t)
     \/ part = "alone" /\ Restart
  /\ UNCHANGED part

MCSpec == MCInit /\ [][MCNext]_partVars
=============================================================================

-------------------------- MODULE SerialConversation --------------------------
(***************************************************************************)
(* What the turn lock is for: seen from outside, the progress of a         *)
(* conversation is that of one speaker at a time.  A step is completed on  *)
(* top of all the steps completed before it and adds its score once.       *)
(***************************************************************************)
EXTENDS Integers

CONSTANT Points     \* the scores a completed step may be worth

VARIABLES step, score

vars == <<step, score>>

Init == step = 0 /\ score = 0

CompleteStep ==
  /\ step' = step + 1
  /\ \E p \in Points : score' = score + p

Restart == step' = 0 /\ score' = 0

Next == CompleteStep \/ Restart

Spec == Init /\ [][Next]_vars
=============================================================================

-------------------------- MODULE MCConversationTurn --------------------------
(* Two overlapping turns and one HTTP request; a two-step specialist that     *)
(* reaches every outcome and a one-step specialist to switch or heal to.      *)
EXTENDS ConversationSerial, TLC

Turns == Permutations(Turn)

CONSTANTS a, b, entry, hot, manual, lost

TwoSteps ==
  [s \in Specialist |->
     IF s = a
     THEN <<[score |-> 1, target |-> NoColumn], [score |-> 1, target |-> NoColumn]>>
     ELSE <<[score |-> 1, target |-> hot]>>]

\* 0 is reprovado, 1 is humano, 2 is aprovado.
GreyZone ==
  [s \in Specialist |->
     [threshold |-> 2, humanMin |-> 1, qualified |-> hot, human |-> manual, disqualified |-> lost]]
=============================================================================

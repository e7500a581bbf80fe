---------------------------- MODULE MCMessageIngest ----------------------------
(* Three deliveries of two messages: d1 and d2 carry the same one. *)
EXTENDS MessageIngest

CONSTANTS d1, d2, d3, first, second

Carries == [d \in Delivery |-> IF d = d3 THEN second ELSE first]
=============================================================================

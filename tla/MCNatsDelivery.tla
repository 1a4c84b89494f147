----------------------------- MODULE MCNatsDelivery -----------------------------
(* One event that is handled, one that always fails, one refused for good. *)
EXTENDS NatsDelivery
CONSTANTS c1, c2
=============================================================================

----------------------------- MODULE MCOutboxRelay -----------------------------
(* Two drains of one relay and one of another process. *)
EXTENDS OutboxRelay
CONSTANTS d1, d2, d3, r1, r2
MCOwnerOf == [d \in Drains |-> IF d = d3 THEN r2 ELSE r1]
=============================================================================

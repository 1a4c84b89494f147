--------------------------- MODULE MCTelemetryIngest ---------------------------
(* A batch of two records, and the same batch sent with both records changed   *)
(* and the second one no longer valid.                                         *)
EXTENDS TelemetryIngest
CONSTANTS t1, t2, batch, a, z

Rec(src, content, valid) == [src |-> src, content |-> content, valid |-> valid]

MCBatches ==
    {[id |-> batch, records |-> <<Rec(a, 1, TRUE), Rec(z, 1, TRUE)>>],
     [id |-> batch, records |-> <<Rec(a, 2, TRUE), Rec(z, 2, FALSE)>>]}
=============================================================================

---------------------------- MODULE MCBronzeCapture ----------------------------
(* A response sent with two different answers, under keys of their own and     *)
(* under the same key.                                                         *)
EXTENDS BronzeCapture
CONSTANTS p1, p2, k1, k2, response, yes, no

Request(key, answer) == [key |-> key, response |-> response, answer |-> answer]

MCRequests == {Request(k1, yes), Request(k2, no), Request(k1, no)}
=============================================================================

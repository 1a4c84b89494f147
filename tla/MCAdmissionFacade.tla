--------------------------- MODULE MCAdmissionFacade ---------------------------
(* Two requests carry the same source record, a third uses the id of the first *)
(* for another one.                                                            *)
EXTENDS AdmissionFacade
CONSTANTS p1, p2, i1, i2, a, z

Request(id, source) == [id |-> id, source |-> source]

MCRequests == {Request(i1, a), Request(i2, a), Request(i1, z)}
=============================================================================

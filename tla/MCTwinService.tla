----------------------------- MODULE MCTwinService -----------------------------
(* Two processes.  k1 and k2 create the same identity b, k3 creates none; k1  *)
(* is also submitted with a different body.                                  *)
EXTENDS TwinService, TLC
CONSTANTS p1, p2, k1, k2, k3, b

MCRequests ==
    {[key |-> k1, body |-> b], [key |-> k2, body |-> b], [key |-> k3, body |-> Free],
     [key |-> k1, body |-> Free]}

\* The same without the reuse of a key.
PlainRequests == MCRequests \ {[key |-> k1, body |-> Free]}

\* A key always reaches the same process, k2 another one than the others.
StickyRoutes(p, q) == [k \in {k1, k2, k3} |-> IF k = k2 THEN {q} ELSE {p}]

\* A retry may reach another process.
SharedRoutes == [k \in {k1, k2, k3} |-> {p1, p2}]

\* Clients that keep to one process, to what they observed, and to what they sent.
Careful ==
    {[requests |-> MCRequests, routes |-> routes, ahead |-> 0, refresh |-> FALSE] :
        routes \in {StickyRoutes(p1, p2), StickyRoutes(p2, p1)}}

\* Clients that do none of this.
Careless == {[requests |-> PlainRequests, routes |-> SharedRoutes, ahead |-> 1, refresh |-> TRUE]}

MCHabits == Careful \cup Careless

\* Careful clients but for their guesses.
MCGuessing ==
    {[requests |-> MCRequests, routes |-> StickyRoutes(p1, p2), ahead |-> 1, refresh |-> FALSE]}

\* The processes are interchangeable: so are the routes of careful clients.
Symmetry == Permutations(Procs)
=============================================================================

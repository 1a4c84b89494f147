------------------------------ MODULE OrderedFeed ------------------------------
(***************************************************************************)
(* What a state stream promises its client: of the events of the ledger    *)
(* that pass the subscription's filter the client comes to see each one,   *)
(* in ledger order, none left out.                                         *)
(***************************************************************************)
EXTENDS Naturals, Sequences

VARIABLES
    log,     \* the ledger: log[s] says whether event s passes the filter
    seen     \* sequence of the last event the client has seen

feedVars == <<log, seen>>

Init == log = <<>> /\ seen = 0

\* An event, wanted by this subscription or not, is committed.
Commit ==
    /\ \E wanted \in BOOLEAN : log' = Append(log, wanted)
    /\ UNCHANGED seen

\* The client sees the first wanted event it has not seen.
See ==
    /\ \E s \in DOMAIN log :
          /\ s > seen /\ log[s]
          /\ \A r \in DOMAIN log : r > seen /\ log[r] => s <= r
          /\ seen' = s
    /\ UNCHANGED log

Next == Commit \/ See

Spec == Init /\ [][Next]_feedVars

=============================================================================

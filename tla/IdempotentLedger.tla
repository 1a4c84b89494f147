---------------------------- MODULE IdempotentLedger ----------------------------
(***************************************************************************)
(* What the ledger of a twin promises those who write to it: requests are  *)
(* appended and never changed, an idempotency key gets in at most once,    *)
(* and a caller is told a position only if its request is what the ledger  *)
(* holds there.                                                            *)
(***************************************************************************)
EXTENDS Naturals, Sequences

CONSTANT KeyOf(_)   \* the idempotency key of a request

VARIABLES
    ledger,    \* the requests committed, in order
    answers    \* the positions told to callers: records [req, seq]

ledgerVars == <<ledger, answers>>

Init == ledger = <<>> /\ answers = {}

\* A request whose key is new is committed.
Append1(req) ==
    /\ \A s \in 1..Len(ledger) : KeyOf(ledger[s]) # KeyOf(req)
    /\ ledger' = Append(ledger, req)
    /\ UNCHANGED answers

\* Callers learn where their requests are.
Answer ==
    /\ answers \subseteq answers'
    /\ \A a \in answers' \ answers : a.seq \in 1..Len(ledger) /\ ledger[a.seq] = a.req
    /\ UNCHANGED ledger

\* At most one request is committed at a time; which one is the caller's choice.
Next ==
    \/ Len(ledger') > Len(ledger) /\ Append1(ledger'[Len(ledger')])
    \/ Answer

Spec == Init /\ [][Next]_ledgerVars

=============================================================================

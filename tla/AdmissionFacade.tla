---------------------------- MODULE AdmissionFacade ----------------------------
(***************************************************************************)
(* The public admission of evidence: InProcessK2Facade.admit_evidence and  *)
(* get_admission_result over the service and its ledger, the public error  *)
(* codes, and clients that go by them: they send a request again after a   *)
(* retryable error, with a fresh based_on_sequence after a stale one, and  *)
(* look the admission up before they take another error for an answer.     *)
(*                                                                         *)
(* A request is its id, which is the idempotency key, and the source       *)
(* record it carries, which is the evidence's identity.  The steps inside  *)
(* append are those of module TwinService as far as an admission sees      *)
(* them; several processes serve the same ledger.                          *)
(***************************************************************************)
EXTENDS Integers, Sequences, FiniteSets

CONSTANTS
    Procs,       \* processes with a facade
    Requests,    \* the requests clients have: records [id, source]
    Other,       \* the id of what other callers append
    NoSource,    \* the source of an event that is no evidence
    MaxOthers,   \* bound: events appended by other callers
    MaxFaults    \* bound: failed drains, busy databases, crashes, impatient clients

Sources == {r.source : r \in Requests}

ASSUME AdmissionAssumption ==
    /\ Requests # {}
    /\ \A r \in Requests : r = [id |-> r.id, source |-> r.source] /\ r.id # Other
    /\ NoSource \notin Sources
    /\ {MaxOthers, MaxFaults} \subseteq Nat

VARIABLES
    ledger,     \* the events: records [id, source]
    pc, call,   \* the admit_evidence call of each process
    error,      \* the error code the client of each request got last
    outcome,    \* what the client of each request concluded
    results,    \* history: the admission results of admit_evidence
    faults

vars == <<ledger, pc, call, error, outcome, results, faults>>

Codes == {"invalid_request", "stale_state", "invariant_violation", "temporarily_unavailable"}

\* Mutation: a refusal may be retried too.
RetryableButStale(code) == code # "stale_state"

\* retryable_for_code
Retryable(code) == code = "temporarily_unavailable"

NoCall == [req |-> CHOOSE r \in Requests : TRUE, based |-> 0, seq |-> 0]

Init ==
    /\ ledger = <<>>
    /\ pc = [p \in Procs |-> "idle"]
    /\ call = [p \in Procs |-> NoCall]
    /\ error = [r \in Requests |-> "none"]
    /\ outcome = [r \in Requests |-> "open"]
    /\ results = {}
    /\ faults = 0

-----------------------------------------------------------------------------
(* The ledger. *)

Stored(id) == {s \in 1..Len(ledger) : ledger[s].id = id}
Admitted(source) == \E s \in 1..Len(ledger) : ledger[s].source = source

Running(r) == \E p \in Procs : pc[p] # "idle" /\ call[p].req = r

Fault == faults < MaxFaults /\ faults' = faults + 1

-----------------------------------------------------------------------------
(* admit_evidence *)

\* A client sends its request, perhaps again before it has an answer.
Admit(p, r, based) ==
    /\ pc[p] = "idle"
    /\ outcome[r] = "open"
    /\ IF Running(r) THEN Fault
       ELSE (error[r] = "none" \/ Retryable(error[r])) /\ UNCHANGED faults
    /\ based <= Len(ledger)
    /\ call' = [call EXCEPT ![p] = [req |-> r, based |-> based, seq |-> 0]]
    /\ pc' = [pc EXCEPT ![p] = "preview"]
    /\ UNCHANGED <<ledger, error, outcome, results>>

\* The call ends; _translate_error gives the exception a public code.
Raise(p, code) ==
    /\ pc' = [pc EXCEPT ![p] = "idle"]
    /\ call' = [call EXCEPT ![p] = NoCall]
    /\ error' = [error EXCEPT ![call[p].req] = code]

\* append previews the transition if the head is where the caller expects it.
Preview(p) ==
    /\ pc[p] = "preview"
    /\ IF Len(ledger) = call[p].based /\ Admitted(call[p].req.source)
         THEN Raise(p, "invalid_request")
         ELSE pc' = [pc EXCEPT ![p] = "store"] /\ UNCHANGED <<call, error>>
    /\ UNCHANGED <<ledger, outcome, results, faults>>

\* store.append refuses: the request id was used for another request, ...
Refuse(p) ==
    /\ pc[p] = "store"
    /\ \E s \in Stored(call[p].req.id) : ledger[s] # call[p].req
    /\ Raise(p, "invalid_request")
    /\ UNCHANGED <<ledger, outcome, results, faults>>

\* ... or the head is elsewhere.
Stale(p) ==
    /\ pc[p] = "store"
    /\ Stored(call[p].req.id) = {} /\ Len(ledger) # call[p].based
    /\ Raise(p, "stale_state")
    /\ UNCHANGED <<ledger, outcome, results, faults>>

Persisted(p, s) ==
    /\ call' = [call EXCEPT ![p].seq = s]
    /\ pc' = [pc EXCEPT ![p] = "drain"]
    /\ UNCHANGED <<error, outcome, results, faults>>

Commit(p) ==
    /\ pc[p] = "store"
    /\ Stored(call[p].req.id) = {} /\ Len(ledger) = call[p].based
    /\ ledger' = Append(ledger, call[p].req)
    /\ Persisted(p, Len(ledger) + 1)

\* The stored event is returned.
Replay(p) ==
    /\ pc[p] = "store"
    /\ \E s \in Stored(call[p].req.id) : ledger[s] = call[p].req /\ Persisted(p, s)
    /\ UNCHANGED ledger

\* Mutation: the result names the representation's newest position.
RespondAtHead(p) ==
    /\ pc[p] = "drain"
    /\ results' = results \cup {[req |-> call[p].req, seq |-> Len(ledger)]}
    /\ outcome' = [outcome EXCEPT ![call[p].req] = "admitted"]
    /\ Raise(p, "none")
    /\ UNCHANGED <<ledger, faults>>

\* _event_to_result: the result names the position of the event.  (Its replayed
\* flag compares that with a head read before the call; it is left out.)
Respond(p) ==
    /\ pc[p] = "drain"
    /\ results' = results \cup {[req |-> call[p].req, seq |-> call[p].seq]}
    /\ outcome' = [outcome EXCEPT ![call[p].req] = "admitted"]
    /\ Raise(p, "none")
    /\ UNCHANGED <<ledger, faults>>

\* The event is committed, but the drain after it raises IntegrityError, or the
\* database is busy.
DrainFails(p) ==
    /\ pc[p] = "drain"
    /\ Fault
    /\ \E code \in {"invariant_violation", "temporarily_unavailable"} : Raise(p, code)
    /\ UNCHANGED <<ledger, outcome, results>>

\* The process dies, or the answer is lost: the client takes the service for
\* unavailable.
Crash(p) ==
    /\ pc[p] # "idle"
    /\ Fault
    /\ Raise(p, "temporarily_unavailable")
    /\ UNCHANGED <<ledger, outcome, results>>

-----------------------------------------------------------------------------
(* get_admission_result *)

\* Mutation: only the newest event is looked at.
FoundAtHead(r) == ledger # <<>> /\ ledger[Len(ledger)].id = r.id

\* The ledger has an event with the request's id.
Found(r) == Stored(r.id) # {}

\* After an error that is not retryable the client looks its admission up.  If
\* there is none it starts afresh after a stale state and gives up otherwise.
Lookup(r) ==
    /\ outcome[r] = "open" /\ ~Running(r)
    /\ error[r] # "none" /\ ~Retryable(error[r])
    /\ outcome' = [outcome EXCEPT ![r] = IF Found(r) THEN "admitted"
                                         ELSE IF error[r] = "stale_state" THEN "open"
                                         ELSE "refused"]
    /\ error' = [error EXCEPT ![r] = "none"]
    /\ UNCHANGED <<ledger, pc, call, results, faults>>

-----------------------------------------------------------------------------

Others == Cardinality(Stored(Other))

\* Other callers append: evidence of the same source, or anything else.
OtherAppend(source) ==
    /\ Others < MaxOthers
    /\ ~Admitted(source) \/ source = NoSource
    /\ ledger' = Append(ledger, [id |-> Other, source |-> source])
    /\ UNCHANGED <<pc, call, error, outcome, results, faults>>

Step(p) ==
    \/ Preview(p) \/ Refuse(p) \/ Stale(p) \/ Commit(p) \/ Replay(p) \/ Respond(p)

Next ==
    \/ \E p \in Procs :
          \/ \E r \in Requests, based \in 0..Len(ledger) : Admit(p, r, based)
          \/ Step(p) \/ DrainFails(p) \/ Crash(p)
    \/ \E r \in Requests : Lookup(r)
    \/ \E source \in Sources \cup {NoSource} : OtherAppend(source)
    \/ (\A r \in Requests : outcome[r] # "open") /\ UNCHANGED vars

Spec == Init /\ [][Next]_vars

\* Calls run on; clients go on until they have an outcome.
Fairness ==
    /\ \A p \in Procs : WF_vars(Step(p))
    /\ \A r \in Requests :
          /\ WF_vars(Lookup(r))
          /\ SF_vars(\E p \in Procs : Admit(p, r, Len(ledger)))

FairSpec == Spec /\ Fairness

-----------------------------------------------------------------------------
(* Properties. *)

Event == Requests \cup [id : {Other}, source : Sources \cup {NoSource}]

\* Every variable has its type.
TypeOK ==
    /\ ledger \in Seq(Event)
    /\ pc \in [Procs -> {"idle", "preview", "store", "drain"}]
    /\ call \in [Procs -> [req : Requests, based : 0..Len(ledger), seq : 0..Len(ledger)]]
    /\ error \in [Requests -> Codes \cup {"none"}]
    /\ outcome \in [Requests -> {"open", "admitted", "refused"}]
    /\ results \subseteq [req : Requests, seq : 1..Len(ledger)]
    /\ faults \in 0..MaxFaults

\* All results of a request name the position where the ledger has it, whoever
\* answered and however often it was sent.
ResultsAgree == \A res \in results : ledger[res.seq] = res.req

\* A source record is evidence once, whatever requests and other callers carry
\* it.
EvidenceOnce ==
    \A s, t \in 1..Len(ledger) :
        ledger[s].source = ledger[t].source /\ ledger[s].source # NoSource => s = t

\* Types, results that name the request's event, and evidence that is there once.
AdmissionInv == TypeOK /\ ResultsAgree /\ EvidenceOnce

\* What a client concludes is so, and stays so: an admission it believes in is
\* in the ledger, unless it used the id for another request as well, and a
\* request it gave up is not there and never will be.
OutcomesTrue ==
    \A r \in Requests :
        LET there == \E s \in Stored(r.id) : ledger[s] = r IN
        /\ outcome[r] = "refused" => ~there
        /\ outcome[r] = "admitted" /\ (\A q \in Requests : q.id = r.id => q = r) => there

\* Every client comes to an outcome.
EveryClientConcludes == \A r \in Requests : <>(outcome[r] # "open")

=============================================================================

------------------------ MODULE AdmissionFacade_proofs ------------------------
(***************************************************************************)
(* The safety properties of AdmissionFacade for any number of processes,   *)
(* requests, other callers and faults; and those of Disclosure, which the  *)
(* facade's projections rest on, for any claims, requests and consents and *)
(* any course of the clock.                                                *)
(***************************************************************************)
EXTENDS AdmissionFacade, Disclosure, FiniteSetTheorems, TLAPS

\* A call that may still commit was previewed against the ledger as it is.
PreviewHolds ==
    \A p \in Procs :
        pc[p] = "store" /\ Len(ledger) = call[p].based => ~Admitted(call[p].req.source)

\* A call whose event is persisted knows where it is.
PersistedIsThere ==
    \A p \in Procs :
        pc[p] = "drain" => call[p].seq \in 1..Len(ledger) /\ ledger[call[p].seq] = call[p].req

\* No call runs for a request its client has given up.
RefusedIsOver ==
    \A p \in Procs : pc[p] # "idle" => outcome[call[p].req] # "refused"

\* The inductive invariant.
Inv ==
    /\ TypeOK
    /\ PreviewHolds
    /\ PersistedIsThere
    /\ RefusedIsOver
    /\ ResultsAgree
    /\ EvidenceOnce
    /\ OutcomesTrue

-----------------------------------------------------------------------------

\* Requests have the parts they are given; no other caller uses their ids.
LEMMA Parts ==
  /\ NoCall \in [req : Requests, based : {0}, seq : {0}]
  /\ \A r \in Requests : r.source \in Sources /\ r.source # NoSource /\ r.id # Other
  /\ \A e \in Event : e.id # Other => e \in Requests
BY AdmissionAssumption DEF NoCall, Sources, Event

\* What the calls know stays in range when the ledger grows, and a call may learn
\* the position of its event.
LEMMA CallTypes ==
  ASSUME NEW m \in Nat, NEW n \in Nat, m <= n,
         NEW c \in [Procs -> [req : Requests, based : 0..m, seq : 0..m]],
         NEW p \in Procs, NEW s \in 0..n
  PROVE  /\ c \in [Procs -> [req : Requests, based : 0..n, seq : 0..n]]
         /\ [c EXCEPT ![p].seq = s] \in [Procs -> [req : Requests, based : 0..n, seq : 0..n]]
<1>1. 0..m \subseteq 0..n
  OBVIOUS
<1>2. \A q \in Procs : c[q] \in [req : Requests, based : 0..n, seq : 0..n]
  BY <1>1
<1>3. [c[p] EXCEPT !.seq = s] \in [req : Requests, based : 0..n, seq : 0..n]
  BY <1>2
<1> QED BY <1>2, <1>3

\* The initial state satisfies the invariant.
LEMMA InitInv == Init => Inv
<1> SUFFICES ASSUME Init PROVE Inv
  OBVIOUS
<1> USE DEF Init
<1>1. TypeOK
  BY Parts, AdmissionAssumption DEF TypeOK, Codes
<1> QED BY <1>1 DEF Inv, PreviewHolds, PersistedIsThere, RefusedIsOver, ResultsAgree,
                    EvidenceOnce, OutcomesTrue

\* A client sends its request.
LEMMA AdmitInv ==
  ASSUME Inv, NEW p \in Procs, NEW r \in Requests, NEW based \in 0..Len(ledger), Admit(p, r, based)
  PROVE  Inv'
<1> USE DEF Inv
<1>1. /\ outcome[r] = "open" /\ UNCHANGED <<ledger, error, outcome, results>>
      /\ call' = [call EXCEPT ![p] = [req |-> r, based |-> based, seq |-> 0]]
      /\ pc' = [pc EXCEPT ![p] = "preview"]
      /\ faults' \in 0..MaxFaults
  BY AdmissionAssumption DEF Admit, Fault, TypeOK
<1>2. /\ pc'[p] = "preview" /\ call'[p].req = r
      /\ \A q \in Procs \ {p} : pc'[q] = pc[q] /\ call'[q] = call[q]
  BY <1>1 DEF TypeOK
<1>3. TypeOK'
  BY <1>1 DEF TypeOK
<1>4. PreviewHolds' /\ PersistedIsThere' /\ RefusedIsOver'
  BY <1>1, <1>2 DEF PreviewHolds, PersistedIsThere, RefusedIsOver, Admitted
<1> QED BY <1>1, <1>3, <1>4 DEF ResultsAgree, EvidenceOnce, OutcomesTrue, Stored

\* A call ends with an error, and the client learns the code.
LEMMA RaiseInv ==
  ASSUME Inv, NEW p \in Procs, NEW code \in Codes, Raise(p, code),
         UNCHANGED <<ledger, outcome, results>>, faults' \in 0..MaxFaults
  PROVE  Inv'
<1> USE DEF Inv, Raise
<1>1. /\ pc'[p] = "idle"
      /\ \A q \in Procs \ {p} : pc'[q] = pc[q] /\ call'[q] = call[q]
  BY DEF TypeOK
<1>2. TypeOK'
  <2>1. NoCall \in [req : Requests, based : 0..Len(ledger), seq : 0..Len(ledger)]
    BY Parts DEF TypeOK
  <2> QED BY <2>1 DEF TypeOK
<1>3. PreviewHolds' /\ PersistedIsThere' /\ RefusedIsOver'
  BY <1>1 DEF PreviewHolds, PersistedIsThere, RefusedIsOver, Admitted
<1> QED BY <1>2, <1>3 DEF ResultsAgree, EvidenceOnce, OutcomesTrue, Stored

\* The steps that end so.
LEMMA ErrorInv ==
  ASSUME Inv, NEW p \in Procs, Refuse(p) \/ Stale(p) \/ DrainFails(p) \/ Crash(p)
  PROVE  Inv'
<1>1. /\ \E code \in Codes : Raise(p, code)
      /\ UNCHANGED <<ledger, outcome, results>> /\ faults' \in 0..MaxFaults
  BY AdmissionAssumption DEF Inv, Refuse, Stale, DrainFails, Crash, Fault, Codes, TypeOK
<1> QED BY <1>1, RaiseInv

\* The preview refuses, or finds the source free if the head is as expected.
LEMMA PreviewInv == ASSUME Inv, NEW p \in Procs, Preview(p) PROVE Inv'
<1> USE DEF Inv
<1>1. CASE Len(ledger) = call[p].based /\ Admitted(call[p].req.source)
  BY <1>1, RaiseInv DEF Preview, Codes, TypeOK
<1>2. CASE ~(Len(ledger) = call[p].based /\ Admitted(call[p].req.source))
  <2>1. /\ pc' = [pc EXCEPT ![p] = "store"] /\ pc[p] = "preview"
        /\ UNCHANGED <<ledger, call, error, outcome, results, faults>>
    BY <1>2 DEF Preview
  <2>2. TypeOK'
    BY <2>1 DEF TypeOK
  <2>3. PreviewHolds' /\ PersistedIsThere' /\ RefusedIsOver'
    BY <1>2, <2>1 DEF PreviewHolds, PersistedIsThere, RefusedIsOver, Admitted, TypeOK
  <2> QED BY <2>1, <2>2, <2>3 DEF ResultsAgree, EvidenceOnce, OutcomesTrue, Stored
<1> QED BY <1>1, <1>2

\* What a longer ledger leaves as it was.
LEMMA Longer ==
  ASSUME TypeOK, NEW e \in Event, ledger' = Append(ledger, e)
  PROVE  /\ Len(ledger) \in Nat /\ ledger' \in Seq(Event) /\ Len(ledger') = Len(ledger) + 1
         /\ \A s \in 1..Len(ledger) : ledger'[s] = ledger[s]
         /\ ledger'[Len(ledger) + 1] = e
         /\ \A s \in 1..Len(ledger') : s \in 1..Len(ledger) \/ s = Len(ledger) + 1
BY DEF TypeOK

\* The event of a new source, or of none, keeps the evidence unique.
LEMMA EvidenceOnceStep ==
  ASSUME TypeOK, EvidenceOnce, NEW e \in Event, ledger' = Append(ledger, e),
         ~Admitted(e.source) \/ e.source = NoSource
  PROVE  EvidenceOnce'
BY Longer DEF EvidenceOnce, Admitted

\* An admission is committed: its source is not in the ledger yet.
LEMMA CommitInv == ASSUME Inv, NEW p \in Procs, Commit(p) PROVE Inv'
<1> USE DEF Inv
<1> DEFINE e == call[p].req
           n == Len(ledger) + 1
<1>1. /\ pc[p] = "store" /\ e \in Requests /\ e \in Event
      /\ ledger' = Append(ledger, e) /\ Len(ledger) = call[p].based
      /\ call' = [call EXCEPT ![p].seq = n] /\ pc' = [pc EXCEPT ![p] = "drain"]
      /\ UNCHANGED <<error, outcome, results, faults>>
  BY DEF Commit, Persisted, TypeOK, Event
<1>2. outcome[e] # "refused"
  BY <1>1 DEF RefusedIsOver
<1>3. ~Admitted(e.source)
  BY <1>1 DEF PreviewHolds
<1>4. /\ pc'[p] = "drain" /\ call'[p] = [call[p] EXCEPT !.seq = n]
      /\ call'[p].req = e /\ call'[p].seq = n
      /\ \A q \in Procs \ {p} : pc'[q] = pc[q] /\ call'[q] = call[q]
  BY <1>1 DEF TypeOK
<1> HIDE DEF e
<1>5. /\ Len(ledger) \in Nat /\ ledger' \in Seq(Event) /\ Len(ledger') = n
      /\ \A s \in 1..Len(ledger) : ledger'[s] = ledger[s]
      /\ ledger'[n] = e
      /\ \A s \in 1..Len(ledger') : s \in 1..Len(ledger) \/ s = n
  BY <1>1, Longer
<1>6. TypeOK'
  <2>1. call' \in [Procs -> [req : Requests, based : 0..n, seq : 0..n]]
    <3>1. n \in Nat /\ Len(ledger) <= n /\ n \in 0..n
      BY <1>5
    <3>2. call \in [Procs -> [req : Requests, based : 0..Len(ledger), seq : 0..Len(ledger)]]
      BY DEF TypeOK
    <3> HIDE DEF n
    <3> QED BY <1>1, <1>5, <3>1, <3>2, CallTypes
  <2>2. results' \subseteq [req : Requests, seq : 1..Len(ledger')]
    BY <1>1, <1>5 DEF TypeOK
  <2> QED BY <1>1, <1>5, <2>1, <2>2 DEF TypeOK
<1> HIDE DEF n
<1>7. PreviewHolds'
  <2>1. \A q \in Procs : call[q].based \in 0..Len(ledger)
    BY DEF TypeOK
  <2>2. Len(ledger') = Len(ledger) + 1
    BY <1>5 DEF n
  <2> QED BY <1>4, <1>5, <2>1, <2>2 DEF PreviewHolds
<1>8. PersistedIsThere'
  <2>1. n \in 1..Len(ledger')
    BY <1>5 DEF n
  <2>2. \A s \in 1..Len(ledger) : s \in 1..Len(ledger')
    BY <1>5 DEF n
  <2>3. \A q \in Procs \ {p} : pc[q] = "drain" =>
             call'[q].seq \in 1..Len(ledger') /\ ledger'[call'[q].seq] = call'[q].req
    BY <1>4, <1>5, <2>2 DEF PersistedIsThere
  <2>4. call'[p].seq \in 1..Len(ledger') /\ ledger'[call'[p].seq] = call'[p].req
    BY <1>4, <1>5, <2>1
  <2> QED BY <1>4, <2>3, <2>4 DEF PersistedIsThere
<1>9. RefusedIsOver'
  BY <1>1, <1>2, <1>4 DEF RefusedIsOver
<1>10. ResultsAgree'
  BY <1>1, <1>5 DEF ResultsAgree, TypeOK
<1>11. EvidenceOnce'
  BY <1>1, <1>3, EvidenceOnceStep
<1>12. OutcomesTrue'
  <2>1. \A r \in Requests, s \in 1..Len(ledger) : s \in Stored(r.id)' <=> s \in Stored(r.id)
    BY <1>5 DEF Stored, n
  <2>2. \A r \in Requests : (\E s \in Stored(r.id)' : ledger'[s] = r)
                              <=> (\E s \in Stored(r.id) : ledger[s] = r) \/ r = e
    BY <1>1, <1>5, <2>1 DEF Stored, n
  <2> QED BY <1>1, <1>2, <2>2 DEF OutcomesTrue
<1> QED BY <1>6, <1>7, <1>8, <1>9, <1>10, <1>11, <1>12

\* The stored event is found.
LEMMA ReplayInv == ASSUME Inv, NEW p \in Procs, Replay(p) PROVE Inv'
<1> USE DEF Inv
<1>1. PICK s \in Stored(call[p].req.id) : ledger[s] = call[p].req /\ Persisted(p, s)
  BY DEF Replay
<1>2. /\ pc[p] = "store" /\ s \in 1..Len(ledger)
      /\ call' = [call EXCEPT ![p].seq = s] /\ pc' = [pc EXCEPT ![p] = "drain"]
      /\ UNCHANGED <<ledger, error, outcome, results, faults>>
  BY <1>1 DEF Replay, Persisted, Stored
<1>3. /\ pc'[p] = "drain" /\ call'[p].req = call[p].req /\ call'[p].seq = s
      /\ \A q \in Procs \ {p} : pc'[q] = pc[q] /\ call'[q] = call[q]
  BY <1>2 DEF TypeOK
<1>4. TypeOK'
  <2>1. call' \in [Procs -> [req : Requests, based : 0..Len(ledger), seq : 0..Len(ledger)]]
    <3>1. Len(ledger) \in Nat /\ s \in 0..Len(ledger)
      BY <1>2 DEF TypeOK
    <3>2. call \in [Procs -> [req : Requests, based : 0..Len(ledger), seq : 0..Len(ledger)]]
      BY DEF TypeOK
    <3> QED BY <1>2, <3>1, <3>2, CallTypes
  <2> QED BY <1>2, <2>1 DEF TypeOK
<1>5. PreviewHolds' /\ PersistedIsThere' /\ RefusedIsOver'
  BY <1>1, <1>2, <1>3 DEF PreviewHolds, PersistedIsThere, RefusedIsOver, Admitted
<1> QED BY <1>2, <1>4, <1>5 DEF ResultsAgree, EvidenceOnce, OutcomesTrue, Stored

\* The client gets its result.
LEMMA RespondInv == ASSUME Inv, NEW p \in Procs, Respond(p) PROVE Inv'
<1> USE DEF Inv
<1> DEFINE e == call[p].req
<1>1. /\ pc[p] = "drain" /\ e \in Requests
      /\ results' = results \cup {[req |-> e, seq |-> call[p].seq]}
      /\ outcome' = [outcome EXCEPT ![e] = "admitted"]
      /\ Raise(p, "none") /\ UNCHANGED <<ledger, faults>>
  BY DEF Respond, TypeOK
<1>2. call[p].seq \in 1..Len(ledger) /\ ledger[call[p].seq] = e
  BY <1>1 DEF PersistedIsThere
<1>3. /\ pc'[p] = "idle"
      /\ \A q \in Procs \ {p} : pc'[q] = pc[q] /\ call'[q] = call[q]
  BY <1>1 DEF Raise, TypeOK
<1>4. TypeOK'
  <2>1. NoCall \in [req : Requests, based : 0..Len(ledger), seq : 0..Len(ledger)]
    BY Parts DEF TypeOK
  <2>2. results' \subseteq [req : Requests, seq : 1..Len(ledger)]
    BY <1>1, <1>2 DEF TypeOK
  <2> QED BY <1>1, <2>1, <2>2 DEF Raise, TypeOK
<1>5. PreviewHolds' /\ PersistedIsThere'
  BY <1>1, <1>3 DEF PreviewHolds, PersistedIsThere, Admitted
<1>6. RefusedIsOver'
  BY <1>1, <1>3 DEF RefusedIsOver, TypeOK
<1>7. ResultsAgree' /\ EvidenceOnce'
  BY <1>1, <1>2 DEF ResultsAgree, EvidenceOnce
<1>8. OutcomesTrue'
  <2>1. \E s \in Stored(e.id) : ledger[s] = e
    BY <1>2 DEF Stored
  <2>2. \A r \in Requests : outcome'[r] = IF r = e THEN "admitted" ELSE outcome[r]
    BY <1>1 DEF TypeOK
  <2>3. \A id : Stored(id)' = Stored(id)
    BY <1>1 DEF Stored
  <2> QED BY <1>1, <2>1, <2>2, <2>3 DEF OutcomesTrue
<1> QED BY <1>4, <1>5, <1>6, <1>7, <1>8

\* A client looks its admission up and concludes, or starts over.
LEMMA LookupInv == ASSUME Inv, NEW r \in Requests, Lookup(r) PROVE Inv'
<1> USE DEF Inv
<1>1. /\ outcome[r] = "open" /\ ~Running(r)
      /\ outcome' = [outcome EXCEPT ![r] = outcome'[r]]
      /\ outcome'[r] \in {"open", "admitted", "refused"}
      /\ outcome'[r] = "admitted" => Found(r)
      /\ outcome'[r] = "refused" => ~Found(r)
      /\ error' = [error EXCEPT ![r] = "none"]
      /\ UNCHANGED <<ledger, pc, call, results, faults>>
  BY DEF Lookup, TypeOK
<1>2. TypeOK'
  BY <1>1 DEF TypeOK
<1>3. \A q \in Requests \ {r} : outcome'[q] = outcome[q]
  BY <1>1 DEF TypeOK
<1>4. PreviewHolds' /\ PersistedIsThere' /\ ResultsAgree' /\ EvidenceOnce'
  BY <1>1 DEF PreviewHolds, PersistedIsThere, ResultsAgree, EvidenceOnce, Admitted
<1>5. RefusedIsOver'
  BY <1>1, <1>3 DEF RefusedIsOver, Running, TypeOK
<1>6. OutcomesTrue'
  <2>1. \A id : Stored(id)' = Stored(id)
    BY <1>1 DEF Stored
  <2>2. ASSUME outcome'[r] = "admitted", \A q \in Requests : q.id = r.id => q = r
        PROVE  \E s \in Stored(r.id) : ledger[s] = r
    <3>1. PICK s \in 1..Len(ledger) : ledger[s].id = r.id
      BY <1>1, <2>2 DEF Found, Stored
    <3>2. ledger[s] \in Requests
      BY <3>1, Parts DEF TypeOK
    <3> QED BY <2>2, <3>1, <3>2 DEF Stored
  <2>3. outcome'[r] = "refused" => ~\E s \in Stored(r.id) : ledger[s] = r
    BY <1>1 DEF Found
  <2> QED BY <1>1, <1>3, <2>1, <2>2, <2>3 DEF OutcomesTrue
<1> QED BY <1>2, <1>4, <1>5, <1>6

\* Another caller appends.
LEMMA OtherInv ==
  ASSUME Inv, NEW source \in Sources \cup {NoSource}, OtherAppend(source)
  PROVE  Inv'
<1> USE DEF Inv
<1> DEFINE e == [id |-> Other, source |-> source]
           n == Len(ledger) + 1
<1>1. /\ e \in Event /\ e.source = source /\ e.id = Other /\ ledger' = Append(ledger, e)
      /\ ~Admitted(source) \/ source = NoSource
      /\ UNCHANGED <<pc, call, error, outcome, results, faults>>
  BY DEF OtherAppend, Event
<1> HIDE DEF e
<1>2. /\ Len(ledger) \in Nat /\ ledger' \in Seq(Event) /\ Len(ledger') = n
      /\ \A s \in 1..Len(ledger) : ledger'[s] = ledger[s]
      /\ ledger'[n] = e
      /\ \A s \in 1..Len(ledger') : s \in 1..Len(ledger) \/ s = n
  BY <1>1, Longer
<1>3. TypeOK'
  <2>1. call' \in [Procs -> [req : Requests, based : 0..Len(ledger'), seq : 0..Len(ledger')]]
    BY <1>1, <1>2 DEF TypeOK
  <2>2. results' \subseteq [req : Requests, seq : 1..Len(ledger')]
    BY <1>1, <1>2 DEF TypeOK
  <2> QED BY <1>1, <1>2, <2>1, <2>2 DEF TypeOK
<1>4. PreviewHolds'
  <2>1. \A q \in Procs : call[q].based \in 0..Len(ledger)
    BY DEF TypeOK
  <2> QED BY <1>1, <1>2, <2>1 DEF PreviewHolds
<1>5. PersistedIsThere' /\ RefusedIsOver' /\ ResultsAgree'
  BY <1>1, <1>2 DEF PersistedIsThere, RefusedIsOver, ResultsAgree, TypeOK
<1>6. EvidenceOnce'
  BY <1>1, EvidenceOnceStep
<1>7. OutcomesTrue'
  <2>1. \A r \in Requests : Stored(r.id)' = Stored(r.id)
    BY <1>1, <1>2, Parts DEF Stored
  <2>2. \A r \in Requests : \A s \in Stored(r.id) : ledger'[s] = ledger[s]
    BY <1>2 DEF Stored
  <2>3. \A r \in Requests : (\E s \in Stored(r.id)' : ledger'[s] = r)
                              <=> (\E s \in Stored(r.id) : ledger[s] = r)
    BY <2>1, <2>2
  <2> QED BY <1>1, <2>3 DEF OutcomesTrue
<1> QED BY <1>3, <1>4, <1>5, <1>6, <1>7

\* Every step preserves the invariant.
LEMMA NextInv == Inv /\ [Next]_vars => Inv'
<1> SUFFICES ASSUME Inv, [Next]_vars PROVE Inv'
  OBVIOUS
<1>1. ASSUME NEW p \in Procs, Step(p) PROVE Inv'
  BY <1>1, PreviewInv, ErrorInv, CommitInv, ReplayInv, RespondInv DEF Step
<1>2. CASE UNCHANGED vars
  <2> USE <1>2 DEF vars
  <2>1. TypeOK'
    BY DEF Inv, TypeOK
  <2> QED BY <2>1 DEF Inv, PreviewHolds, PersistedIsThere, RefusedIsOver, ResultsAgree, EvidenceOnce,
                      OutcomesTrue, Stored, Admitted
<1> QED BY <1>1, <1>2, AdmitInv, ErrorInv, LookupInv, OtherInv DEF Next

\* The invariant holds in every reachable state.
LEMMA Invariance == Spec => []Inv
BY InitInv, NextInv, PTL DEF Spec

-----------------------------------------------------------------------------
(* Theorems. *)

\* Types; every result names the position where the ledger has the request; a
\* source record is evidence once.
THEOREM AdmissionSound == Spec => []AdmissionInv
<1>1. Inv => AdmissionInv
  BY DEF Inv, AdmissionInv
<1> QED BY <1>1, Invariance, PTL

\* What a client concludes from the error codes and the lookup is so, and stays
\* so, over lost answers, failed drains, crashes and impatient retries.
THEOREM ClientsConcludeTruly == Spec => []OutcomesTrue
BY Invariance, PTL DEF Inv

-----------------------------------------------------------------------------
(* The consent boundary behind the facade: module Disclosure. *)

\* What the policy found stays so while the clock moves: the consent covers the
\* request, was not revoked, and had begun.
Permitted ==
    stage \in {"issue", "issued"} =>
        /\ consent # NoConsent /\ ~consent.revoked /\ consent.from <= now
        /\ request.sensitivity <= consent.sensitivity
        /\ fields # {}

\* What the receipt says is what was selected, and it is within the consent.
ReceiptMade ==
    stage = "issued" =>
        /\ receipt.fields = fields
        /\ receipt.sources = UNION {Selected(claims, request, f) : f \in fields}
        /\ consent.from <= receipt.issued /\ receipt.expires <= consent.until

\* The inductive invariant.
ProjectionsInv == ProjectionTypeOK /\ Permitted /\ ReceiptMade

-----------------------------------------------------------------------------

\* The case has the parts that the assumption gives it.
LEMMA CaseParts ==
  ASSUME ProjectionTypeOK
  PROVE  /\ claims \in [Claims -> Claim]
         /\ request.sensitivity \in Nat /\ request.validAt \in Nat /\ request.knownAt \in Nat
         /\ request.fields # {}
         /\ consent # NoConsent =>
               consent.sensitivity \in Nat /\ consent.from \in Nat /\ consent.until \in Nat
<1> DEFINE case == [claims |-> claims, request |-> request, consent |-> consent]
<1>1. case \in Cases
  BY DEF ProjectionTypeOK
<1>2. case.claims = claims /\ case.request = request /\ case.consent = consent
  OBVIOUS
<1> HIDE DEF case
<1> QED BY <1>1, <1>2, DisclosureAssumption

\* The two policies agree, whatever they are asked.
LEMMA PoliciesAgree ==
  ASSUME NEW g, NEW r, NEW time \in Nat,
         g # NoConsent => g.from \in Nat /\ g.until \in Nat
  PROVE  Evaluated(g, r, time) = RegoDisclosed(g, r, time)
<1>1. "raw_evidence" \notin Artifacts
  BY DEF Artifacts
<1>2. r.fields \subseteq Artifacts \cap g.fields
        <=> \A f \in r.fields : f \in g.fields \cap Artifacts /\ f # "raw_evidence"
  BY <1>1
<1>3. g # NoConsent => (ActiveAt(g, time) <=> ~g.revoked /\ time \in g.from..(g.until - 1))
  BY DEF ActiveAt
<1>4. CASE r.fields = {}
  BY <1>4 DEF Evaluated, RegoDisclosed, GrantedFields
<1>5. CASE r.fields # {}
  BY <1>2, <1>3, <1>5 DEF Evaluated, RegoDisclosed, GrantedFields, Granted
<1> QED BY <1>4, <1>5

\* What is selected for an artifact may be seen and was judged.
LEMMA SelectedVisible ==
  ASSUME NEW state, NEW r, NEW f, NEW id \in Selected(state, r, f)
  PROVE  /\ id \in Claims /\ ~state[id].stale /\ Visible(state[id], r)
         /\ \/ state[id].review = "accepted"
            \/ state[id].review = "contested" /\ f = "counterweights"
BY DEF Selected, Accepted, Counterweights

\* A claim that must not be seen, before and after, changes no artifact.
LEMMA InvisibleChangesNothing ==
  ASSUME NEW state, NEW changed, NEW r, NEW id \in Claims, NEW f,
         ~Visible(state[id], r), ~Visible(changed[id], r),
         \A c \in Claims \ {id} : changed[c] = state[c]
  PROVE  Payload(changed, r, f) = Payload(state, r, f)
<1>1. Accepted(changed, r) = Accepted(state, r) /\ Counterweights(changed, r) = Counterweights(state, r)
  BY DEF Accepted, Counterweights
<1>2. id \notin Accepted(state, r) /\ id \notin Counterweights(state, r)
  BY DEF Accepted, Counterweights
<1>3. Selected(changed, r, f) = Selected(state, r, f)
  <2>1. \A c \in Accepted(state, r) : changed[c] = state[c]
    BY <1>2 DEF Accepted
  <2>2. {c \in Accepted(changed, r) :
            changed[c].kind \in DOMAIN ArtifactOf /\ ArtifactOf[changed[c].kind] = f}
          = {c \in Accepted(state, r) :
                state[c].kind \in DOMAIN ArtifactOf /\ ArtifactOf[state[c].kind] = f}
    BY <1>1, <2>1
  <2> QED BY <1>1, <2>2 DEF Selected
<1>4. \A c \in Selected(state, r, f) : changed[c] = state[c]
  BY <1>2 DEF Selected, Accepted, Counterweights
<1> QED BY <1>1, <1>3, <1>4 DEF Payload

-----------------------------------------------------------------------------

\* The initial state satisfies the invariant.
LEMMA ProjectionsInit == InitProjection => ProjectionsInv
<1> SUFFICES ASSUME InitProjection PROVE ProjectionsInv
  OBVIOUS
<1>1. PICK case \in Cases : claims = case.claims /\ request = case.request /\ consent = case.consent
  BY DEF InitProjection
<1>2. [claims |-> claims, request |-> request, consent |-> consent] \in Cases
  BY <1>1, DisclosureAssumption
<1>3. ProjectionTypeOK
  BY <1>2, DisclosureAssumption DEF InitProjection, ProjectionTypeOK, NoReceipt, Times
<1> QED BY <1>3 DEF InitProjection, ProjectionsInv, Permitted, ReceiptMade

\* Every step preserves the invariant.
LEMMA ProjectionsNext == ProjectionsInv /\ [NextProjection]_projectionVars => ProjectionsInv'
<1> SUFFICES ASSUME ProjectionsInv, [NextProjection]_projectionVars PROVE ProjectionsInv'
  OBVIOUS
<1> USE DEF ProjectionsInv
<1>1. CASE Call
  BY <1>1 DEF Call, ProjectionTypeOK, Permitted, ReceiptMade
<1>2. CASE RefuseSubject \/ Deny \/ Return
  <2>1. End
    BY <1>2 DEF RefuseSubject, Deny, Return
  <2>2. ProjectionTypeOK'
    BY <2>1, DisclosureAssumption DEF End, ProjectionTypeOK, NoReceipt, Times
  <2> QED BY <2>1, <2>2 DEF End, Permitted, ReceiptMade
<1>3. CASE Evaluate
  <2>1. /\ fields' = Evaluated(consent, request, now) /\ fields' # {} /\ stage' = "issue"
        /\ UNCHANGED <<now, claims, request, consent, receipt>>
    BY <1>3 DEF Evaluate
  <2>2. /\ consent # NoConsent /\ ActiveAt(consent, now) /\ Granted(consent, request)
        /\ fields' \subseteq Artifacts
    BY <2>1 DEF Evaluated, GrantedFields
  <2>3. ProjectionTypeOK'
    BY <2>1, <2>2 DEF ProjectionTypeOK
  <2>4. Permitted'
    BY <2>1, <2>2 DEF Permitted, ActiveAt, Granted
  <2> QED BY <2>1, <2>3, <2>4 DEF ReceiptMade
<1>4. CASE Issue
  <2>1. /\ stage = "issue" /\ stage' = "issued" /\ UNCHANGED <<now, claims, request, consent, fields>>
        /\ receipt'.fields = fields /\ receipt'.issued = now /\ receipt'.expires = Expires(now)
        /\ receipt'.sources = UNION {Selected(claims, request, f) : f \in fields}
    BY <1>4 DEF Issue
  <2>2. /\ consent # NoConsent /\ ~consent.revoked /\ consent.from <= now /\ fields # {}
        /\ request.sensitivity <= consent.sensitivity
        /\ consent.until \in Nat /\ now \in 0..MaxTime
    BY <2>1, CaseParts DEF Permitted, ProjectionTypeOK, Times
  <2>3. receipt'.sources \subseteq Claims
    BY <2>1, SelectedVisible
  <2>4. Expires(now) \in 0..(MaxTime + Lifetime) /\ Expires(now) <= consent.until
    BY <2>2, DisclosureAssumption DEF Expires
  <2>5. now \in 0..(MaxTime + Lifetime)
    BY <2>2, DisclosureAssumption
  <2>6. ProjectionTypeOK'
    BY <2>1, <2>2, <2>3, <2>4, <2>5 DEF ProjectionTypeOK
  <2>7. Permitted'
    BY <2>1, <2>2 DEF Permitted
  <2>8. ReceiptMade'
    BY <2>1, <2>2, <2>4 DEF ReceiptMade
  <2> QED BY <2>6, <2>7, <2>8
<1>5. CASE Tick
  <2>1. now' = now + 1 /\ now' \in 0..MaxTime /\ now \in Nat
        /\ UNCHANGED <<claims, stage, request, consent, fields, receipt>>
    BY <1>5, DisclosureAssumption DEF Tick, ProjectionTypeOK, Times
  <2>2. ProjectionTypeOK'
    BY <2>1 DEF ProjectionTypeOK, Times
  <2>3. Permitted'
    BY <2>1, CaseParts DEF Permitted
  <2> QED BY <2>1, <2>2, <2>3 DEF ReceiptMade
<1>6. CASE UNCHANGED projectionVars
  BY <1>6 DEF projectionVars, ProjectionTypeOK, Permitted, ReceiptMade
<1> QED BY <1>1, <1>2, <1>3, <1>4, <1>5, <1>6 DEF NextProjection

\* The invariant holds in every reachable state.
LEMMA ProjectionsInvariance == SpecProjection => []ProjectionsInv
BY ProjectionsInit, ProjectionsNext, PTL DEF SpecProjection

-----------------------------------------------------------------------------
(* Theorems. *)

\* Types, and sources that the consent covers: no claim more sensitive than it
\* allows, stale or not valid, and no contested one that was not asked for.
THEOREM ProjectionSound == SpecProjection => []ProjectionInv
<1>1. ASSUME ProjectionsInv PROVE SourcesWithinGrant
  <2> SUFFICES ASSUME stage = "issued", NEW id \in receipt.sources
               PROVE  /\ claims[id].sensitivity <= consent.sensitivity
                      /\ ~claims[id].stale /\ ValidAt(claims[id], request.validAt)
                      /\ claims[id].review = "contested" => "counterweights" \in receipt.fields
                      /\ claims[id].review # "proposed"
    BY DEF SourcesWithinGrant
  <2>1. PICK f \in receipt.fields : id \in Selected(claims, request, f)
    BY <1>1 DEF ProjectionsInv, ReceiptMade
  <2>2. /\ id \in Claims /\ ~claims[id].stale /\ Visible(claims[id], request)
        /\ \/ claims[id].review = "accepted"
           \/ claims[id].review = "contested" /\ f = "counterweights"
    BY <2>1, SelectedVisible
  <2>3. /\ claims[id].sensitivity \in Nat /\ request.sensitivity \in Nat /\ consent.sensitivity \in Nat
        /\ request.sensitivity <= consent.sensitivity
    BY <1>1, <2>2, CaseParts DEF ProjectionsInv, Permitted, Claim
  <2> QED BY <2>1, <2>2, <2>3 DEF Visible
<1>2. ProjectionsInv => ProjectionInv
  BY <1>1 DEF ProjectionsInv, ProjectionInv
<1> QED BY <1>2, ProjectionsInvariance, PTL

\* DefaultDenyPolicy and the Rego policy agree at every instant.
THEOREM RegoAlwaysAgrees == SpecProjection => []RegoAgrees
<1>1. ProjectionsInv => RegoAgrees
  BY PoliciesAgree, CaseParts, DisclosureAssumption DEF ProjectionsInv, RegoAgrees, ProjectionTypeOK, Times
<1> QED BY <1>1, ProjectionsInvariance, PTL

\* No receipt is valid at an instant at which its consent is not active,
\* wherever the clock moves between evaluation and receipt.
THEOREM ReceiptsWithinConsent == SpecProjection => []ReceiptWithinConsent
<1>1. ASSUME ProjectionsInv PROVE ReceiptWithinConsent
  <2> SUFFICES ASSUME stage = "issued", NEW time \in receipt.issued..(receipt.expires - 1)
               PROVE  ActiveAt(consent, time)
    BY DEF ReceiptWithinConsent
  <2>1. /\ consent.from \in Nat /\ consent.until \in Nat /\ ~consent.revoked
        /\ consent.from <= receipt.issued /\ receipt.expires <= consent.until
        /\ receipt.issued \in Nat /\ receipt.expires \in Nat
    BY <1>1, CaseParts DEF ProjectionsInv, Permitted, ReceiptMade, ProjectionTypeOK
  <2> QED BY <2>1 DEF ActiveAt
<1> QED BY <1>1, ProjectionsInvariance, PTL

\* A claim that must not be seen leaves no trace in what is disclosed.
THEOREM NothingInterferes == SpecProjection => []NoInterference
<1>1. ASSUME ProjectionsInv PROVE NoInterference
  <2> SUFFICES ASSUME NEW id \in Claims, NEW other \in ClaimInputs,
                      ~Visible(claims[id], request), ~Visible(other, request)
               PROVE  Projection([claims EXCEPT ![id] = other], request, receipt.fields)
                        = Projection(claims, request, receipt.fields)
    BY DEF NoInterference
  <2>1. claims \in [Claims -> Claim]
    BY <1>1, CaseParts DEF ProjectionsInv
  <2>2. \A f \in receipt.fields :
           Payload([claims EXCEPT ![id] = other], request, f) = Payload(claims, request, f)
    <3> DEFINE changed == [claims EXCEPT ![id] = other]
    <3>1. changed[id] = other /\ \A c \in Claims \ {id} : changed[c] = claims[c]
      BY <2>1
    <3> HIDE DEF changed
    <3>2. \A f : Payload(changed, request, f) = Payload(claims, request, f)
      BY <3>1, InvisibleChangesNothing
    <3> QED BY <3>2 DEF changed
  <2> QED BY <2>2 DEF Projection
<1> QED BY <1>1, ProjectionsInvariance, PTL
=============================================================================

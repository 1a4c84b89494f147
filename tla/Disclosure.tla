------------------------------ MODULE Disclosure ------------------------------
(***************************************************************************)
(* The consent boundary of a projection: DefaultDenyPolicy against the     *)
(* Rego policy it is the reference of, KernelCompiler's choice of claims   *)
(* for each artifact, and ProjectionCompiler, which reads the clock once   *)
(* to evaluate the consent and once more to date the receipt.              *)
(*                                                                         *)
(* Times are small numbers, sensitivities are their ranks.  Of the ten     *)
(* artifacts there are two that select by kind.  A disclosed claim is its  *)
(* identity, standing for statement and epistemic vector, its kind and its *)
(* validity.  The claims are those of the state the projection is compiled *)
(* from.                                                                   *)
(***************************************************************************)
EXTENDS Integers, FiniteSets

CONSTANTS
    Claims,         \* claim identities
    Cases,          \* a twin's claims, and a call: records [claims, request, consent]
    NoConsent,      \* no grant
    Subject,        \* the twin's subject
    Forever,        \* no valid_until
    Lifetime,       \* the longest life of a receipt: one hour
    MaxTime         \* bound: the last instant

Times == 0..MaxTime
Artifacts == {"kernel", "counterweights", "readiness", "voice", "boundaries"}

\* _CLAIM_KIND_TO_ARTIFACT
ArtifactOf == [communication |-> "voice", boundary |-> "boundaries"]

Claim ==
    [kind : DOMAIN ArtifactOf \cup {"preference"}, review : {"proposed", "accepted", "contested"},
     stale : BOOLEAN, sensitivity : Nat, from : Nat, until : Nat \cup {Forever}, recorded : Nat]

\* ConsentGrant and ProjectionRequest refuse an empty validity and no fields.
ASSUME DisclosureAssumption ==
    /\ \A case \in Cases :
          /\ case = [claims |-> case.claims, request |-> case.request, consent |-> case.consent]
          /\ case.claims \in [Claims -> Claim]
          /\ {case.request.sensitivity, case.request.validAt, case.request.knownAt} \subseteq Nat
          /\ case.request.fields # {}
          /\ \/ case.consent = NoConsent
             \/ /\ {case.consent.sensitivity, case.consent.from, case.consent.until} \subseteq Nat
                /\ case.consent.from < case.consent.until
    /\ Lifetime \in Nat \ {0} /\ MaxTime \in Nat

VARIABLES
    now,
    claims, request, consent,   \* the case: what issue_projection is called with
    stage,
    fields,                     \* the fields the policy allows
    receipt

projectionVars == <<now, claims, request, consent, stage, fields, receipt>>

NoReceipt == [fields |-> {}, sources |-> {}, issued |-> 0, expires |-> 0]

InitProjection ==
    /\ now = 0
    /\ \E case \in Cases :
          claims = case.claims /\ request = case.request /\ consent = case.consent
    /\ stage = "idle"
    /\ fields = {} /\ receipt = NoReceipt

-----------------------------------------------------------------------------
(* DefaultDenyPolicy.evaluate_projection *)

\* ConsentGrant.active_at
ActiveAt(g, time) == ~g.revoked /\ g.from <= time /\ time < g.until

Granted(g, r) ==
    /\ g.subject = r.subject /\ g.recipient = r.recipient
    /\ r.purpose \in g.purposes
    /\ r.sensitivity <= g.sensitivity

\* Mutation: a field that is not offered is left out in silence.
GrantedFieldsOffered(g, r) ==
    IF r.fields \subseteq g.fields THEN r.fields \cap Artifacts ELSE {}

\* All requested fields, or none if one of them is not offered or not granted.
GrantedFields(g, r) == IF r.fields \subseteq Artifacts \cap g.fields THEN r.fields ELSE {}

Evaluated(g, r, time) ==
    IF g # NoConsent /\ ActiveAt(g, time) /\ Granted(g, r) THEN GrantedFields(g, r) ELSE {}

\* policies/rego/dt_projection.rego: allow and disclosed_fields
RegoDisclosed(g, r, time) ==
    IF /\ g # NoConsent
       /\ ~g.revoked /\ time \in g.from..(g.until - 1)
       /\ r.subject = g.subject /\ r.recipient = g.recipient
       /\ r.purpose \in g.purposes
       /\ r.sensitivity <= g.sensitivity
       /\ \A f \in r.fields : f \in g.fields \cap Artifacts /\ f # "raw_evidence"
       /\ r.fields # {}
      THEN r.fields ELSE {}

-----------------------------------------------------------------------------
(* KernelCompiler.compile *)

ValidAt(c, time) == c.from <= time /\ (c.until = Forever \/ time < c.until)

\* Sensitivity, validity and knowledge filter, as accepted_claims has it.
Visible(c, r) ==
    c.sensitivity <= r.sensitivity /\ ValidAt(c, r.validAt) /\ c.recorded <= r.knownAt

Accepted(state, r) ==
    {id \in Claims : state[id].review = "accepted" /\ ~state[id].stale /\ Visible(state[id], r)}

\* Mutation: counterweights are not filtered by sensitivity.
CounterweightsOfAll(state, r) ==
    {id \in Claims : /\ state[id].review = "contested" /\ ~state[id].stale
                     /\ ValidAt(state[id], r.validAt) /\ state[id].recorded <= r.knownAt}

\* The contested claims, under the filter written again for them.
Counterweights(state, r) ==
    {id \in Claims : state[id].review = "contested" /\ ~state[id].stale /\ Visible(state[id], r)}

Selected(state, r, field) ==
    CASE field = "kernel" -> Accepted(state, r)
      [] field = "counterweights" -> Counterweights(state, r)
      [] field = "readiness" -> {}
      [] OTHER -> {id \in Accepted(state, r) :
                      state[id].kind \in DOMAIN ArtifactOf /\ ArtifactOf[state[id].kind] = field}

\* Mutation: readiness counts the accepted claims of the state.
PayloadOfState(state, r, field) ==
    IF field = "readiness"
      THEN Cardinality({id \in Claims : state[id].review = "accepted" /\ ~state[id].stale})
      ELSE {[id |-> id, kind |-> state[id].kind, from |-> state[id].from, until |-> state[id].until]
               : id \in Selected(state, r, field)}

\* _disclosed_payload of the artifact.
Payload(state, r, field) ==
    IF field = "readiness"
      THEN Cardinality(Accepted(state, r))
      ELSE {[id |-> id, kind |-> state[id].kind, from |-> state[id].from, until |-> state[id].until]
               : id \in Selected(state, r, field)}

Projection(state, r, fs) == [f \in fs |-> Payload(state, r, f)]

-----------------------------------------------------------------------------
(* ProjectionCompiler.compile *)

Call ==
    /\ stage = "idle"
    /\ stage' = "evaluate"
    /\ UNCHANGED <<now, claims, request, consent, fields, receipt>>

\* The call returns or raises.
End ==
    /\ stage' = "idle"
    /\ fields' = {} /\ receipt' = NoReceipt
    /\ UNCHANGED <<now, claims, request, consent>>

\* The request is not for this twin's subject: InvariantViolation.
RefuseSubject == stage = "evaluate" /\ request.subject # Subject /\ End

\* PolicyDenied.
Deny ==
    /\ stage = "evaluate" /\ request.subject = Subject
    /\ Evaluated(consent, request, now) = {}
    /\ End

\* The policy reads the clock, and allows.
Evaluate ==
    /\ stage = "evaluate" /\ request.subject = Subject
    /\ fields' = Evaluated(consent, request, now) /\ fields' # {}
    /\ stage' = "issue"
    /\ UNCHANGED <<now, claims, request, consent, receipt>>

\* Mutation: the receipt lives for its lifetime whatever the consent.
ExpiresByLifetime(issued) == issued + Lifetime

Expires(issued) == IF consent.until < issued + Lifetime THEN consent.until ELSE issued + Lifetime

\* The artifacts are compiled and the receipt is dated.
Issue ==
    /\ stage = "issue"
    /\ receipt' = [fields |-> fields,
                   sources |-> UNION {Selected(claims, request, f) : f \in fields},
                   issued |-> now, expires |-> Expires(now)]
    /\ stage' = "issued"
    /\ UNCHANGED <<now, claims, request, consent, fields>>

Return == stage = "issued" /\ End

Tick ==
    /\ now < MaxTime
    /\ now' = now + 1
    /\ UNCHANGED <<claims, stage, request, consent, fields, receipt>>

NextProjection ==
    \/ Call \/ RefuseSubject \/ Deny \/ Evaluate \/ Issue \/ Return
    \/ Tick

SpecProjection == InitProjection /\ [][NextProjection]_projectionVars

-----------------------------------------------------------------------------
(* Properties. *)

\* Every variable has its type, and there is no receipt that discloses nothing.
ProjectionTypeOK ==
    /\ now \in Times
    /\ [claims |-> claims, request |-> request, consent |-> consent] \in Cases
    /\ stage \in {"idle", "evaluate", "issue", "issued"}
    /\ fields \subseteq Artifacts
    /\ receipt.fields \subseteq Artifacts /\ receipt.sources \subseteq Claims
    /\ {receipt.issued, receipt.expires} \subseteq 0..(MaxTime + Lifetime)
    /\ stage = "issued" => receipt.fields # {}

\* DefaultDenyPolicy and the Rego policy allow the same requests with the same
\* fields at every instant.
RegoAgrees ==
    stage = "evaluate" => Evaluated(consent, request, now) = RegoDisclosed(consent, request, now)

\* At no instant at which the receipt is valid is the consent it was issued
\* under inactive, although it may have expired between the two readings of the
\* clock.
ReceiptWithinConsent ==
    stage = "issued" =>
        \A time \in receipt.issued..(receipt.expires - 1) : ActiveAt(consent, time)

\* Nothing rests on a claim that is more sensitive than the consent allows, is
\* stale or was not valid at the time asked for; a contested claim is disclosed
\* only where counterweights were asked for.
SourcesWithinGrant ==
    stage = "issued" =>
        \A id \in receipt.sources :
            LET c == claims[id] IN
            /\ c.sensitivity <= consent.sensitivity
            /\ ~c.stale /\ ValidAt(c, request.validAt)
            /\ c.review = "contested" => "counterweights" \in receipt.fields
            /\ c.review # "proposed"

\* Types, and sources within the grant.
ProjectionInv == ProjectionTypeOK /\ SourcesWithinGrant

ClaimInputs == {case.claims[id] : case \in Cases, id \in Claims}

\* A claim the request must not see leaves no trace in what is disclosed: the
\* projection is the same whatever the claim is, counts included.
NoInterference ==
    stage = "issued" =>
        \A id \in Claims, other \in ClaimInputs :
            ~Visible(claims[id], request) /\ ~Visible(other, request)
                => Projection([claims EXCEPT ![id] = other], request, receipt.fields)
                     = Projection(claims, request, receipt.fields)

=============================================================================

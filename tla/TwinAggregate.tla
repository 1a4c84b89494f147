----------------------------- MODULE TwinAggregate -----------------------------
(***************************************************************************)
(* The epistemic state of one twin: what TwinAggregate.apply makes of the  *)
(* events of its ledger, and what SQLiteEventStore._index_dependencies     *)
(* makes of them in the same transaction (the lineage edges, and the       *)
(* invalidation queue that a deletion fills).                              *)
(*                                                                         *)
(* One action per event type; its guard is what apply refuses.  Evidence,  *)
(* claims, entity links, contradictions, corrections and projections are   *)
(* their identities, which are distinct, so one set holds the stale ones   *)
(* of every kind and a lineage node is an identity.  Requests that name    *)
(* another subject change nothing and are left out, as are event types     *)
(* that apply only counts, and the degradation notices.                    *)
(***************************************************************************)
EXTENDS Naturals, FiniteSets

CONSTANTS
    Evidence, Claims, Links, Contradictions, Corrections, Projections,
    Groups,      \* independence groups
    Absent,      \* not (or no longer) there
    PastViews,   \* TRUE: projections are also compiled as of an earlier recorded time
    MaxEvents    \* bound: length of the ledger

Nodes == Evidence \cup Claims \cup Links \cup Contradictions \cup Corrections \cup Projections

ASSUME AggregateAssumption ==
    /\ Absent \notin Groups
    /\ Absent \notin (Evidence \cup Claims) \X (Evidence \cup Claims)
    /\ Claims \cap (Evidence \cup Links \cup Projections) = {}
    /\ PastViews \in BOOLEAN
    /\ MaxEvents \in Nat

VARIABLES
    sequence,        \* TwinState.sequence
    evidence,        \* the independence group of each evidence, or Absent
    claims,          \* the provenance of each claim: evidence and group; {} for none
    links,           \* the provenance of each entity link; {} for none
    unlinked,        \* unlinked_entity_ids
    accepted, contested, retired,
    superseded,      \* superseded_claim_ids and superseded_evidence_ids
    stale,           \* stale_claim_ids, stale_entity_link_ids, stale_projection_ids
    contradictions,  \* the claims of each contradiction; {} for none
    resolved,        \* resolved_contradiction_ids
    corrections,     \* target and replacement of each correction, or Absent
    projections,     \* the source claims of each issued projection, or Absent
    revoked,         \* revoked_projection_ids
    edges,           \* dt_dependencies: source and dependent
    invalidations,   \* dt_invalidation_queue
    views            \* history: the disclosable claims at each earlier sequence

claimVars == <<claims, accepted, contested, retired>>
linkVars == <<links, unlinked>>
contradictionVars == <<contradictions, resolved>>
projectionVars == <<projections, revoked>>
vars == <<sequence, evidence, claimVars, linkVars, superseded, stale, contradictionVars,
          corrections, projectionVars, edges, invalidations, views>>

Init ==
    /\ sequence = 0
    /\ evidence = [e \in Evidence |-> Absent]
    /\ claims = [c \in Claims |-> {}]
    /\ links = [l \in Links |-> {}] /\ unlinked = {}
    /\ accepted = {} /\ contested = {} /\ retired = {} /\ superseded = {} /\ stale = {}
    /\ contradictions = [k \in Contradictions |-> {}] /\ resolved = {}
    /\ corrections = [r \in Corrections |-> Absent]
    /\ projections = [p \in Projections |-> Absent] /\ revoked = {}
    /\ edges = {} /\ invalidations = {}
    /\ views = {}

-----------------------------------------------------------------------------
(* Reading the state. *)

KnownClaims == {c \in Claims : claims[c] # {}}
KnownLinks == {l \in Links : links[l] # {}}
Issued == {p \in Projections : projections[p] # Absent}

\* The claims that KernelCompiler.compile may select: accepted ones that are
\* not stale, retired or superseded, and contested ones that are not stale.
Disclosable == (accepted \ (stale \cup retired \cup superseded)) \cup (contested \ stale)

\* provenance references evidence e
RestsOn(refs, e) == \E g \in Groups : <<e, g>> \in refs

\* What is marked stale when evidence e is deleted or corrected.
ClaimsOn(e) == {c \in Claims : RestsOn(claims[c], e)}
LinksOn(e) == {l \in Links : RestsOn(links[l], e)}
ProjectionsOn(cs) == {p \in Issued : projections[p] \cap cs # {}}

-----------------------------------------------------------------------------
(* The lineage index. *)

\* Mutation: the walk stops at the direct dependents.
DirectDependents(n) == {m \in Nodes : <<n, m>> \in edges}

\* The recursive query over dt_dependencies.  UNION drops what has been reached
\* already, so the query ends on cycles too, with the smallest set that holds
\* the direct dependents of n and the dependents of its members.
Dependents(n) ==
    LET targets == {edge[2] : edge \in edges}
        closed == {ns \in SUBSET targets :
                      \A edge \in edges : edge[1] \in ns \cup {n} => edge[2] \in ns}
    IN {m \in targets : \A ns \in closed : m \in ns}

\* append: the event takes the next sequence, its edges go into the index.
Commit(newEdges) ==
    /\ sequence < MaxEvents
    /\ sequence' = sequence + 1
    /\ edges' = edges \cup newEdges
    /\ views' = IF PastViews THEN views \cup {Disclosable} ELSE views

-----------------------------------------------------------------------------
(* Evidence and entity links. *)

EvidenceIngested(e, g) ==
    /\ evidence[e] = Absent
    /\ evidence' = [evidence EXCEPT ![e] = g]
    /\ Commit({})
    /\ UNCHANGED <<claimVars, linkVars, superseded, stale, contradictionVars,
                   corrections, projectionVars, invalidations>>

\* Every reference is to evidence that is there, in the group given.
Resolves(refs) == \A r \in refs : evidence[r[1]] = r[2]

EntityLinked(l, refs) ==
    /\ refs # {} /\ Resolves(refs)
    /\ l \notin KnownLinks
    /\ links' = [links EXCEPT ![l] = refs]
    /\ Commit({<<r[1], l>> : r \in refs})
    /\ UNCHANGED <<evidence, claimVars, unlinked, superseded, stale, contradictionVars,
                   corrections, projectionVars, invalidations>>

EntityUnlinked(l) ==
    /\ l \in KnownLinks \ unlinked
    /\ unlinked' = unlinked \cup {l}
    /\ Commit({})
    /\ UNCHANGED <<evidence, claimVars, links, superseded, stale, contradictionVars,
                   corrections, projectionVars, invalidations>>

\* Mutation: entity links are not marked.
EvidenceDeletedClaimsOnly(e) ==
    /\ evidence[e] # Absent
    /\ evidence' = [evidence EXCEPT ![e] = Absent]
    /\ stale' = stale \cup ClaimsOn(e) \cup ProjectionsOn(stale \cup ClaimsOn(e))
    /\ invalidations' = invalidations \cup
          {[deletion |-> sequence + 1, dependent |-> n] : n \in Dependents(e)}
    /\ Commit({})
    /\ UNCHANGED <<claimVars, linkVars, superseded, contradictionVars, corrections,
                   projectionVars>>

\* Links and claims that rest on the evidence become stale, then projections
\* with a stale source claim; the index walk queues every dependent.
EvidenceDeleted(e) ==
    /\ evidence[e] # Absent
    /\ evidence' = [evidence EXCEPT ![e] = Absent]
    /\ stale' = stale \cup LinksOn(e) \cup ClaimsOn(e)
                      \cup ProjectionsOn(stale \cup ClaimsOn(e))
    /\ invalidations' = invalidations \cup
          {[deletion |-> sequence + 1, dependent |-> n] : n \in Dependents(e)}
    /\ Commit({})
    /\ UNCHANGED <<claimVars, linkVars, superseded, contradictionVars, corrections,
                   projectionVars>>

\* mark_invalidation_processed, by whoever drains the queue.
MarkProcessed(row) ==
    /\ row \in invalidations
    /\ invalidations' = invalidations \ {row}
    /\ UNCHANGED <<sequence, evidence, claimVars, linkVars, superseded, stale,
                   contradictionVars, corrections, projectionVars, edges, views>>

-----------------------------------------------------------------------------
(* Claims and their review. *)

ClaimProposed(c, refs) ==
    /\ refs # {} /\ Resolves(refs)
    /\ c \notin KnownClaims
    /\ claims' = [claims EXCEPT ![c] = refs]
    /\ Commit({<<r[1], c>> : r \in refs})
    /\ UNCHANGED <<evidence, accepted, contested, retired, linkVars, superseded, stale,
                   contradictionVars, corrections, projectionVars, invalidations>>

ClaimAccepted(c) ==
    /\ c \in KnownClaims \ (retired \cup superseded)
    /\ accepted' = accepted \cup {c}
    /\ contested' = contested \ {c}
    /\ Commit({})
    /\ UNCHANGED <<evidence, claims, retired, linkVars, superseded, stale,
                   contradictionVars, corrections, projectionVars, invalidations>>

ClaimContested(c) ==
    /\ c \in KnownClaims \ (retired \cup superseded)
    /\ contested' = contested \cup {c}
    /\ accepted' = accepted \ {c}
    /\ Commit({})
    /\ UNCHANGED <<evidence, claims, retired, linkVars, superseded, stale,
                   contradictionVars, corrections, projectionVars, invalidations>>

ClaimRetired(c) ==
    /\ c \in KnownClaims
    /\ accepted' = accepted \ {c}
    /\ contested' = contested \ {c}
    /\ retired' = retired \cup {c}
    /\ Commit({})
    /\ UNCHANGED <<evidence, claims, linkVars, superseded, stale,
                   contradictionVars, corrections, projectionVars, invalidations>>

\* Mutation: the projections of the claim stay current.
ClaimSupersededQuietly(c, successor) ==
    /\ c \in KnownClaims \ superseded
    /\ successor \in KnownClaims
    /\ accepted' = accepted \ {c}
    /\ contested' = contested \ {c}
    /\ superseded' = superseded \cup {c}
    /\ Commit({<<c, successor>>})
    /\ UNCHANGED <<evidence, claims, retired, linkVars, stale, contradictionVars,
                   corrections, projectionVars, invalidations>>

ClaimSuperseded(c, successor) ==
    /\ c \in KnownClaims \ superseded
    /\ successor \in KnownClaims
    /\ accepted' = accepted \ {c}
    /\ contested' = contested \ {c}
    /\ superseded' = superseded \cup {c}
    /\ stale' = stale \cup ProjectionsOn({c})
    /\ Commit({<<c, successor>>})
    /\ UNCHANGED <<evidence, claims, retired, linkVars, contradictionVars,
                   corrections, projectionVars, invalidations>>

-----------------------------------------------------------------------------
(* Contradictions and corrections. *)

ContradictionDetected(k, cs) ==
    /\ contradictions[k] = {}
    /\ Cardinality(cs) >= 2 /\ cs \subseteq KnownClaims
    /\ contradictions' = [contradictions EXCEPT ![k] = cs]
    /\ Commit({<<c, k>> : c \in cs})
    /\ UNCHANGED <<evidence, claimVars, linkVars, superseded, stale, resolved,
                   corrections, projectionVars, invalidations>>

\* A resolution is recorded; no claim changes.
ContradictionAdjudicated(k) ==
    /\ contradictions[k] # {} /\ k \notin resolved
    /\ resolved' = resolved \cup {k}
    /\ Commit({})
    /\ UNCHANGED <<evidence, claimVars, linkVars, superseded, stale, contradictions,
                   corrections, projectionVars, invalidations>>

\* Mutation: the replacement may itself be superseded.
RecordAnyReplacement(r, target, replacement) ==
    /\ corrections[r] = Absent
    /\ target # replacement
    /\ target \notin superseded
    /\ superseded' = superseded \cup {target}
    /\ corrections' = [corrections EXCEPT ![r] = <<target, replacement>>]
    /\ Commit({<<target, r>>, <<replacement, r>>})

\* What the two kinds of correction share.
Record(r, target, replacement) ==
    /\ corrections[r] = Absent
    /\ target # replacement
    /\ target \notin superseded /\ replacement \notin superseded
    /\ superseded' = superseded \cup {target}
    /\ corrections' = [corrections EXCEPT ![r] = <<target, replacement>>]
    /\ Commit({<<target, r>>, <<replacement, r>>})

EvidenceCorrected(r, target, replacement) ==
    /\ evidence[target] # Absent /\ evidence[replacement] # Absent
    /\ Record(r, target, replacement)
    /\ stale' = stale \cup LinksOn(target) \cup ClaimsOn(target)
                      \cup ProjectionsOn(stale \cup ClaimsOn(target))
    /\ UNCHANGED <<evidence, claimVars, linkVars, contradictionVars,
                   projectionVars, invalidations>>

ClaimCorrected(r, target, replacement) ==
    /\ {target, replacement} \subseteq KnownClaims
    /\ Record(r, target, replacement)
    /\ accepted' = accepted \ {target}
    /\ contested' = contested \ {target}
    /\ stale' = stale \cup ProjectionsOn({target})
    /\ UNCHANGED <<evidence, claims, retired, linkVars, contradictionVars,
                   projectionVars, invalidations>>

-----------------------------------------------------------------------------
(* Projections. *)

\* issue_projection compiles from the state at as_of_recorded_time and appends
\* the audit event to the current one.  Which disclosable claims become
\* sources depends on the request's fields, sensitivity and valid time.
ProjectionIssued(p, sources) ==
    /\ sequence > 0
    /\ p \notin Issued
    /\ \E view \in views \cup {Disclosable} : sources \subseteq view
    /\ projections' = [projections EXCEPT ![p] = sources]
    /\ Commit({<<c, p>> : c \in sources})
    /\ UNCHANGED <<evidence, claimVars, linkVars, superseded, stale, contradictionVars,
                   corrections, revoked, invalidations>>

ProjectionRevoked(p) ==
    /\ p \in Issued
    /\ revoked' = revoked \cup {p}
    /\ Commit({})
    /\ UNCHANGED <<evidence, claimVars, linkVars, superseded, stale, contradictionVars,
                   corrections, projections, invalidations>>

-----------------------------------------------------------------------------
(* What the commands of DigitalTwinService submit.  Their own checks (the     *)
(* evidence, claim or projection is known) repeat what apply refuses.        *)

\* ingest_evidence, delete_evidence
EvidenceEvents ==
    \E e \in Evidence : EvidenceDeleted(e) \/ \E g \in Groups : EvidenceIngested(e, g)

\* link_entity, unlink_entity
LinkEvents ==
    \E l \in Links :
        EntityUnlinked(l) \/ \E refs \in SUBSET (Evidence \X Groups) : EntityLinked(l, refs)

\* propose_claim, review_claim; retirement and supersession come as events to append
ClaimEvents ==
    \E c \in Claims :
        \/ \E refs \in SUBSET (Evidence \X Groups) : ClaimProposed(c, refs)
        \/ ClaimAccepted(c) \/ ClaimContested(c) \/ ClaimRetired(c)
        \/ \E successor \in Claims : ClaimSuperseded(c, successor)

\* detect_contradiction, adjudicate_contradiction
ContradictionEvents ==
    \E k \in Contradictions :
        ContradictionAdjudicated(k) \/ \E cs \in SUBSET Claims : ContradictionDetected(k, cs)

\* record_correction
CorrectionEvents ==
    \E r \in Corrections :
        \/ \E old, new \in Evidence : EvidenceCorrected(r, old, new)
        \/ \E old, new \in Claims : ClaimCorrected(r, old, new)

\* issue_projection, revoke_projection
ProjectionEvents ==
    \E p \in Projections :
        ProjectionRevoked(p) \/ \E sources \in SUBSET Claims : ProjectionIssued(p, sources)

Next ==
    \/ EvidenceEvents \/ LinkEvents \/ ClaimEvents
    \/ ContradictionEvents \/ CorrectionEvents \/ ProjectionEvents
    \/ \E row \in invalidations : MarkProcessed(row)

Spec == Init /\ [][Next]_vars

-----------------------------------------------------------------------------
(* Properties. *)

References == SUBSET (Evidence \X Groups)

\* Every variable has its type.
TypeOK ==
    /\ sequence \in 0..MaxEvents
    /\ evidence \in [Evidence -> Groups \cup {Absent}]
    /\ claims \in [Claims -> References]
    /\ links \in [Links -> References]
    /\ unlinked \subseteq KnownLinks
    /\ accepted \cup contested \cup retired \subseteq KnownClaims
    /\ superseded \subseteq Evidence \cup KnownClaims
    /\ stale \subseteq KnownClaims \cup KnownLinks \cup Issued
    /\ contradictions \in [Contradictions -> SUBSET Claims]
    /\ resolved \subseteq Contradictions
    /\ corrections \in [Corrections -> (Evidence \X Evidence) \cup (Claims \X Claims) \cup {Absent}]
    /\ projections \in [Projections -> (SUBSET Claims) \cup {Absent}]
    /\ revoked \subseteq Issued
    /\ edges \subseteq Nodes \X Nodes
    /\ invalidations \subseteq [deletion : 1..sequence, dependent : Nodes]
    /\ views \subseteq SUBSET Claims

\* A claim has one review state: however it was reviewed, retired, corrected
\* and superseded, an accepted claim is not contested, retired or superseded.
OneReviewState ==
    /\ accepted \cap contested = {}
    /\ (accepted \cup contested) \cap (retired \cup superseded) = {}

\* A claim or link that is not stale rests on evidence that is there, in the
\* independence group it was counted in (DT-INV-006, DT-INV-039), also when
\* evidence was deleted and ingested again.
ProvenanceResolves ==
    /\ \A c \in KnownClaims \ stale : Resolves(claims[c])
    /\ \A l \in KnownLinks \ stale : Resolves(links[l])

\* A projection that is not marked stale was compiled from claims that are
\* neither stale nor superseded now.
ProjectionsCurrent ==
    \A p \in Issued \ stale : projections[p] \cap (stale \cup superseded) = {}

\* Following the corrections of evidence from one replacement to the next
\* always ends in evidence that is not superseded (DT-INV-035).
CorrectionsEnd ==
    \A es \in (SUBSET Evidence) \ {{}} :
        ~ \A e \in es : \E r \in Corrections, f \in es : corrections[r] = <<e, f>>

\* What rests on evidence e, read off the state: claims and links, the
\* projections and contradictions of those claims, and the corrections of any
\* of them.
Affected(e) ==
    LET cs == ClaimsOn(e) IN
    cs \cup LinksOn(e) \cup ProjectionsOn(cs)
       \cup {k \in Contradictions : contradictions[k] \cap cs # {}}
       \cup {r \in Corrections : \E n \in {e} \cup cs, m \in Evidence \cup Claims :
                                    corrections[r] \in {<<n, m>>, <<m, n>>}}

\* A deletion queues for invalidation everything that rests on the evidence,
\* in the transaction that deletes it (DT-INV-015): the walk of the index
\* finds what replaying the events finds.
DeletionQueuesAffected ==
    [][\A e \in Evidence :
          evidence[e] # Absent /\ evidence'[e] = Absent =>
              \A n \in Affected(e) :
                  [deletion |-> sequence', dependent |-> n] \in invalidations']_vars

=============================================================================

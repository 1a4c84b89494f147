------------------------- MODULE TwinAggregate_proofs -------------------------
(***************************************************************************)
(* The consistency of the epistemic state for any sets of identities and   *)
(* any length of the ledger, and what EpistemicViews, which extends it,    *)
(* reads of it now and as of an earlier time.                              *)
(***************************************************************************)
EXTENDS EpistemicViews, WellFoundedInduction, TLAPS

\* What a correction replaced stays superseded.
CorrectedIsSuperseded ==
    \A r \in Corrections : \A n, m \in Evidence \cup Claims :
        corrections[r] = <<n, m>> => n \in superseded

\* The index has an edge for every dependency that the state shows.
IndexComplete ==
    /\ \A c \in Claims : \A ref \in claims[c] : <<ref[1], c>> \in edges
    /\ \A l \in Links : \A ref \in links[l] : <<ref[1], l>> \in edges
    /\ \A k \in Contradictions : \A c \in contradictions[k] : <<c, k>> \in edges
    /\ \A p \in Issued : \A c \in projections[p] : <<c, p>> \in edges
    /\ \A r \in Corrections : \A n, m \in Evidence \cup Claims :
          corrections[r] = <<n, m>> => <<n, r>> \in edges /\ <<m, r>> \in edges

-----------------------------------------------------------------------------
(* Types. *)

LEMMA InitType == Init => TypeOK
<1> SUFFICES ASSUME Init PROVE TypeOK
  OBVIOUS
<1> USE AggregateAssumption DEF Init
<1>1. sequence \in 0..MaxEvents /\ invalidations \subseteq [deletion : 1..sequence, dependent : Nodes]
  OBVIOUS
<1>2. evidence \in [Evidence -> Groups \cup {Absent}]
  OBVIOUS
<1>3. claims \in [Claims -> References] /\ links \in [Links -> References]
  BY DEF References
<1>4. contradictions \in [Contradictions -> SUBSET Claims]
  OBVIOUS
<1>5. corrections \in [Corrections -> (Evidence \X Evidence) \cup (Claims \X Claims) \cup {Absent}]
  OBVIOUS
<1>6. projections \in [Projections -> (SUBSET Claims) \cup {Absent}]
  OBVIOUS
<1> QED BY <1>1, <1>2, <1>3, <1>4, <1>5, <1>6 DEF TypeOK

\* The walk of the index stays among the nodes.
LEMMA DependentsAreNodes ==
    ASSUME TypeOK, NEW n
    PROVE  Dependents(n) \subseteq Nodes
BY DEF Dependents, TypeOK

LEMMA TypeStep == TypeOK /\ [Next]_vars => TypeOK'
<1> SUFFICES ASSUME TypeOK, [Next]_vars PROVE TypeOK'
  OBVIOUS
<1> USE AggregateAssumption DEF TypeOK, References, Commit, KnownClaims, KnownLinks, Issued,
        claimVars, linkVars, contradictionVars, projectionVars
<1>1. ASSUME NEW e \in Evidence, NEW g \in Groups, EvidenceIngested(e, g) PROVE TypeOK'
  BY <1>1 DEF EvidenceIngested, Nodes, Disclosable
<1>2. ASSUME NEW e \in Evidence, EvidenceDeleted(e) PROVE TypeOK'
  <2> USE <1>2 DEF EvidenceDeleted
  <2>1. stale' \subseteq (KnownClaims \cup KnownLinks \cup Issued)'
    BY DEF LinksOn, ClaimsOn, ProjectionsOn, RestsOn
  <2>2. invalidations' \subseteq [deletion : 1..sequence', dependent : Nodes]
    BY DependentsAreNodes
  <2>3. views' \subseteq SUBSET Claims
    BY DEF Disclosable
  <2>4. UNCHANGED <<KnownClaims, KnownLinks, Issued>>
    OBVIOUS
  <2> HIDE DEF KnownClaims, KnownLinks, Issued
  <2>5. evidence' \in [Evidence -> Groups \cup {Absent}] /\ sequence' \in 0..MaxEvents
    OBVIOUS
  <2> QED BY <2>1, <2>2, <2>3, <2>4, <2>5
<1>3. ASSUME NEW l \in Links, NEW refs \in SUBSET (Evidence \X Groups), EntityLinked(l, refs)
      PROVE  TypeOK'
  BY <1>3 DEF EntityLinked, Nodes, Disclosable
<1>4. ASSUME NEW l \in Links, EntityUnlinked(l) PROVE TypeOK'
  BY <1>4 DEF EntityUnlinked, Nodes, Disclosable
<1>5. ASSUME NEW c \in Claims, NEW refs \in SUBSET (Evidence \X Groups), ClaimProposed(c, refs)
      PROVE  TypeOK'
  BY <1>5 DEF ClaimProposed, Nodes, Disclosable
<1>6. ASSUME NEW c \in Claims, ClaimAccepted(c) PROVE TypeOK'
  BY <1>6 DEF ClaimAccepted, Nodes, Disclosable
<1>7. ASSUME NEW c \in Claims, ClaimContested(c) PROVE TypeOK'
  BY <1>7 DEF ClaimContested, Nodes, Disclosable
<1>8. ASSUME NEW c \in Claims, ClaimRetired(c) PROVE TypeOK'
  BY <1>8 DEF ClaimRetired, Nodes, Disclosable
<1>9. ASSUME NEW c \in Claims, NEW successor \in Claims, ClaimSuperseded(c, successor)
      PROVE  TypeOK'
  BY <1>9 DEF ClaimSuperseded, Nodes, Disclosable, ProjectionsOn
<1>10. ASSUME NEW k \in Contradictions, NEW cs \in SUBSET Claims, ContradictionDetected(k, cs)
       PROVE  TypeOK'
  BY <1>10 DEF ContradictionDetected, Nodes, Disclosable
<1>11. ASSUME NEW k \in Contradictions, ContradictionAdjudicated(k) PROVE TypeOK'
  BY <1>11 DEF ContradictionAdjudicated, Nodes, Disclosable
<1>12. ASSUME NEW r \in Corrections, NEW old \in Evidence, NEW new \in Evidence,
              EvidenceCorrected(r, old, new)
       PROVE  TypeOK'
  <2> USE <1>12 DEF EvidenceCorrected, Record
  <2>1. stale' \subseteq (KnownClaims \cup KnownLinks \cup Issued)'
    BY DEF LinksOn, ClaimsOn, ProjectionsOn, RestsOn
  <2>2. corrections' \in [Corrections -> (Evidence \X Evidence) \cup (Claims \X Claims) \cup {Absent}]
    OBVIOUS
  <2>3. edges' \subseteq Nodes \X Nodes
    BY DEF Nodes
  <2>4. views' \subseteq SUBSET Claims
    BY DEF Disclosable
  <2>5. UNCHANGED <<KnownClaims, KnownLinks, Issued>>
    OBVIOUS
  <2> HIDE DEF KnownClaims, KnownLinks, Issued
  <2>6. sequence' \in 0..MaxEvents /\ invalidations' \subseteq [deletion : 1..sequence', dependent : Nodes]
    OBVIOUS
  <2> QED BY <2>1, <2>2, <2>3, <2>4, <2>5, <2>6
<1>13. ASSUME NEW r \in Corrections, NEW old \in Claims, NEW new \in Claims,
              ClaimCorrected(r, old, new)
       PROVE  TypeOK'
  BY <1>13 DEF ClaimCorrected, Record, Nodes, Disclosable, ProjectionsOn
<1>14. ASSUME NEW p \in Projections, NEW sources \in SUBSET Claims, ProjectionIssued(p, sources)
       PROVE  TypeOK'
  BY <1>14 DEF ProjectionIssued, Nodes, Disclosable
<1>15. ASSUME NEW p \in Projections, ProjectionRevoked(p) PROVE TypeOK'
  BY <1>15 DEF ProjectionRevoked, Nodes, Disclosable
<1>16. ASSUME NEW row \in invalidations, MarkProcessed(row) PROVE TypeOK'
  BY <1>16 DEF MarkProcessed
<1>17. CASE UNCHANGED vars
  BY <1>17 DEF vars
<1> QED
  BY <1>1, <1>2, <1>3, <1>4, <1>5, <1>6, <1>7, <1>8, <1>9, <1>10, <1>11, <1>12, <1>13,
     <1>14, <1>15, <1>16, <1>17
  DEF Next, EvidenceEvents, LinkEvents, ClaimEvents, ContradictionEvents, CorrectionEvents,
      ProjectionEvents

-----------------------------------------------------------------------------
(* Claims, their review and their provenance.                                *)

\* Acceptance, contest, retirement, supersession and correction leave a claim
\* with one review state.  A corrected evidence is no claim.
LEMMA ReviewStep == TypeOK /\ OneReviewState /\ [Next]_vars => OneReviewState'
<1> SUFFICES ASSUME TypeOK, OneReviewState, [Next]_vars PROVE OneReviewState'
  OBVIOUS
<1> USE DEF OneReviewState
<1>1. ASSUME NEW c \in Claims, ClaimAccepted(c) \/ ClaimContested(c) \/ ClaimRetired(c)
      PROVE  OneReviewState'
  BY <1>1 DEF ClaimAccepted, ClaimContested, ClaimRetired, linkVars
<1>2. ASSUME NEW c \in Claims, NEW successor \in Claims, ClaimSuperseded(c, successor)
      PROVE  OneReviewState'
  BY <1>2 DEF ClaimSuperseded
<1>3. ASSUME NEW r \in Corrections, NEW old \in Evidence, NEW new \in Evidence,
             EvidenceCorrected(r, old, new)
      PROVE  OneReviewState'
  BY <1>3, AggregateAssumption DEF EvidenceCorrected, Record, TypeOK, KnownClaims, claimVars
<1>4. ASSUME NEW r \in Corrections, NEW old \in Claims, NEW new \in Claims,
             ClaimCorrected(r, old, new)
      PROVE  OneReviewState'
  BY <1>4 DEF ClaimCorrected, Record
<1>5. CASE UNCHANGED <<accepted, contested, retired, superseded>>
  BY <1>5
<1> QED
  BY <1>1, <1>2, <1>3, <1>4, <1>5
  DEF Next, EvidenceEvents, LinkEvents, ClaimEvents, ContradictionEvents, CorrectionEvents,
      ProjectionEvents, EvidenceIngested, EvidenceDeleted, EntityLinked, EntityUnlinked,
      ClaimProposed, ContradictionDetected, ContradictionAdjudicated, ProjectionIssued,
      ProjectionRevoked, MarkProcessed, claimVars, vars

\* Nothing stops being stale, so a claim or link that is not stale has had its
\* evidence there since it was made.
LEMMA ProvenanceStep == TypeOK /\ ProvenanceResolves /\ [Next]_vars => ProvenanceResolves'
<1> SUFFICES ASSUME TypeOK, ProvenanceResolves, [Next]_vars PROVE ProvenanceResolves'
  OBVIOUS
<1> USE DEF ProvenanceResolves, Resolves, KnownClaims, KnownLinks
<1>1. ASSUME NEW e \in Evidence, NEW g \in Groups, EvidenceIngested(e, g)
      PROVE  ProvenanceResolves'
  BY <1>1, AggregateAssumption
  DEF EvidenceIngested, TypeOK, References, claimVars, linkVars
<1>2. ASSUME NEW e \in Evidence, EvidenceDeleted(e) PROVE ProvenanceResolves'
  <2>1. ASSUME NEW refs \in References, NEW ref \in refs, ~RestsOn(refs, e) PROVE ref[1] # e
    BY <2>1 DEF RestsOn, References
  <2>2. \A f \in Evidence \ {e} : evidence'[f] = evidence[f]
    BY <1>2 DEF EvidenceDeleted, TypeOK
  <2>3. ASSUME NEW c \in KnownClaims \ stale', NEW ref \in claims[c]
        PROVE  evidence'[ref[1]] = ref[2]
    <3>1. ref[1] # e
      BY <1>2, <2>1, <2>3 DEF EvidenceDeleted, ClaimsOn, TypeOK
    <3>2. ref[1] \in Evidence /\ evidence[ref[1]] = ref[2]
      BY <1>2, <2>3 DEF EvidenceDeleted, TypeOK, References
    <3> QED BY <2>2, <3>1, <3>2
  <2>4. ASSUME NEW l \in KnownLinks \ stale', NEW ref \in links[l]
        PROVE  evidence'[ref[1]] = ref[2]
    <3>1. ref[1] # e
      BY <1>2, <2>1, <2>4 DEF EvidenceDeleted, LinksOn, TypeOK
    <3>2. ref[1] \in Evidence /\ evidence[ref[1]] = ref[2]
      BY <1>2, <2>4 DEF EvidenceDeleted, TypeOK, References
    <3> QED BY <2>2, <3>1, <3>2
  <2> QED BY <1>2, <2>3, <2>4 DEF EvidenceDeleted, claimVars, linkVars
<1>3. ASSUME NEW l \in Links, NEW refs \in SUBSET (Evidence \X Groups), EntityLinked(l, refs)
      PROVE  ProvenanceResolves'
  BY <1>3 DEF EntityLinked, TypeOK, claimVars
<1>4. ASSUME NEW c \in Claims, NEW refs \in SUBSET (Evidence \X Groups), ClaimProposed(c, refs)
      PROVE  ProvenanceResolves'
  BY <1>4 DEF ClaimProposed, TypeOK, linkVars
<1>5. ASSUME UNCHANGED <<evidence, claims, links>>, stale \subseteq stale'
      PROVE  ProvenanceResolves'
  BY <1>5
<1> HIDE DEF ProvenanceResolves, Resolves
<1>6. CASE EvidenceEvents
  BY <1>1, <1>2, <1>6 DEF EvidenceEvents
<1>7. CASE LinkEvents
  BY <1>3, <1>5, <1>7 DEF LinkEvents, EntityUnlinked, claimVars
<1>8. CASE ClaimEvents
  BY <1>4, <1>5, <1>8
  DEF ClaimEvents, ClaimAccepted, ClaimContested, ClaimRetired, ClaimSuperseded, linkVars
<1>9. CASE ContradictionEvents
  BY <1>5, <1>9
  DEF ContradictionEvents, ContradictionDetected, ContradictionAdjudicated, claimVars, linkVars
<1>10. CASE CorrectionEvents
  BY <1>5, <1>10 DEF CorrectionEvents, EvidenceCorrected, ClaimCorrected, claimVars, linkVars
<1>11. CASE ProjectionEvents
  BY <1>5, <1>11 DEF ProjectionEvents, ProjectionIssued, ProjectionRevoked, claimVars, linkVars
<1>12. CASE \E row \in invalidations : MarkProcessed(row)
  BY <1>5, <1>12 DEF MarkProcessed, claimVars, linkVars
<1>13. CASE UNCHANGED vars
  BY <1>5, <1>13 DEF vars, claimVars, linkVars
<1> QED
  BY <1>6, <1>7, <1>8, <1>9, <1>10, <1>11, <1>12, <1>13 DEF Next

-----------------------------------------------------------------------------
(* Corrections. *)

LEMMA SupersededStep == TypeOK /\ CorrectedIsSuperseded /\ [Next]_vars => CorrectedIsSuperseded'
<1> SUFFICES ASSUME TypeOK, CorrectedIsSuperseded, [Next]_vars PROVE CorrectedIsSuperseded'
  OBVIOUS
<1>1. ASSUME NEW r \in Corrections, NEW old \in Evidence \cup Claims,
             NEW new \in Evidence \cup Claims, Record(r, old, new)
      PROVE  CorrectedIsSuperseded'
  BY <1>1 DEF Record, CorrectedIsSuperseded, TypeOK
<1>2. ASSUME UNCHANGED corrections, superseded \subseteq superseded'
      PROVE  CorrectedIsSuperseded'
  BY <1>2 DEF CorrectedIsSuperseded
<1>3. CASE CorrectionEvents
  BY <1>1, <1>3 DEF CorrectionEvents, EvidenceCorrected, ClaimCorrected
<1>4. CASE EvidenceEvents
  BY <1>2, <1>4 DEF EvidenceEvents, EvidenceIngested, EvidenceDeleted
<1>5. CASE LinkEvents
  BY <1>2, <1>5 DEF LinkEvents, EntityLinked, EntityUnlinked
<1>6. CASE ClaimEvents
  BY <1>2, <1>6
  DEF ClaimEvents, ClaimProposed, ClaimAccepted, ClaimContested, ClaimRetired, ClaimSuperseded
<1>7. CASE ContradictionEvents
  BY <1>2, <1>7 DEF ContradictionEvents, ContradictionDetected, ContradictionAdjudicated
<1>8. CASE ProjectionEvents
  BY <1>2, <1>8 DEF ProjectionEvents, ProjectionIssued, ProjectionRevoked
<1>9. CASE \E row \in invalidations : MarkProcessed(row)
  BY <1>2, <1>9 DEF MarkProcessed
<1>10. CASE UNCHANGED vars
  BY <1>2, <1>10 DEF vars
<1> QED
  BY <1>3, <1>4, <1>5, <1>6, <1>7, <1>8, <1>9, <1>10 DEF Next

\* The replacement of a new correction is not superseded, so no correction leads
\* on from it and none closes a cycle through it.
LEMMA CorrectionsStep ==
    TypeOK /\ CorrectedIsSuperseded /\ CorrectionsEnd /\ [Next]_vars => CorrectionsEnd'
<1> SUFFICES ASSUME TypeOK, CorrectedIsSuperseded, CorrectionsEnd, [Next]_vars
             PROVE  CorrectionsEnd'
  OBVIOUS
<1>1. ASSUME NEW r \in Corrections, NEW old \in Evidence \cup Claims,
             NEW new \in Evidence \cup Claims, Record(r, old, new)
      PROVE  CorrectionsEnd'
  <2> SUFFICES ASSUME NEW es \in SUBSET Evidence, es # {},
                      \A e \in es : \E q \in Corrections, f \in es : corrections'[q] = <<e, f>>
               PROVE  FALSE
    BY DEF CorrectionsEnd
  <2>1. \A q \in Corrections \ {r} : corrections'[q] = corrections[q]
    BY <1>1 DEF Record, TypeOK
  <2>2. corrections'[r] = <<old, new>>
    BY <1>1 DEF Record, TypeOK
  <2>3. ASSUME NEW e \in es, e \notin superseded
        PROVE  e = old /\ new \in es
    <3>1. PICK q \in Corrections, f \in es : corrections'[q] = <<e, f>>
      OBVIOUS
    <3>2. q = r
      BY <2>1, <2>3, <3>1 DEF CorrectedIsSuperseded
    <3>3. <<e, f>> = <<old, new>>
      BY <2>2, <3>1, <3>2
    <3> QED BY <3>3
  <2>4. old \notin superseded /\ new \notin superseded /\ old # new
    BY <1>1 DEF Record
  <2>5. old \notin es
    BY <2>3, <2>4
  <2>6. ASSUME NEW e \in es PROVE \E q \in Corrections, f \in es : corrections[q] = <<e, f>>
    <3>1. PICK q \in Corrections, f \in es : corrections'[q] = <<e, f>>
      OBVIOUS
    <3>2. q # r
      <4> SUFFICES ASSUME q = r PROVE FALSE
        OBVIOUS
      <4>1. <<e, f>> = <<old, new>>
        BY <2>2, <3>1
      <4> QED BY <2>5, <4>1
    <3> QED BY <2>1, <3>1, <3>2
  <2> QED BY <2>6 DEF CorrectionsEnd
<1>2. ASSUME UNCHANGED corrections PROVE CorrectionsEnd'
  BY <1>2 DEF CorrectionsEnd
<1>3. CASE CorrectionEvents
  BY <1>1, <1>3 DEF CorrectionEvents, EvidenceCorrected, ClaimCorrected
<1> QED
  BY <1>2, <1>3
  DEF Next, EvidenceEvents, LinkEvents, ClaimEvents, ContradictionEvents, ProjectionEvents,
      EvidenceIngested, EvidenceDeleted, EntityLinked, EntityUnlinked, ClaimProposed,
      ClaimAccepted, ClaimContested, ClaimRetired, ClaimSuperseded, ContradictionDetected,
      ContradictionAdjudicated, ProjectionIssued, ProjectionRevoked, MarkProcessed, vars

-----------------------------------------------------------------------------
(* Projections, compiled from the present state only. *)

\* What makes a source claim stale or superseded marks the projection too, and
\* the compilers take neither kind of claim.
LEMMA ProjectionsStep ==
    ASSUME ~PastViews
    PROVE  TypeOK /\ OneReviewState /\ views = {} /\ ProjectionsCurrent /\ [Next]_vars
              => views' = {} /\ ProjectionsCurrent'
<1> SUFFICES ASSUME TypeOK, OneReviewState, views = {}, ProjectionsCurrent, [Next]_vars
             PROVE  views' = {} /\ ProjectionsCurrent'
  OBVIOUS
<1>1. views' = {}
  BY DEF Next, EvidenceEvents, LinkEvents, ClaimEvents, ContradictionEvents, CorrectionEvents,
         ProjectionEvents, EvidenceIngested, EvidenceDeleted, EntityLinked, EntityUnlinked,
         ClaimProposed, ClaimAccepted, ClaimContested, ClaimRetired, ClaimSuperseded,
         ContradictionDetected, ContradictionAdjudicated, EvidenceCorrected, ClaimCorrected,
         Record, ProjectionIssued, ProjectionRevoked, MarkProcessed, Commit, vars
<1> SUFFICES ProjectionsCurrent'
  BY <1>1
<1> USE AggregateAssumption DEF ProjectionsCurrent, Issued
<1>2. ASSUME NEW e \in Evidence, EvidenceDeleted(e) PROVE ProjectionsCurrent'
  BY <1>2 DEF EvidenceDeleted, ProjectionsOn, ClaimsOn, LinksOn, TypeOK, projectionVars
<1>3. ASSUME NEW r \in Corrections, NEW old \in Evidence, NEW new \in Evidence,
             EvidenceCorrected(r, old, new)
      PROVE  ProjectionsCurrent'
  BY <1>3 DEF EvidenceCorrected, Record, ProjectionsOn, ClaimsOn, LinksOn, TypeOK, projectionVars
<1>4. ASSUME NEW r \in Corrections, NEW old \in Claims, NEW new \in Claims,
             ClaimCorrected(r, old, new)
      PROVE  ProjectionsCurrent'
  BY <1>4 DEF ClaimCorrected, Record, ProjectionsOn, TypeOK, projectionVars
<1>5. ASSUME NEW c \in Claims, NEW successor \in Claims, ClaimSuperseded(c, successor)
      PROVE  ProjectionsCurrent'
  BY <1>5 DEF ClaimSuperseded, ProjectionsOn, TypeOK, projectionVars
<1>6. ASSUME NEW p \in Projections, NEW sources \in SUBSET Claims, ProjectionIssued(p, sources)
      PROVE  ProjectionsCurrent'
  <2>1. sources \cap (stale \cup superseded) = {}
    BY <1>6 DEF ProjectionIssued, Disclosable, OneReviewState
  <2> QED BY <1>6, <2>1 DEF ProjectionIssued, TypeOK
<1>7. ASSUME UNCHANGED <<projections, stale, superseded>> PROVE ProjectionsCurrent'
  BY <1>7
<1> HIDE DEF ProjectionsCurrent
<1>8. CASE EvidenceEvents
  BY <1>2, <1>7, <1>8 DEF EvidenceEvents, EvidenceIngested, projectionVars
<1>9. CASE LinkEvents
  BY <1>7, <1>9 DEF LinkEvents, EntityLinked, EntityUnlinked, projectionVars
<1>10. CASE ClaimEvents
  BY <1>5, <1>7, <1>10
  DEF ClaimEvents, ClaimProposed, ClaimAccepted, ClaimContested, ClaimRetired, projectionVars
<1>11. CASE ContradictionEvents
  BY <1>7, <1>11
  DEF ContradictionEvents, ContradictionDetected, ContradictionAdjudicated, projectionVars
<1>12. CASE CorrectionEvents
  BY <1>3, <1>4, <1>12 DEF CorrectionEvents
<1>13. CASE ProjectionEvents
  BY <1>6, <1>7, <1>13 DEF ProjectionEvents, ProjectionRevoked
<1>14. CASE \E row \in invalidations : MarkProcessed(row)
  BY <1>7, <1>14 DEF MarkProcessed, projectionVars
<1>15. CASE UNCHANGED vars
  BY <1>7, <1>15 DEF vars, projectionVars
<1> QED
  BY <1>8, <1>9, <1>10, <1>11, <1>12, <1>13, <1>14, <1>15 DEF Next

-----------------------------------------------------------------------------
(* The index and the invalidation queue. *)

LEMMA IndexStep == TypeOK /\ IndexComplete /\ [Next]_vars => IndexComplete'
<1> SUFFICES ASSUME TypeOK, IndexComplete, [Next]_vars PROVE IndexComplete'
  OBVIOUS
<1> USE AggregateAssumption DEF IndexComplete, Commit, TypeOK, Issued
<1>1. ASSUME NEW l \in Links, NEW refs \in SUBSET (Evidence \X Groups), EntityLinked(l, refs)
      PROVE  IndexComplete'
  BY <1>1 DEF EntityLinked, claimVars, contradictionVars, projectionVars
<1>2. ASSUME NEW c \in Claims, NEW refs \in SUBSET (Evidence \X Groups), ClaimProposed(c, refs)
      PROVE  IndexComplete'
  BY <1>2 DEF ClaimProposed, linkVars, contradictionVars, projectionVars
<1>3. ASSUME NEW k \in Contradictions, NEW cs \in SUBSET Claims, ContradictionDetected(k, cs)
      PROVE  IndexComplete'
  BY <1>3 DEF ContradictionDetected, claimVars, linkVars, projectionVars
<1>4. ASSUME NEW r \in Corrections, NEW old \in Evidence \cup Claims,
             NEW new \in Evidence \cup Claims, Record(r, old, new),
             UNCHANGED <<claims, links, contradictions, projections>>
      PROVE  IndexComplete'
  BY <1>4 DEF Record
<1>5. ASSUME NEW p \in Projections, NEW sources \in SUBSET Claims, ProjectionIssued(p, sources)
      PROVE  IndexComplete'
  BY <1>5 DEF ProjectionIssued, claimVars, linkVars, contradictionVars
<1>6. ASSUME UNCHANGED <<claims, links, contradictions, corrections, projections>>,
             edges \subseteq edges'
      PROVE  IndexComplete'
  BY <1>6
<1> HIDE DEF IndexComplete, TypeOK, Issued
<1> USE DEF claimVars, linkVars, contradictionVars, projectionVars
<1>7. CASE EvidenceEvents
  BY <1>6, <1>7 DEF EvidenceEvents, EvidenceIngested, EvidenceDeleted
<1>8. CASE LinkEvents
  BY <1>1, <1>6, <1>8 DEF LinkEvents, EntityUnlinked
<1>9. CASE ClaimEvents
  BY <1>2, <1>6, <1>9
  DEF ClaimEvents, ClaimAccepted, ClaimContested, ClaimRetired, ClaimSuperseded
<1>10. CASE ContradictionEvents
  BY <1>3, <1>6, <1>10 DEF ContradictionEvents, ContradictionAdjudicated
<1>11. CASE CorrectionEvents
  BY <1>4, <1>11 DEF CorrectionEvents, EvidenceCorrected, ClaimCorrected
<1>12. CASE ProjectionEvents
  BY <1>5, <1>6, <1>12 DEF ProjectionEvents, ProjectionRevoked
<1>13. CASE \E row \in invalidations : MarkProcessed(row)
  BY <1>6, <1>13 DEF MarkProcessed
<1>14. CASE UNCHANGED vars
  BY <1>6, <1>14 DEF vars
<1> QED
  BY <1>7, <1>8, <1>9, <1>10, <1>11, <1>12, <1>13, <1>14 DEF Next

\* An edge from n, or from a dependent of n, leads to a dependent of n.
LEMMA DependentsClosed ==
    ASSUME NEW n, NEW a, NEW b, <<a, b>> \in edges, a \in Dependents(n) \cup {n}
    PROVE  b \in Dependents(n)
BY DEF Dependents

\* The walk of the index finds everything that the state shows to rest on the
\* evidence.
LEMMA WalkFindsAffected ==
    ASSUME TypeOK, IndexComplete, NEW e \in Evidence
    PROVE  Affected(e) \subseteq Dependents(e)
<1> USE DEF IndexComplete
<1>1. \A c \in ClaimsOn(e) : c \in Dependents(e)
  BY DependentsClosed DEF ClaimsOn, RestsOn
<1>2. \A l \in LinksOn(e) : l \in Dependents(e)
  BY DependentsClosed DEF LinksOn, RestsOn
<1>3. \A p \in ProjectionsOn(ClaimsOn(e)) : p \in Dependents(e)
  BY <1>1, DependentsClosed DEF ProjectionsOn
<1>4. \A k \in Contradictions : contradictions[k] \cap ClaimsOn(e) # {} => k \in Dependents(e)
  BY <1>1, DependentsClosed
<1>5. ASSUME NEW r \in Corrections, NEW n \in {e} \cup ClaimsOn(e), NEW m \in Evidence \cup Claims,
             corrections[r] \in {<<n, m>>, <<m, n>>}
      PROVE  r \in Dependents(e)
  <2>1. n \in Evidence \cup Claims
    BY DEF ClaimsOn
  <2>2. <<n, r>> \in edges
    BY <1>5, <2>1
  <2> QED BY <1>1, <2>2, DependentsClosed
<1> QED BY <1>1, <1>2, <1>3, <1>4, <1>5 DEF Affected

-----------------------------------------------------------------------------
(* The theorems. *)

\* The inductive invariant, for projections of past states too.
Inv ==
    /\ TypeOK
    /\ OneReviewState
    /\ ProvenanceResolves
    /\ CorrectedIsSuperseded
    /\ CorrectionsEnd
    /\ IndexComplete

LEMMA InitInv == Init => Inv
<1> SUFFICES ASSUME Init PROVE Inv
  OBVIOUS
<1>1. TypeOK
  BY InitType
<1>2. OneReviewState
  BY DEF Init, OneReviewState
<1>3. KnownClaims = {} /\ KnownLinks = {} /\ Issued = {}
  BY DEF Init, KnownClaims, KnownLinks, Issued
<1>4. ProvenanceResolves
  BY <1>3 DEF ProvenanceResolves
<1>5. \A r \in Corrections : corrections[r] = Absent
  BY DEF Init
<1>6. \A n, m \in Evidence \cup Claims : Absent # <<n, m>>
  BY AggregateAssumption
<1>7. CorrectedIsSuperseded /\ CorrectionsEnd
  <2>1. \A r \in Corrections : \A n, m \in Evidence \cup Claims : corrections[r] # <<n, m>>
    BY <1>5, <1>6
  <2>2. CorrectedIsSuperseded
    BY <2>1 DEF CorrectedIsSuperseded
  <2>3. ASSUME NEW es \in SUBSET Evidence, NEW e \in es
        PROVE  ~ \E r \in Corrections, f \in es : corrections[r] = <<e, f>>
    BY <2>1
  <2> QED BY <2>2, <2>3 DEF CorrectionsEnd
<1>8. IndexComplete
  BY <1>3, <1>5, <1>6 DEF IndexComplete, Init
<1> QED BY <1>1, <1>2, <1>4, <1>7, <1>8 DEF Inv

\* Every reachable state satisfies the invariant.
THEOREM Invariance == Spec => []Inv
<1>1. Inv /\ [Next]_vars => Inv'
  BY TypeStep, ReviewStep, ProvenanceStep, SupersededStep, CorrectionsStep, IndexStep DEF Inv
<1> QED BY InitInv, <1>1, PTL DEF Spec

\* Every variable of the state and of the index keeps its type: apply refuses
\* what would refer to an unknown identity.
THEOREM TypeCorrect == Spec => []TypeOK
<1>1. Inv => TypeOK
  BY DEF Inv
<1> QED BY <1>1, Invariance, PTL

\* However a claim is reviewed, retired, corrected and superseded, it has one
\* review state.
THEOREM OneReview == Spec => []OneReviewState
<1>1. Inv => OneReviewState
  BY DEF Inv
<1> QED BY <1>1, Invariance, PTL

\* Claims and links that are not stale rest on evidence that is there, in the
\* group they were counted in.
THEOREM ProvenanceHolds == Spec => []ProvenanceResolves
<1>1. Inv => ProvenanceResolves
  BY DEF Inv
<1> QED BY <1>1, Invariance, PTL

\* Corrections of evidence, followed from replacement to replacement, end.
THEOREM CorrectionsTerminate == Spec => []CorrectionsEnd
<1>1. Inv => CorrectionsEnd
  BY DEF Inv
<1> QED BY <1>1, Invariance, PTL

\* While projections are compiled from the present state, one that is not marked
\* stale has sources that are neither stale nor superseded.
THEOREM ProjectionsStayCurrent ==
    ASSUME ~PastViews
    PROVE  Spec => []ProjectionsCurrent
<1> DEFINE PInv == Inv /\ views = {} /\ ProjectionsCurrent
<1>1. Init => PInv
  BY InitInv DEF Init, ProjectionsCurrent, Issued
<1>2. PInv /\ [Next]_vars => PInv'
  BY TypeStep, ReviewStep, ProvenanceStep, SupersededStep, CorrectionsStep, IndexStep,
     ProjectionsStep DEF Inv
<1>3. PInv => ProjectionsCurrent
  OBVIOUS
<1> HIDE DEF PInv
<1> QED BY <1>1, <1>2, <1>3, PTL DEF Spec

\* The transaction that deletes evidence queues everything that rests on it.
THEOREM DeletionComplete == Spec => DeletionQueuesAffected
<1> DEFINE Queued ==
      \A e \in Evidence :
          evidence[e] # Absent /\ evidence'[e] = Absent =>
              \A n \in Affected(e) : [deletion |-> sequence', dependent |-> n] \in invalidations'
<1>1. Inv /\ [Next]_vars => [Queued]_vars
  <2> SUFFICES ASSUME Inv, Next PROVE Queued
    OBVIOUS
  <2>1. ASSUME NEW e \in Evidence, EvidenceDeleted(e) PROVE Queued
    <3>1. \A f \in Evidence \ {e} : evidence'[f] = evidence[f]
      BY <2>1 DEF EvidenceDeleted, Inv, TypeOK
    <3>2. \A n \in Dependents(e) : [deletion |-> sequence', dependent |-> n] \in invalidations'
      BY <2>1 DEF EvidenceDeleted, Commit
    <3> QED BY <3>1, <3>2, WalkFindsAffected DEF Inv
  <2>2. ASSUME NEW e \in Evidence, NEW g \in Groups, EvidenceIngested(e, g) PROVE Queued
    BY <2>2, AggregateAssumption DEF EvidenceIngested, Inv, TypeOK
  <2>3. ASSUME UNCHANGED evidence PROVE Queued
    BY <2>3
  <2> HIDE DEF Queued
  <2> QED
    BY <2>1, <2>2, <2>3
    DEF Next, EvidenceEvents, LinkEvents, ClaimEvents, ContradictionEvents, CorrectionEvents,
        ProjectionEvents, EntityLinked, EntityUnlinked, ClaimProposed, ClaimAccepted,
        ClaimContested, ClaimRetired, ClaimSuperseded, ContradictionDetected,
        ContradictionAdjudicated, EvidenceCorrected, ClaimCorrected, ProjectionIssued,
        ProjectionRevoked, MarkProcessed
<1> QED BY <1>1, Invariance, PTL DEF Spec, DeletionQueuesAffected

-----------------------------------------------------------------------------
(* What is read of the state: traces, plans, views of earlier times. *)

\* The index has no edge but those of the state: none leads to evidence, and one
\* that leads to a claim comes from its provenance or from a claim it succeeds.
IndexExact ==
    \A a, b \in Nodes : <<a, b>> \in edges =>
        /\ b \notin Evidence
        /\ b \in Claims => a \in Claims \/ \E ref \in claims[b] : ref[1] = a

\* A contradiction is between claims that are there.
ContradictionsKnown == \A k \in Contradictions : contradictions[k] \subseteq KnownClaims

LEMMA ExactStep == TypeOK /\ IndexExact /\ [Next]_vars => IndexExact'
<1> SUFFICES ASSUME TypeOK, IndexExact, [Next]_vars PROVE IndexExact'
  OBVIOUS
<1>1. ASSUME NEW c \in Claims, NEW refs \in SUBSET (Evidence \X Groups), ClaimProposed(c, refs)
      PROVE  IndexExact'
  <2>1. claims[c] = {} /\ claims' = [claims EXCEPT ![c] = refs]
        /\ edges' = edges \cup {<<r[1], c>> : r \in refs}
    BY <1>1 DEF ClaimProposed, KnownClaims, Commit
  <2>2. claims'[c] = refs /\ \A b \in Claims \ {c} : claims'[b] = claims[b]
    BY <2>1 DEF TypeOK
  <2> SUFFICES ASSUME NEW a \in Nodes, NEW b \in Nodes, <<a, b>> \in edges'
               PROVE  /\ b \notin Evidence
                      /\ b \in Claims => a \in Claims \/ \E ref \in claims'[b] : ref[1] = a
    BY DEF IndexExact
  <2>3. CASE <<a, b>> \in edges
    BY <2>1, <2>2, <2>3 DEF IndexExact
  <2>4. CASE \E r \in refs : <<a, b>> = <<r[1], c>>
    BY <2>2, <2>4, AggregateAssumption
  <2> QED BY <2>1, <2>3, <2>4
<1>2. ASSUME UNCHANGED claims,
             \A a, b \in Nodes : <<a, b>> \in edges' \ edges =>
                 b \notin Evidence /\ (b \in Claims => a \in Claims)
      PROVE  IndexExact'
  BY <1>2 DEF IndexExact
<1>3. ASSUME NEW r \in Corrections, NEW old, NEW new, Record(r, old, new), UNCHANGED claims
      PROVE  IndexExact'
  <2>1. edges' = edges \cup {<<old, r>>, <<new, r>>}
    BY <1>3 DEF Record, Commit
  <2> QED BY <1>2, <1>3, <2>1, ViewsAssumption
<1>4. ASSUME NEW l \in Links, NEW refs, EntityLinked(l, refs) PROVE IndexExact'
  <2>1. edges' = edges \cup {<<r[1], l>> : r \in refs} /\ UNCHANGED claims
    BY <1>4 DEF EntityLinked, Commit, claimVars
  <2> QED BY <1>2, <2>1, ViewsAssumption
<1>5. ASSUME NEW k \in Contradictions, NEW cs, ContradictionDetected(k, cs) PROVE IndexExact'
  <2>1. edges' = edges \cup {<<c, k>> : c \in cs} /\ UNCHANGED claims
    BY <1>5 DEF ContradictionDetected, Commit, claimVars
  <2> QED BY <1>2, <2>1, ViewsAssumption
<1>6. ASSUME NEW p \in Projections, NEW sources, ProjectionIssued(p, sources) PROVE IndexExact'
  <2>1. edges' = edges \cup {<<c, p>> : c \in sources} /\ UNCHANGED claims
    BY <1>6 DEF ProjectionIssued, Commit, claimVars
  <2> QED BY <1>2, <2>1, ViewsAssumption
<1>7. ASSUME NEW c \in Claims, NEW successor \in Claims, ClaimSuperseded(c, successor)
      PROVE  IndexExact'
  <2>1. edges' = edges \cup {<<c, successor>>} /\ UNCHANGED claims
    BY <1>7 DEF ClaimSuperseded, Commit
  <2> QED BY <1>2, <2>1, AggregateAssumption
<1>8. ASSUME UNCHANGED <<claims, edges>> PROVE IndexExact'
  BY <1>8 DEF IndexExact
<1> USE DEF Commit, claimVars
<1>9. CASE EvidenceEvents
  BY <1>8, <1>9 DEF EvidenceEvents, EvidenceIngested, EvidenceDeleted
<1>10. CASE LinkEvents
  BY <1>4, <1>8, <1>10 DEF LinkEvents, EntityUnlinked
<1>11. CASE ClaimEvents
  BY <1>1, <1>7, <1>8, <1>11 DEF ClaimEvents, ClaimAccepted, ClaimContested, ClaimRetired
<1>12. CASE ContradictionEvents
  BY <1>5, <1>8, <1>12 DEF ContradictionEvents, ContradictionAdjudicated
<1>13. CASE CorrectionEvents
  BY <1>3, <1>13 DEF CorrectionEvents, EvidenceCorrected, ClaimCorrected
<1>14. CASE ProjectionEvents
  BY <1>6, <1>8, <1>14 DEF ProjectionEvents, ProjectionRevoked
<1>15. CASE \E row \in invalidations : MarkProcessed(row)
  BY <1>8, <1>15 DEF MarkProcessed
<1>16. CASE UNCHANGED vars
  BY <1>8, <1>16 DEF vars
<1> QED
  BY <1>9, <1>10, <1>11, <1>12, <1>13, <1>14, <1>15, <1>16 DEF Next

\* Claims stay known, so contradictions stay between known claims.
LEMMA KnownStep == TypeOK /\ ContradictionsKnown /\ [Next]_vars => ContradictionsKnown'
<1> SUFFICES ASSUME TypeOK, ContradictionsKnown, [Next]_vars PROVE ContradictionsKnown'
  OBVIOUS
<1>1. ASSUME NEW c \in Claims, NEW refs \in SUBSET (Evidence \X Groups), ClaimProposed(c, refs)
      PROVE  ContradictionsKnown'
  BY <1>1 DEF ClaimProposed, ContradictionsKnown, KnownClaims, TypeOK, contradictionVars
<1>2. ASSUME NEW k \in Contradictions, NEW cs \in SUBSET Claims, ContradictionDetected(k, cs)
      PROVE  ContradictionsKnown'
  BY <1>2 DEF ContradictionDetected, ContradictionsKnown, KnownClaims, TypeOK, claimVars
<1>3. ASSUME UNCHANGED <<claims, contradictions>> PROVE ContradictionsKnown'
  BY <1>3 DEF ContradictionsKnown, KnownClaims
<1> USE DEF claimVars, contradictionVars
<1>4. CASE ClaimEvents
  BY <1>1, <1>3, <1>4
  DEF ClaimEvents, ClaimAccepted, ClaimContested, ClaimRetired, ClaimSuperseded
<1>5. CASE ContradictionEvents
  BY <1>2, <1>3, <1>5 DEF ContradictionEvents, ContradictionAdjudicated
<1> QED
  BY <1>3, <1>4, <1>5
  DEF Next, EvidenceEvents, LinkEvents, CorrectionEvents, ProjectionEvents, EvidenceIngested,
      EvidenceDeleted, EntityLinked, EntityUnlinked, EvidenceCorrected, ClaimCorrected,
      ProjectionIssued, ProjectionRevoked, MarkProcessed, vars

\* An event takes the next sequence and adds to the index; nothing else does.
LEMMA SequenceStep ==
    [Next]_vars => \/ UNCHANGED <<sequence, edges>>
                   \/ sequence' = sequence + 1 /\ edges \subseteq edges'
<1> SUFFICES ASSUME [Next]_vars
             PROVE  \/ UNCHANGED <<sequence, edges>>
                    \/ sequence' = sequence + 1 /\ edges \subseteq edges'
  OBVIOUS
<1>1. (\E new : Commit(new)) \/ UNCHANGED <<sequence, edges>>
  BY DEF Next, EvidenceEvents, LinkEvents, ClaimEvents, ContradictionEvents, CorrectionEvents,
         ProjectionEvents, EvidenceIngested, EvidenceDeleted, EntityLinked, EntityUnlinked,
         ClaimProposed, ClaimAccepted, ClaimContested, ClaimRetired, ClaimSuperseded,
         ContradictionDetected, ContradictionAdjudicated, EvidenceCorrected, ClaimCorrected,
         Record, ProjectionIssued, ProjectionRevoked, MarkProcessed, vars
<1> QED BY <1>1 DEF Commit

-----------------------------------------------------------------------------
(* The history of states, edges and reads. *)

StateSet ==
    [sequence : Nat, evidence : [Evidence -> Groups \cup {Absent}], claims : [Claims -> References],
     contested : SUBSET Claims, stale : SUBSET Nodes,
     contradictions : [Contradictions -> SUBSET Claims], resolved : SUBSET Contradictions]

\* The states that were, each at its sequence, with contradictions of known claims.
HistoryInv ==
    /\ clock \in Nat /\ recorded \in Seq(Nat) /\ Len(recorded) = sequence
    /\ past \in Seq([state : StateSet, edges : SUBSET (Nodes \X Nodes)])
    /\ Len(past) = sequence + 1
    /\ \A s \in 1..Len(past) :
          /\ past[s].state.sequence = s - 1
          /\ \A k \in Contradictions : past[s].state.contradictions[k] \subseteq Known(past[s].state)

\* Every edge has a stamp, and every stamp is of an edge and of an event.
StampInv ==
    /\ \A stamp \in stamps : stamp[1] \in edges /\ stamp[2] \in 1..sequence
    /\ \A edge \in edges : \E stamp \in stamps : stamp[1] = edge
    /\ TracesAsRecorded

\* What was read as of a time holds the events recorded by then; while the clock is
\* not set back, all that will ever be.
ReadInv ==
    \A r \in read :
        /\ r[1] \in Nat /\ r[2] \in 0..sequence
        /\ \A t \in 1..r[2] : recorded[t] <= r[1]
        /\ ~setBack => r[1] < clock /\ (r[2] < sequence => recorded[r[2] + 1] > r[1])

ViewsInv == Inv /\ IndexExact /\ ContradictionsKnown /\ HistoryInv /\ StampInv /\ ReadInv

LEMMA StateTyped == ASSUME TypeOK PROVE State \in StateSet
BY AggregateAssumption DEF State, StateSet, TypeOK, KnownClaims, KnownLinks, Issued, Nodes

LEMMA InitViewsInv == InitViews => ViewsInv
<1> SUFFICES ASSUME InitViews PROVE ViewsInv
  OBVIOUS
<1>1. Inv
  BY InitInv DEF InitViews
<1>2. IndexExact /\ ContradictionsKnown
  BY DEF InitViews, Init, IndexExact, ContradictionsKnown
<1>3. HistoryInv
  <2> DEFINE v == [state |-> State, edges |-> {}]
  <2>1. v \in [state : StateSet, edges : SUBSET (Nodes \X Nodes)]
    BY <1>1, StateTyped DEF Inv
  <2>2. v.state = State /\ State.sequence = 0 /\ \A k \in Contradictions : State.contradictions[k] = {}
    BY DEF InitViews, Init, State
  <2>3. past = <<v>> /\ sequence = 0 /\ recorded = <<>> /\ clock = 1
    BY DEF InitViews, Init
  <2> HIDE DEF v
  <2>4. past \in Seq([state : StateSet, edges : SUBSET (Nodes \X Nodes)]) /\ Len(past) = 1 /\ past[1] = v
    BY <2>1, <2>3
  <2> QED BY <2>2, <2>3, <2>4 DEF HistoryInv
<1>4. StampInv
  <2>1. stamps = {} /\ edges = {} /\ Len(past) = 1 /\ past[1].edges = {}
    BY DEF InitViews, Init
  <2> QED BY <2>1 DEF StampInv, TracesAsRecorded, EdgesUpTo
<1>5. ReadInv
  BY DEF InitViews, ReadInv
<1> QED BY <1>1, <1>2, <1>3, <1>4, <1>5 DEF ViewsInv

\* A step of the views is one of the aggregate, or none.
LEMMA ViewsStepIsAggregateStep == [NextViews]_<<vars, viewVars>> => [Next]_vars
BY DEF NextViews, Event, ReadPast, Tick, StepBack

\* The first sequence at which a replay may stop.
LEMMA FirstLater ==
    ASSUME HistoryInv, sequence \in Nat, NEW time \in Nat
    PROVE  \E s \in 0..sequence :
              /\ \A t \in 1..s : recorded[t] <= time
              /\ s < sequence => recorded[s + 1] > time
<1> DEFINE R == OpToRel(<, Nat)
           T == {s \in 0..sequence : s < sequence => recorded[s + 1] > time}
<1>1. IsWellFoundedOn(R, Nat)
  BY NatLessThanWellFounded
<1>2. \A d, e \in Nat : e < d => <<e, d>> \in R
  BY DEF OpToRel
<1> HIDE DEF R
<1>3. T \subseteq Nat /\ sequence \in T
  OBVIOUS
<1>4. PICK s \in T : \A u \in T : ~(<<u, s>> \in R)
  BY <1>1, <1>3, WFMin
<1>5. ASSUME NEW t \in 1..s PROVE recorded[t] <= time
  <2>1. t - 1 \in Nat /\ t - 1 < s /\ t - 1 \in 0..sequence /\ t - 1 < sequence /\ (t - 1) + 1 = t
    BY <1>3
  <2>2. ~(t - 1 \in T)
    BY <1>2, <1>3, <1>4, <2>1
  <2>3. ~(recorded[t] > time)
    BY <2>1, <2>2
  <2>4. t \in 1..sequence
    BY <1>3
  <2>5. recorded[t] \in Nat
    BY <2>4 DEF HistoryInv
  <2> QED BY <2>3, <2>5
<1> QED BY <1>3, <1>5

\* rebuild as of a time finds it.
LEMMA SequenceAtFound ==
    ASSUME HistoryInv, sequence \in Nat, NEW time \in Nat
    PROVE  /\ SequenceAt(time) \in 0..sequence
           /\ \A t \in 1..SequenceAt(time) : recorded[t] <= time
           /\ SequenceAt(time) < sequence => recorded[SequenceAt(time) + 1] > time
BY FirstLater DEF SequenceAt

-----------------------------------------------------------------------------
(* The views' steps. *)

\* An event goes into the history.
LEMMA EventViews ==
    ASSUME ViewsInv, Inv', ContradictionsKnown', sequence' = sequence + 1, edges \subseteq edges',
           Recorded, UNCHANGED <<clock, setBack, read>>
    PROVE  HistoryInv' /\ StampInv' /\ ReadInv'
<1> DEFINE v == [state |-> State', edges |-> edges']
<1>1. /\ sequence \in Nat /\ HistoryInv /\ StampInv /\ ReadInv
  BY DEF ViewsInv, Inv, TypeOK
<1>2. /\ recorded' = Append(recorded, clock) /\ past' = Append(past, v)
      /\ stamps' = stamps \cup {<<edge, sequence'>> : edge \in edges' \ edges}
  BY <1>1 DEF Recorded
<1>3. /\ recorded' \in Seq(Nat) /\ Len(recorded') = sequence' /\ recorded'[sequence + 1] = clock
      /\ \A t \in 1..sequence : recorded'[t] = recorded[t]
  BY <1>1, <1>2 DEF HistoryInv
<1>4. State' \in StateSet /\ edges' \subseteq Nodes \X Nodes
  <2>1. TypeOK'
    BY DEF Inv
  <2>2. State' \in StateSet
    BY <2>1, AggregateAssumption DEF State, StateSet, TypeOK, KnownClaims, KnownLinks, Issued, Nodes
  <2> QED BY <2>1, <2>2 DEF TypeOK
<1>5. /\ v.state = State' /\ v.edges = edges' /\ State'.sequence = sequence + 1
      /\ \A k \in Contradictions : State'.contradictions[k] \subseteq Known(State')
  BY DEF State, ContradictionsKnown, KnownClaims, Known
<1>6. v \in [state : StateSet, edges : SUBSET (Nodes \X Nodes)]
  BY <1>4
<1> HIDE DEF v
<1>7. /\ past' \in Seq([state : StateSet, edges : SUBSET (Nodes \X Nodes)])
      /\ Len(past') = sequence + 2 /\ past'[sequence + 2] = v
      /\ \A s \in 1..(sequence + 1) : past'[s] = past[s]
  BY <1>1, <1>2, <1>6 DEF HistoryInv
<1>8. \A s \in 1..(sequence + 2) : s \in 1..(sequence + 1) \/ s = sequence + 2
  BY <1>1
<1>9. HistoryInv'
  <2>1. \A s \in 1..(sequence + 1) : past[s].state.sequence = s - 1
                                     /\ \A k \in Contradictions : past[s].state.contradictions[k] \subseteq Known(past[s].state)
    BY <1>1 DEF HistoryInv
  <2>2. v.state.sequence = (sequence + 2) - 1
    BY <1>1, <1>5
  <2>3. \A s \in 1..Len(past') : past'[s].state.sequence = s - 1
                                 /\ \A k \in Contradictions : past'[s].state.contradictions[k] \subseteq Known(past'[s].state)
    BY <1>5, <1>7, <1>8, <2>1, <2>2
  <2>4. clock' \in Nat /\ Len(past') = sequence' + 1
    BY <1>1, <1>7 DEF HistoryInv
  <2> QED BY <1>3, <1>7, <2>3, <2>4 DEF HistoryInv, Known
<1>10. StampInv'
  <2>1. \A stamp \in stamps' : stamp \in stamps \/ \E edge \in edges' \ edges : stamp = <<edge, sequence + 1>>
    BY <1>2
  <2>2. \A stamp \in stamps' : stamp[1] \in edges' /\ stamp[2] \in 1..sequence'
    <3>1. \A stamp \in stamps : stamp[1] \in edges' /\ stamp[2] \in 1..sequence'
      BY <1>1 DEF StampInv
    <3> QED BY <1>1, <2>1, <3>1
  <2>3. \A edge \in edges' : \E stamp \in stamps' : stamp[1] = edge
    <3>1. \A edge \in edges' \ edges : <<edge, sequence'>> \in stamps' /\ <<edge, sequence'>>[1] = edge
      BY <1>2
    <3>2. \A edge \in edges : \E stamp \in stamps' : stamp[1] = edge
      BY <1>1, <1>2 DEF StampInv
    <3> QED BY <3>1, <3>2
  <2>4. ASSUME NEW s \in 1..(sequence + 1)
        PROVE  {stamp[1] : stamp \in {t \in stamps' : t[2] <= past[s].state.sequence}} = past[s].edges
    <3>1. past[s].state.sequence = s - 1 /\ s - 1 <= sequence
      BY <1>1 DEF HistoryInv
    <3>2. {t \in stamps' : t[2] <= past[s].state.sequence} = {t \in stamps : t[2] <= past[s].state.sequence}
      BY <1>1, <1>2, <2>1, <3>1
    <3> QED BY <1>1, <3>2 DEF StampInv, TracesAsRecorded, EdgesUpTo, HistoryInv
  <2>5. {stamp[1] : stamp \in {t \in stamps' : t[2] <= sequence + 1}} = edges'
    <3>1. {t \in stamps' : t[2] <= sequence + 1} = stamps'
      BY <1>1, <2>2
    <3> QED BY <2>2, <2>3, <3>1
  <2>6. \A s \in 1..Len(past') :
            {stamp[1] : stamp \in {t \in stamps' : t[2] <= past'[s].state.sequence}} = past'[s].edges
    <3> SUFFICES ASSUME NEW s \in 1..(sequence + 2)
                 PROVE  {stamp[1] : stamp \in {t \in stamps' : t[2] <= past'[s].state.sequence}} = past'[s].edges
      BY <1>7
    <3>1. CASE s = sequence + 2
      BY <1>5, <1>7, <2>5, <3>1
    <3>2. CASE s \in 1..(sequence + 1)
      BY <1>7, <2>4, <3>2
    <3> QED BY <1>8, <3>1, <3>2
  <2>7. TracesAsRecorded'
    BY <2>6 DEF TracesAsRecorded, EdgesUpTo
  <2> QED BY <2>2, <2>3, <2>7 DEF StampInv
<1>11. ReadInv'
  <2> SUFFICES ASSUME NEW r \in read
               PROVE  /\ r[1] \in Nat /\ r[2] \in 0..sequence'
                      /\ \A t \in 1..r[2] : recorded'[t] <= r[1]
                      /\ ~setBack => r[1] < clock /\ (r[2] < sequence' => recorded'[r[2] + 1] > r[1])
    BY DEF ReadInv
  <2>1. /\ r[1] \in Nat /\ r[2] \in 0..sequence
        /\ \A t \in 1..r[2] : recorded[t] <= r[1]
        /\ ~setBack => r[1] < clock /\ (r[2] < sequence => recorded[r[2] + 1] > r[1])
    BY <1>1 DEF ReadInv
  <2>2. \A t \in 1..r[2] : t \in 1..sequence
    BY <1>1, <2>1
  <2>3. ASSUME ~setBack PROVE recorded'[r[2] + 1] > r[1]
    <3>1. CASE r[2] < sequence
      <4>1. r[2] + 1 \in 1..sequence
        BY <1>1, <2>1, <3>1
      <4> QED BY <1>3, <2>1, <2>3, <3>1, <4>1
    <3>2. CASE r[2] = sequence
      <4>1. clock \in Nat
        BY <1>1 DEF HistoryInv
      <4> QED BY <1>3, <2>1, <2>3, <3>2, <4>1
    <3> QED BY <1>1, <2>1, <3>1, <3>2
  <2>4. r[2] \in 0..sequence'
    BY <1>1, <2>1
  <2> QED BY <1>3, <2>1, <2>2, <2>3, <2>4
<1> QED BY <1>9, <1>10, <1>11

LEMMA ViewsStep == ViewsInv /\ [NextViews]_<<vars, viewVars>> => ViewsInv'
<1> SUFFICES ASSUME ViewsInv, [NextViews]_<<vars, viewVars>> PROVE ViewsInv'
  OBVIOUS
<1>1. [Next]_vars /\ Inv /\ TypeOK /\ IndexExact /\ ContradictionsKnown
  BY ViewsStepIsAggregateStep DEF ViewsInv, Inv
<1>2. Inv' /\ IndexExact' /\ ContradictionsKnown'
  BY <1>1, TypeStep, ReviewStep, ProvenanceStep, SupersededStep, CorrectionsStep, IndexStep,
     ExactStep, KnownStep DEF Inv
<1>3. HistoryInv /\ StampInv /\ ReadInv /\ sequence \in Nat
  BY <1>1 DEF ViewsInv, TypeOK
<1>4. ASSUME UNCHANGED <<sequence, edges, recorded, stamps, past>>, clock' \in Nat
      PROVE  HistoryInv' /\ StampInv'
  <2>1. HistoryInv'
    BY <1>3, <1>4 DEF HistoryInv, Known
  <2>2. TracesAsRecorded'
    BY <1>3, <1>4 DEF StampInv, TracesAsRecorded, EdgesUpTo
  <2> QED BY <1>3, <1>4, <2>1, <2>2 DEF StampInv
<1>5. CASE Event
  <2>1. CASE UNCHANGED <<sequence, edges>>
    <3>1. UNCHANGED <<recorded, stamps, past, clock, setBack, read>>
      BY <1>5, <2>1 DEF Event, Recorded
    <3>2. ReadInv'
      BY <1>3, <2>1, <3>1 DEF ReadInv
    <3>3. clock' \in Nat
      BY <1>3, <3>1 DEF HistoryInv
    <3> QED BY <1>2, <1>4, <2>1, <3>1, <3>2, <3>3 DEF ViewsInv
  <2>2. CASE sequence' = sequence + 1 /\ edges \subseteq edges'
    BY <1>2, <1>5, <2>2, EventViews DEF Event, ViewsInv
  <2> QED BY <1>1, <2>1, <2>2, SequenceStep
<1>6. ASSUME NEW time \in 1..MaxTime, ReadPast(time) PROVE ViewsInv'
  <2>1. /\ UNCHANGED <<sequence, edges, recorded, stamps, past, clock, setBack>>
        /\ read' = read \cup {<<time, SequenceAt(time)>>} /\ time < clock
    BY <1>6 DEF ReadPast, vars
  <2>2. time \in Nat
    BY ViewsAssumption
  <2>3. PICK s : s = SequenceAt(time)
    OBVIOUS
  <2>4. /\ s \in 0..sequence /\ \A t \in 1..s : recorded[t] <= time
        /\ s < sequence => recorded[s + 1] > time
    BY <1>3, <2>2, <2>3, SequenceAtFound
  <2>5. \A r \in read' : r \in read \/ (r[1] = time /\ r[2] = s)
    BY <2>1, <2>3
  <2>6. \A r \in read' :
        /\ r[1] \in Nat /\ r[2] \in 0..sequence
        /\ \A t \in 1..r[2] : recorded[t] <= r[1]
        /\ ~setBack => r[1] < clock /\ (r[2] < sequence => recorded[r[2] + 1] > r[1])
    BY <1>3, <2>1, <2>2, <2>4, <2>5 DEF ReadInv
  <2>7. ReadInv'
    BY <2>1, <2>6 DEF ReadInv
  <2>8. clock' \in Nat
    BY <1>3, <2>1 DEF HistoryInv
  <2> QED BY <1>2, <1>4, <2>1, <2>7, <2>8 DEF ViewsInv
<1>7. CASE Tick \/ StepBack
  <2>1. /\ UNCHANGED <<sequence, edges, recorded, stamps, past, read>>
        /\ \/ clock' = clock + 1 /\ UNCHANGED setBack
           \/ clock > 1 /\ clock' = clock - 1 /\ setBack'
    BY <1>7 DEF Tick, StepBack, vars
  <2>2. clock \in Nat
    BY <1>3 DEF HistoryInv
  <2>3. clock' \in Nat
    BY <2>1, <2>2
  <2>4. ReadInv'
    BY <1>3, <2>1, <2>2 DEF ReadInv
  <2> QED BY <1>2, <1>4, <2>1, <2>3, <2>4 DEF ViewsInv
<1>8. CASE UNCHANGED <<vars, viewVars>>
  <2>1. UNCHANGED <<sequence, edges, recorded, stamps, past, read, clock, setBack>>
    BY <1>8 DEF vars, viewVars
  <2>2. ReadInv' /\ clock' \in Nat
    BY <1>3, <2>1 DEF ReadInv, HistoryInv
  <2> QED BY <1>2, <1>4, <2>1, <2>2 DEF ViewsInv
<1> QED BY <1>5, <1>6, <1>7, <1>8 DEF NextViews

LEMMA ViewsInvariance == SpecViews => []ViewsInv
<1> QED BY InitViewsInv, ViewsStep, PTL DEF SpecViews

\* What holds of the aggregate holds where its views are read.
THEOREM ViewsExtendAggregate == SpecViews => Spec
<1>1. InitViews => Init
  BY DEF InitViews
<1> QED BY <1>1, ViewsStepIsAggregateStep, PTL DEF SpecViews, Spec

\* A view read as of a past time is the one read as of that time ever after, unless
\* the clock is set back, and then it loses nothing (rebuild's as_of_recorded_time).
THEOREM ViewsStayStable == SpecViews => []ViewsStable
<1>1. ASSUME ViewsInv PROVE ViewsStable
  <2> SUFFICES ASSUME NEW r \in read
               PROVE  /\ SequenceAt(r[1]) >= r[2]
                      /\ ~setBack => SequenceAt(r[1]) = r[2]
    BY DEF ViewsStable
  <2>1. HistoryInv /\ sequence \in Nat
    BY <1>1 DEF ViewsInv, Inv, TypeOK
  <2>2. /\ r[1] \in Nat /\ r[2] \in 0..sequence
        /\ \A t \in 1..r[2] : recorded[t] <= r[1]
        /\ ~setBack => (r[2] < sequence => recorded[r[2] + 1] > r[1])
    BY <1>1 DEF ViewsInv, ReadInv
  <2>3. PICK s : s = SequenceAt(r[1])
    OBVIOUS
  <2>4. /\ s \in 0..sequence /\ \A t \in 1..s : recorded[t] <= r[1]
        /\ s < sequence => recorded[s + 1] > r[1]
    BY <2>1, <2>2, <2>3, SequenceAtFound
  <2>5. \A t \in 1..sequence : recorded[t] \in Nat
    BY <2>1 DEF HistoryInv
  <2>6. ~(s < r[2])
    <3> SUFFICES ASSUME s < r[2] PROVE FALSE
      OBVIOUS
    <3>1. s + 1 \in 1..r[2] /\ s < sequence /\ s + 1 \in 1..sequence
      BY <2>1, <2>2, <2>4
    <3> QED BY <2>2, <2>4, <2>5, <3>1
  <2>7. ~setBack => ~(r[2] < s)
    <3> SUFFICES ASSUME ~setBack, r[2] < s PROVE FALSE
      OBVIOUS
    <3>1. r[2] + 1 \in 1..s /\ r[2] < sequence /\ r[2] + 1 \in 1..sequence
      BY <2>1, <2>2, <2>4
    <3> QED BY <2>2, <2>4, <2>5, <3>1
  <2> QED BY <2>2, <2>3, <2>4, <2>6, <2>7
<1> QED BY <1>1, ViewsInvariance, PTL

\* The gaps of a plan of all claims, one by one.
LEMMA GapsOfState ==
    ASSUME NEW gap
    PROVE  gap \in Gaps(State, Known(State), TRUE) <=>
              \/ Known(State) = {} /\ gap = <<"missing", {}, {}>>
              \/ \E c \in Known(State) : \E kind \in ClaimGaps(State, c) : gap = <<kind, {c}, {}>>
              \/ \E k \in Contradictions :
                    /\ State.contradictions[k] # {} /\ k \notin State.resolved
                    /\ gap = <<"contradiction", State.contradictions[k], {k}>>
<1> DEFINE missing == {<<"missing", {}, {}>> : x \in {Known(State)} \cap {{}}}
           of(c) == {<<kind, {c}, {}>> : kind \in ClaimGaps(State, c)}
           ofClaims == UNION {of(c) : c \in Known(State)}
           open == {j \in Contradictions :
                       /\ State.contradictions[j] # {} /\ j \notin State.resolved
                       /\ TRUE \/ State.contradictions[j] \cap Known(State) # {}}
           ofContradictions == {<<"contradiction", State.contradictions[k], {k}>> : k \in open}
<1>1. Gaps(State, Known(State), TRUE) = missing \cup ofClaims \cup ofContradictions
  BY Zenon DEF Gaps
<1>2. gap \in missing <=> Known(State) = {} /\ gap = <<"missing", {}, {}>>
  OBVIOUS
<1>3. gap \in ofClaims <=>
         \E c \in Known(State) : \E kind \in ClaimGaps(State, c) : gap = <<kind, {c}, {}>>
  <2>1. \A c \in Known(State) : gap \in of(c) <=> \E kind \in ClaimGaps(State, c) : gap = <<kind, {c}, {}>>
    OBVIOUS
  <2> HIDE DEF of
  <2>2. gap \in ofClaims <=> \E c \in Known(State) : gap \in of(c)
    OBVIOUS
  <2> QED BY <2>1, <2>2, Zenon
<1>4. gap \in ofContradictions <=>
         \E k \in Contradictions :
            /\ State.contradictions[k] # {} /\ k \notin State.resolved
            /\ gap = <<"contradiction", State.contradictions[k], {k}>>
  OBVIOUS
<1> HIDE DEF missing, ofClaims, ofContradictions
<1> QED BY <1>1, <1>2, <1>3, <1>4

\* Plans of every earlier state verify when an answer arrives, their gaps have ids of
\* their own, and the facade's deficits are their gaps (GapDirectedElicitor.plan and
\* verify_plan, read_representation_deficits).
THEOREM PlansStaySound == SpecViews => []PlansSound
<1>1. ASSUME ViewsInv PROVE PlansVerify
  <2> SUFFICES ASSUME NEW s \in 1..Len(past)
               PROVE  /\ Verifies(Plan(past[s].state, {}, TRUE))
                      /\ \A selection \in SUBSET Known(past[s].state) :
                            Verifies(Plan(past[s].state, selection, FALSE))
    BY DEF PlansVerify
  <2>1. HistoryInv
    BY <1>1 DEF ViewsInv
  <2> DEFINE state == past[s].state
  <2>2. /\ state.sequence + 1 = s
        /\ \A k \in Contradictions : state.contradictions[k] \subseteq Known(state)
    BY <2>1 DEF HistoryInv
  <2>3. \A selection : Plan(state, selection, FALSE).sequence = state.sequence
                       /\ Plan(state, selection, FALSE).claims = selection
    BY DEF Plan
  <2>4. \A selection : Verifies(Plan(state, selection, FALSE))
    BY <2>2, <2>3 DEF Verifies
  <2>5. Plan(state, {}, TRUE) = Plan(state, Known(state), FALSE)
    <3>1. Gaps(state, Known(state), TRUE) = Gaps(state, Known(state), FALSE)
      <4>1. \A j \in Contradictions : state.contradictions[j] # {} => state.contradictions[j] \cap Known(state) # {}
        BY <2>2
      <4> QED BY <4>1 DEF Gaps
    <3> QED BY <3>1 DEF Plan
  <2> QED BY <2>4, <2>5
<1>2. GapsDistinct
  <2>1. \A g \in Gaps(State, Known(State), TRUE) : g = <<g[1], g[2], g[3]>>
    <3> SUFFICES ASSUME NEW g \in Gaps(State, Known(State), TRUE) PROVE g = <<g[1], g[2], g[3]>>
      OBVIOUS
    <3>1. \E a, b, c : g = <<a, b, c>>
      <4>1. CASE \E c \in Known(State) : \E kind \in ClaimGaps(State, c) : g = <<kind, {c}, {}>>
        BY <4>1
      <4>2. CASE \E k \in Contradictions : g = <<"contradiction", State.contradictions[k], {k}>>
        BY <4>2
      <4>3. CASE g = <<"missing", {}, {}>>
        BY <4>3
      <4>4. \/ Known(State) = {} /\ g = <<"missing", {}, {}>>
            \/ \E c \in Known(State) : \E kind \in ClaimGaps(State, c) : g = <<kind, {c}, {}>>
            \/ \E k \in Contradictions :
                  /\ State.contradictions[k] # {} /\ k \notin State.resolved
                  /\ g = <<"contradiction", State.contradictions[k], {k}>>
        BY GapsOfState
      <4> QED BY <4>1, <4>2, <4>3, <4>4, Zenon
    <3> QED BY <3>1
  <2> QED BY <2>1 DEF GapsDistinct, GapId
<1>3. ASSUME ViewsInv PROVE DeficitsMatchPlan
  <2>1. stale \cap Claims \subseteq KnownClaims /\ contested \subseteq KnownClaims
    BY <1>3, ViewsAssumption DEF ViewsInv, Inv, TypeOK, KnownLinks, Issued
  <2>2. /\ Known(State) = KnownClaims /\ State.stale = stale /\ State.contested = contested
    BY DEF Known, State, KnownClaims
  <2>3. KnownClaims \subseteq Claims
    BY DEF KnownClaims
  <2> DEFINE gaps == Gaps(State, Known(State), TRUE)
  <2>4. ASSUME NEW gap
        PROVE  gap \in Deficits(State) <=>
                  \/ KnownClaims = {} /\ gap = <<"missing", {}, {}>>
                  \/ \E c \in stale \cap Claims : gap = <<"stale", {c}, {}>>
                  \/ \E c \in contested : gap = <<"contested", {c}, {}>>
                  \/ \E k \in Contradictions :
                        /\ State.contradictions[k] # {} /\ k \notin State.resolved
                        /\ gap = <<"contradiction", State.contradictions[k], {k}>>
    BY <2>2 DEF Deficits
  <2>5. ASSUME NEW c, NEW kind, kind # "independence"
        PROVE  kind \in ClaimGaps(State, c) <=> (kind = "contested" /\ c \in contested) \/ (kind = "stale" /\ c \in stale)
    BY <2>2, <2>5 DEF ClaimGaps
  <2>6. ASSUME NEW gap \in gaps, gap[1] # "independence" PROVE gap \in Deficits(State)
    <3>1. CASE \E c \in KnownClaims : \E kind \in ClaimGaps(State, c) : gap = <<kind, {c}, {}>>
      <4>0. PICK c \in KnownClaims : \E kind \in ClaimGaps(State, c) : gap = <<kind, {c}, {}>>
        BY <3>1
      <4>1. PICK kind \in ClaimGaps(State, c) : gap = <<kind, {c}, {}>>
        BY <4>0
      <4>2. kind # "independence"
        BY <2>6, <4>1
      <4> QED BY <2>3, <2>4, <2>5, <4>1, <4>2
    <3>2. CASE Known(State) = {} /\ gap = <<"missing", {}, {}>>
      BY <2>2, <2>4, <3>2
    <3>3. CASE \E k \in Contradictions :
                  /\ State.contradictions[k] # {} /\ k \notin State.resolved
                  /\ gap = <<"contradiction", State.contradictions[k], {k}>>
      BY <2>4, <3>3
    <3>4. \/ Known(State) = {} /\ gap = <<"missing", {}, {}>>
          \/ \E c \in Known(State) : \E kind \in ClaimGaps(State, c) : gap = <<kind, {c}, {}>>
          \/ \E k \in Contradictions :
                /\ State.contradictions[k] # {} /\ k \notin State.resolved
                /\ gap = <<"contradiction", State.contradictions[k], {k}>>
      BY <2>6, GapsOfState
    <3> QED BY <2>2, <3>1, <3>2, <3>3, <3>4, Zenon
  <2>7. ASSUME NEW gap \in Deficits(State) PROVE gap \in gaps /\ gap[1] # "independence"
    <3>1. CASE \E c \in stale \cap Claims : gap = <<"stale", {c}, {}>>
      <4>1. PICK c \in stale \cap Claims : gap = <<"stale", {c}, {}>>
        BY <3>1
      <4>2. c \in Known(State) /\ "stale" \in ClaimGaps(State, c)
        BY <2>1, <2>2, <2>5
      <4> QED BY <4>1, <4>2, GapsOfState
    <3>2. CASE \E c \in contested : gap = <<"contested", {c}, {}>>
      <4>1. PICK c \in contested : gap = <<"contested", {c}, {}>>
        BY <3>2
      <4>2. c \in Known(State) /\ "contested" \in ClaimGaps(State, c)
        BY <2>1, <2>2, <2>5
      <4> QED BY <4>1, <4>2, GapsOfState
    <3>3. CASE Known(State) = {} /\ gap = <<"missing", {}, {}>>
      BY <3>3, GapsOfState
    <3>4. CASE \E k \in Contradictions :
                  /\ State.contradictions[k] # {} /\ k \notin State.resolved
                  /\ gap = <<"contradiction", State.contradictions[k], {k}>>
      <4>1. gap[1] = "contradiction"
        BY <3>4
      <4> QED BY <3>4, <4>1, GapsOfState
    <3> QED BY <2>2, <2>4, <3>1, <3>2, <3>3, <3>4
  <2> QED BY <2>6, <2>7 DEF DeficitsMatchPlan
<1>4. ViewsInv => PlansSound
  BY <1>1, <1>2, <1>3 DEF PlansSound
<1> QED BY <1>4, ViewsInvariance, PTL

-----------------------------------------------------------------------------
(* Lineage. *)

\* The walk is the smallest closed set of targets.
LEMMA ReachedClosed ==
    ASSUME NEW es, NEW n, NEW edge \in es, edge[1] \in Reached(n, es) \cup {n}
    PROVE  edge[2] \in Reached(n, es)
BY DEF Reached

LEMMA ReachedSmallest ==
    ASSUME NEW es, NEW n, NEW ns, ns \subseteq {edge[2] : edge \in es},
           \A edge \in es : edge[1] \in ns \cup {n} => edge[2] \in ns
    PROVE  Reached(n, es) \subseteq ns
BY DEF Reached

\* What is reached along the edges reaches back against them: if n were not reached
\* from m, the targets not reached from m would hold all that is reached from n.
LEMMA ReachedReversed ==
    ASSUME NEW S, NEW es \in SUBSET (S \X S), NEW inv \in SUBSET (S \X S),
           \A a, b \in S : <<a, b>> \in es <=> <<b, a>> \in inv,
           NEW n, NEW m \in Reached(n, es)
    PROVE  n \in Reached(m, inv)
<1> DEFINE back == Reached(m, inv)
           ns == {edge[2] : edge \in es} \ (back \cup {m})
<1> SUFFICES ASSUME n \notin back PROVE FALSE
  OBVIOUS
<1>1. \A edge \in es : edge[1] \in ns \cup {n} => edge[2] \in ns
  <2> SUFFICES ASSUME NEW edge \in es, edge[1] \in ns \cup {n}, edge[2] \in back \cup {m}
               PROVE  FALSE
    OBVIOUS
  <2>1. PICK a \in S, b \in S : edge = <<a, b>>
    OBVIOUS
  <2>2. <<b, a>> \in inv
    BY <2>1
  <2>3. <<b, a>>[1] \in back \cup {m}
    BY <2>1
  <2>4. <<b, a>>[2] \in back
    BY <2>2, <2>3, ReachedClosed
  <2> QED BY <2>1, <2>4
<1>2. ns \subseteq {edge[2] : edge \in es}
  OBVIOUS
<1> HIDE DEF ns
<1>3. m \in ns
  BY <1>1, <1>2, ReachedSmallest
<1> QED BY <1>3 DEF ns

\* The index of today up to the present sequence is the index.
LEMMA EdgesUpToNow == ASSUME ViewsInv PROVE EdgesUpTo(sequence) = edges /\ edges \subseteq Nodes \X Nodes
<1>1. StampInv /\ sequence \in Nat /\ edges \subseteq Nodes \X Nodes
  BY DEF ViewsInv, Inv, TypeOK
<1>2. {t \in stamps : t[2] <= sequence} = stamps
  BY <1>1 DEF StampInv
<1>3. {stamp[1] : stamp \in stamps} = edges
  BY <1>1 DEF StampInv
<1> QED BY <1>1, <1>2, <1>3 DEF EdgesUpTo

\* Traces of earlier states are what they were; a claim's groups are those of its
\* provenance; impact and ancestry are one relation (LineageTracer.trace).
THEOREM LineageHolds == SpecViews => []LineageSound
<1>1. ASSUME ViewsInv PROVE LineageReversible
  <2> DEFINE inv == {<<edge[2], edge[1]>> : edge \in edges}
  <2> SUFFICES ASSUME NEW n \in Nodes, NEW m \in Nodes
               PROVE  m \in Trace(State, n).dependents <=> n \in Trace(State, m).ancestors
    BY DEF LineageReversible
  <2>1. edges \in SUBSET (Nodes \X Nodes) /\ EdgesUpTo(State.sequence) = edges
    BY <1>1, EdgesUpToNow DEF State
  <2>2. /\ Trace(State, n).dependents = Reached(n, edges)
        /\ Trace(State, m).ancestors = Reached(m, inv)
    BY <2>1 DEF Trace, DependentsUpTo, AncestorsUpTo
  <2>3. inv \in SUBSET (Nodes \X Nodes) /\ \A a, b \in Nodes : <<a, b>> \in edges <=> <<b, a>> \in inv
    <3>1. inv \in SUBSET (Nodes \X Nodes)
      BY <2>1
    <3>2. ASSUME NEW a \in Nodes, NEW b \in Nodes, <<b, a>> \in inv PROVE <<a, b>> \in edges
      <4>1. PICK edge \in edges : <<b, a>> = <<edge[2], edge[1]>>
        BY <3>2
      <4>2. edge = <<edge[1], edge[2]>>
        BY <2>1
      <4> QED BY <4>1, <4>2
    <3>3. ASSUME NEW a \in Nodes, NEW b \in Nodes, <<a, b>> \in edges PROVE <<b, a>> \in inv
      <4>1. <<a, b>>[1] = a /\ <<a, b>>[2] = b
        OBVIOUS
      <4> QED BY <3>3, <4>1
    <3> QED BY <3>1, <3>2, <3>3
  <2> HIDE DEF inv
  <2>4. m \in Reached(n, edges) => n \in Reached(m, inv)
    BY <2>1, <2>3, ReachedReversed
  <2>5. n \in Reached(m, inv) => m \in Reached(n, edges)
    BY <2>1, <2>3, ReachedReversed
  <2> QED BY <2>2, <2>4, <2>5
<1>2. ASSUME ViewsInv PROVE GroupsAgree
  <2> SUFFICES ASSUME NEW c \in KnownClaims \ stale, \A b \in Claims : <<b, c>> \notin edges
               PROVE  {<<r[2], r[1]>> : r \in claims[c]} = Trace(State, c).groups
    BY DEF GroupsAgree
  <2> DEFINE inv == {<<edge[2], edge[1]>> : edge \in edges}
             sources == {r[1] : r \in claims[c]}
             there == {f \in (Reached(c, inv) \cup {c}) \cap Evidence : evidence[f] # Absent}
  <2>1. edges \subseteq (Nodes \X Nodes) /\ EdgesUpTo(State.sequence) = edges /\ State.evidence = evidence
    BY <1>2, EdgesUpToNow DEF State
  <2>2. Trace(State, c).groups = {<<evidence[e], e>> : e \in there}
    BY <2>1 DEF Trace, AncestorsUpTo
  <2>3. /\ c \in Claims /\ c \in Nodes /\ c \notin Evidence
        /\ \A r \in claims[c] : r = <<r[1], r[2]>> /\ r[1] \in Evidence /\ r[2] \in Groups /\ evidence[r[1]] = r[2]
        /\ \A r \in claims[c] : <<r[1], c>> \in edges
        /\ IndexExact
    <3>1. TypeOK /\ ProvenanceResolves /\ IndexComplete /\ IndexExact
      BY <1>2 DEF ViewsInv, Inv
    <3>2. c \in Claims /\ c \in Nodes /\ c \notin Evidence
      BY AggregateAssumption DEF KnownClaims, Nodes
    <3>3. claims[c] \in References
      BY <3>1, <3>2 DEF TypeOK
    <3>4. \A r \in claims[c] : r = <<r[1], r[2]>> /\ r[1] \in Evidence /\ r[2] \in Groups
      BY <3>3 DEF References
    <3>5. \A r \in claims[c] : evidence[r[1]] = r[2]
      BY <3>1 DEF ProvenanceResolves, Resolves
    <3>6. \A r \in claims[c] : <<r[1], c>> \in edges
      BY <3>1, <3>2 DEF IndexComplete
    <3> QED BY <3>1, <3>2, <3>4, <3>5, <3>6
  <2>4. ASSUME NEW e \in sources PROVE e \in Reached(c, inv) /\ e \in Evidence
    <3>1. <<e, c>> \in edges /\ e \in Evidence
      BY <2>3
    <3>2. <<c, e>> \in inv
      <4>1. <<e, c>>[1] = e /\ <<e, c>>[2] = c
        OBVIOUS
      <4> QED BY <3>1, <4>1
    <3>3. <<c, e>>[1] = c /\ <<c, e>>[2] = e
      OBVIOUS
    <3> HIDE DEF inv
    <3>4. <<c, e>>[2] \in Reached(c, inv)
      BY <3>2, <3>3, ReachedClosed
    <3> QED BY <3>1, <3>3, <3>4
  <2>5. Reached(c, inv) \subseteq sources
    <3>1. sources \subseteq {edge[2] : edge \in inv}
      BY <2>4 DEF Reached
    <3>2. ASSUME NEW edge \in inv, edge[1] \in sources \cup {c} PROVE edge[2] \in sources
      <4>1. PICK old \in edges : edge = <<old[2], old[1]>>
        OBVIOUS
      <4>2. PICK a \in Nodes, b \in Nodes : old = <<a, b>>
        BY <2>1
      <4>3. edge[1] = b /\ edge[2] = a /\ <<a, b>> \in edges
        BY <4>1, <4>2
      <4>4. b \notin Evidence /\ (b \in Claims => a \in Claims \/ \E ref \in claims[b] : ref[1] = a)
        BY <2>3, <4>3 DEF IndexExact
      <4>5. b = c
        BY <2>4, <3>2, <4>3, <4>4
      <4>6. a \notin Claims
        BY <4>3, <4>5
      <4> QED BY <2>3, <4>3, <4>4, <4>5, <4>6
    <3> HIDE DEF inv, sources
    <3> QED BY <3>1, <3>2, ReachedSmallest
  <2>6. there = sources
    <3>1. ASSUME NEW f \in there PROVE f \in sources
      BY <2>3, <2>5
    <3>2. ASSUME NEW f \in sources PROVE f \in there
      <4>1. f \in Reached(c, inv) /\ f \in Evidence
        BY <2>4
      <4>2. evidence[f] # Absent
        BY <2>3, AggregateAssumption
      <4> QED BY <4>1, <4>2
    <3> QED BY <3>1, <3>2
  <2>7. {<<evidence[e], e>> : e \in sources} = {<<r[2], r[1]>> : r \in claims[c]}
    BY <2>3
  <2> QED BY <2>2, <2>6, <2>7
<1>3. ViewsInv => LineageSound
  BY <1>1, <1>2 DEF LineageSound, ViewsInv, StampInv
<1> QED BY <1>3, ViewsInvariance, PTL

=============================================================================

SPECIFICATION SpecViews
CONSTANTS
    Evidence = {e1, e2}
    Claims = {c1, c2}
    Links = {l1}
    Contradictions = {k1, k2}
    Corrections = {r1, r2}
    Projections = {p1}
    Groups = {g1, g2}
    Absent = Absent
    PastViews = FALSE
    MinimumGroups = 2
    MaxEvents = 6
    MaxTime = 1
INVARIANTS ProvenanceResolves ProjectionsCurrent CorrectionsEnd LineageSound PlansSound
PROPERTIES DeletionQueuesAffected
SYMMETRY Symmetry
CHECK_DEADLOCK FALSE

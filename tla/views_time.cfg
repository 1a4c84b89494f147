SPECIFICATION SpecViews
CONSTANTS
    Evidence = {e1}
    Claims = {c1}
    Links = {l1}
    Contradictions = {}
    Corrections = {}
    Projections = {p1}
    Groups = {g1}
    Absent = Absent
    PastViews = FALSE
    MinimumGroups = 2
    MaxEvents = 3
    MaxTime = 3
INVARIANTS ViewsStable
CHECK_DEADLOCK FALSE

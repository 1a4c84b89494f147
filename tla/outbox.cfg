SPECIFICATION FairSpec
CONSTANTS
    d1 = d1
    d2 = d2
    d3 = d3
    r1 = r1
    r2 = r2
    Drains = {d1, d2, d3}
    Owners = {r1, r2}
    OwnerOf <- MCOwnerOf
    NoOwner = NoOwner
    Limit = 2
    MaxEvents = 3
    MaxFaults = 2
INVARIANTS NoEventLost OnlyReclaimTakesALease NoSharedLease
PROPERTIES EveryEventIsPublished
CHECK_DEADLOCK FALSE

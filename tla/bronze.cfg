SPECIFICATION FairSpec
CONSTANTS
    p1 = p1
    p2 = p2
    k1 = k1
    k2 = k2
    response = response
    yes = yes
    no = no
    Procs = {p1, p2}
    Requests <- MCRequests
    NoObject = NoObject
    Other = Other
    MaxOthers = 1
    MaxCrashes = 2
    MaxErasures = 1
  
PROPERTIES EventuallyCaptured

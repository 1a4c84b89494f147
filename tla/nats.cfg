SPECIFICATION FairSpec
CONSTANTS
    c1 = c1
    c2 = c2
    Consumers = {c1, c2}
    Events = {1, 2, 3}
    Broken = {2}
    Invalid = {3}
    MaxDeliver = 2
    PlaneFilter = TRUE
    MaxFaults = 1
    MaxMessages = 7
INVARIANTS DeliveryInv SettledHasOutcome
PROPERTIES EventuallySettled
CHECK_DEADLOCK FALSE

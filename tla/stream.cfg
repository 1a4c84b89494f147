SPECIFICATION FairSpec
CONSTANTS
    QueueCapacity = 1
    ReplayPageSize = 1
    MaxInFlight = 2
    MaxEvents = 3
    WireCapacity = 1
    MaxAcks = 1
    MaxDrops = 1
INVARIANTS SessionInv CursorNeverSkips FreshAckAccepted
PROPERTIES InOrderNoGap SeenUpToPublished
CHECK_DEADLOCK FALSE

SPECIFICATION FairSpec
CONSTANTS
    t1 = t1
    t2 = t2
    batch = batch
    a = a
    z = z
    Tasks = {t1, t2}
    Sources = {a, z}
    Other = Other
    NoSource = NoSource
    Batches <- MCBatches
    MaxAhead = 1
    MaxOthers = 1
    MaxCrashes = 1
INVARIANTS  CommittedPrefix
PROPERTIES LedgerPromise BatchCompletes

SPECIFICATION FairSpec
CONSTANTS
    Vehicles = {v1, v2}
    Times = {1, 2}
    Workers = {w1, w2}
    BatchSize = 2
    MaxQueue = 3
    ThinAbove = 3
    KeepEvery = 3
    KeepFirst = 2
    MaxUpdates = 4
    MaxCrashes = 1
INVARIANTS
    TypeOK
    OneBatch
    ArrivalOrder
    StoredOnce
PROPERTIES
    FailureSparesFirst
    ThinningSparesNewest
    StoreSpec
    QueueServed

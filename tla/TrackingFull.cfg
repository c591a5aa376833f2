SPECIFICATION Spec
CONSTANTS
    Vehicles = {v1}
    Times = {1}
    Workers = {w1, w2}
    BatchSize = 2
    MaxQueue = 3
    ThinAbove = 3
    KeepEvery = 3
    KeepFirst = 2
    MaxUpdates = 5
    MaxCrashes = 1
INVARIANT FullQueueForced

CONSTANTS
    c1 = c1
    c2 = c2
    Callers <- OneCaller
    Kinds = {"local", "paired"}
    Ops = {"create", "destroyStale", "remove", "release", "init"}
    Faults = {}
    MaxTasks = 3
    MaxPairId = 1
    ChunkSize = 1
    MaxChunks = 2
    TaskHandles = {1, 2, 3}
    QueueHandles = {11, 12, 13, 14}
SPECIFICATION Spec
INVARIANTS
    FreeListPartition
    CountMatchesActive

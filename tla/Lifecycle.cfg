CONSTANTS
    c1 = c1
    c2 = c2
    Callers <- OneCaller
    Kinds = {"local", "paired", "remote"}
    Ops = {"create", "destroyIndex", "destroyStale"}
    Faults = {"queue1", "queue2", "find", "spawn"}
    MaxTasks = 3
    MaxPairId = 3
    ChunkSize = 2
    MaxChunks = 2
    TaskHandles = {1, 2, 3}
    QueueHandles = {11, 12, 13, 14}
SPECIFICATION Spec
INVARIANTS
    TypeOK
    TasksHaveOneHolder
    QueuesHaveOneHolder
    EntriesHaveOneHolder

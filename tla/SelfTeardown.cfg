CONSTANTS
    c1 = c1
    c2 = c2
    Callers <- OneCaller
    Kinds = {"local", "paired", "remote"}
    Ops = {"create", "destroySelf"}
    Faults = {}
    MaxTasks = 3
    MaxPairId = 1
    ChunkSize = 1
    MaxChunks = 1
    TaskHandles = {1, 2, 3}
    QueueHandles = {11, 12}
SPECIFICATION FairSpec
INVARIANTS
    TasksHaveOneHolder
    NoTaskOutlivesItsQueues
    SlotHasOneWorker
    TakesUndisturbed
PROPERTY
    CleanedSlotIsReleased
    KeepsTable

CONSTANTS
    c1 = c1
    c2 = c2
    Callers <- TwoCallers
    Kinds = {"local", "paired"}
    Ops = {"create", "destroyOwn"}
    Faults = {}
    MaxTasks = 2
    MaxPairId = 1
    ChunkSize = 2
    MaxChunks = 1
    TaskHandles = {1, 2, 3}
    QueueHandles = {11, 12, 13, 14}
SYMMETRY CallerSymmetry
SPECIFICATION Spec
INVARIANTS
    TasksHaveOneHolder
    QueuesHaveOneHolder
    EntriesHaveOneHolder
    NoTaskOutlivesItsQueues
    SlotHasOneWorker
    LinkageAgrees
PROPERTY
    KeepsTable

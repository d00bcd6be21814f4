CONSTANTS
    c1 = c1
    c2 = c2
    Callers <- TwoCallers
    Kinds = {"local"}
    Ops = {"create", "destroyOwn", "destroySelf"}
    Faults = {}
    MaxTasks = 2
    MaxPairId = 3
    ChunkSize = 2
    MaxChunks = 1
    TaskHandles = {1, 2}
    QueueHandles = {11, 12, 13, 14}
SYMMETRY CallerSymmetry
SPECIFICATION Spec
INVARIANTS
    BuilderKeepsSlot

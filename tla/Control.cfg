CONSTANTS
    app = app
    controller = controller
    Callers <- Applications
    Control <- controller
    CycleModes = {"perTask", "batch"}
    Policies = {"custom"}
    Opinions = {"LOCAL", "reject", "invalid"}
    UintSize = 16
    Demands <- OneDemand
    Latencies = {9}
    Kinds = {"remote"}
    Ops = {"create", "destroyOwn"}
    Faults = {}
    MaxTasks = 2
    MaxPairId = 1
    ChunkSize = 2
    MaxChunks = 1
    TaskHandles = {1, 2}
    QueueHandles = {11, 12, 13, 14}
SPECIFICATION ControlSpec
INVARIANTS
    ControlTypeOK
    NoRouteWithoutPair
    NewRecordIsUnrouted
    ReportedRouteHolds
PROPERTY RejectedBatchChangesNothing

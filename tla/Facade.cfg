CONSTANTS
    app = app
    Callers <- Applications
    Control <- app
    CycleModes = {"perTask", "batch"}
    Policies = {"default", "noPlan"}
    Opinions = {"reject"}
    UintSize = 16
    Demands <- SomeDemands
    Latencies = {9}
    Kinds = {"paired", "remote"}
    Ops = {"create", "destroySelf"}
    Faults = {}
    Configs <- SomeConfigs
    MaxEvents = 2
    MaxTasks = 2
    MaxPairId = 1
    ChunkSize = 1
    MaxChunks = 1
    TaskHandles = {1, 2}
    QueueHandles = {11, 12}
SPECIFICATION FacadeSpec
INVARIANTS
    FacadeTypeOK
    ControllerFollowsRuntime
    DiagnosticsCountRoutes
    CandidatesAreMonitored
    RoutesAgree
PROPERTY MalformedIsNeverRouted

CONSTANTS
    NoSpec = NoSpec
    NameLimit = 16
    TaskNames <- TestNames
    Bodies = {"advanced", "metered"}
    Stacks = {0, 2048}
    Periods = {0, 1000}
    Depths = {0, 1, 2}
    Examples = {"happy", "hello", "sensor", "runtimeApi"}
    Window = 2
    WordSize = 32
    Faults = {"slot", "cs", "sc", "spawn", "record"}
SPECIFICATION ExchangeSpec
INVARIANTS
    ExchangeTypeOK
    SendsFit
    AnswersMatch
    RecordOutlivesBodies
    ReportsUnderOwnIndex
    NothingIsLeft
    AcceptedSpecIsComplete
    ClientsAreCandidates
PROPERTIES
    CallsReturn
    KeepsPromise
CHECK_DEADLOCK FALSE

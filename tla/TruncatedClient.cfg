CONSTANTS
    NoSpec = NoSpec
    NameLimit = 16
    TaskNames = {}
    Bodies = {}
    Stacks = {}
    Periods = {}
    Depths = {}
    Examples = {"advanced"}
    Window = 2
    WordSize = 32
    Faults = {}
SPECIFICATION ExchangeSpec
INVARIANT ClientsAreCandidates
CHECK_DEADLOCK FALSE

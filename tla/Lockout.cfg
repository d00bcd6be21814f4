CONSTANTS
    NoSpec = NoSpec
    NameLimit = 16
    TaskNames <- FittingName
    Bodies = {"metered"}
    Stacks = {2048}
    Periods = {1000}
    Depths = {1}
    Examples = {}
    Window = 2
    WordSize = 32
    Faults = {}
SPECIFICATION ExchangeSpec
INVARIANT MutexIsNeverOrphaned
CHECK_DEADLOCK FALSE

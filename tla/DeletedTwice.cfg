CONSTANTS
    NoSpec = NoSpec
    NameLimit = 16
    TaskNames = {}
    Bodies = {}
    Stacks = {}
    Periods = {}
    Depths = {}
    Examples = {"happy"}
    Window = 2
    WordSize = 32
    Faults = {}
SPECIFICATION ExchangeSpec
INVARIANT DeletesExistingTasks
CHECK_DEADLOCK FALSE

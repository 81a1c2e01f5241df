SPECIFICATION Spec
CONSTANTS
    x = x
    y = y
    e1 = e1
    e2 = e2
    e3 = e3
    Idle = Idle
    None = None
    Fds = {x, y}
    Events = {e1, e2, e3}
    MaxBatch = 2
    MaxCalls = 9
INVARIANTS BatchIsCurrent KernelEntryAlive ListedIsOpen StopCleansUp
PROPERTIES StartStopReturn
CHECK_DEADLOCK FALSE

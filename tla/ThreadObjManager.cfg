SPECIFICATION SafetySpec
CONSTANTS
    c1 = c1
    c2 = c2
    o1 = o1
    o2 = o2
    o3 = o3
    w1 = w1
    w2 = w2
    w3 = w3
    None = None
    Objs = {o1, o2}
    Callers = {c1, c2}
    Managers = {c1}
    Workers = {w1, w2, w3}
    Owner <- TwoOwners
    WaitModes = {TRUE, FALSE}
    StopFirst = FALSE
SYMMETRY WorkerSymmetry
INVARIANTS AttachedWorkerIsHeld StopRequestStands
CHECK_DEADLOCK FALSE

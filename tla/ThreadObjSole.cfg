SPECIFICATION Spec
CONSTANTS
    c1 = c1
    c2 = c2
    o1 = o1
    o2 = o2
    o3 = o3
    w1 = w1
    w2 = w2
    w3 = w3
    None = None
    Objs = {o1, o2, o3}
    Callers = {c1}
    Managers = {c1}
    Workers = {w1, w2, w3}
    Owner <- OneOwner
    WaitModes = {TRUE}
    StopFirst = TRUE
INVARIANTS NoFault RegistryExact
PROPERTIES StopAllStopsAll StopReturns

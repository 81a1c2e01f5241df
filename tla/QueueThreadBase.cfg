SPECIFICATION MQSafetySpec
CONSTANTS
    c1 = c1
    c2 = c2
    o1 = o1
    w1 = w1
    w2 = w2
    None = None
    Objs = {o1}
    Callers = {c1, c2}
    Managers = {c2}
    Workers = {w1, w2}
    Owner <- OneOwner
    WaitModes = {TRUE, FALSE}
    StopFirst = FALSE
    QSize = 2
    SendKinds = {"msg", "stop"}
SYMMETRY WorkerSymmetry
PROPERTIES UsesThreadObj
CHECK_DEADLOCK FALSE

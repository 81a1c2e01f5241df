SPECIFICATION MQSpec
CONSTANTS
    c1 = c1
    c2 = c2
    o1 = o1
    w1 = w1
    w2 = w2
    None = None
    Objs = {o1}
    Callers = {c1}
    Managers = {c1}
    Workers = {w1}
    Owner <- OneOwner
    WaitModes = {TRUE}
    StopFirst = TRUE
    QSize = 1
    SendKinds = {"msg"}
PROPERTIES StopAllReturns
CHECK_DEADLOCK FALSE

SPECIFICATION MQSpec
CONSTANTS
    c1 = c1
    c2 = c2
    o1 = o1
    w1 = w1
    w2 = w2
    None = None
    Objs = {o1}
    Callers = {c1, c2}
    Managers = {}
    Workers = {w1, w2}
    Owner <- OneOwner
    WaitModes = {TRUE}
    StopFirst = FALSE
    QSize = 3
    SendKinds = {"msg"}
INVARIANTS StuckOnlyIfRefused StopOnlyIfAsked FailsOnlyWithBacklog
PROPERTIES StopReturnsUnlessRefused BackPressureEnds
CHECK_DEADLOCK FALSE

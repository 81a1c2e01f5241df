SPECIFICATION Spec
CONSTANTS
    t1 = t1
    t2 = t2
    a = a
    b = b
    q = q
    d = d
    w = w
    f = f
    g = g
    None = None
    Threads = {t1, t2}
    ObsQ = {q}
    ObsF = {a, b}
    Fds = {d, w}
    Blocking = {w}
    Funs = {f, g}
    Uses <- TwoWays
    MsgIds = {1}
    QSize = 1
    MaxCalls = 4
INVARIANTS PendingIsListed StuckOnlyInCycle
PROPERTIES ObserversReturn
CHECK_DEADLOCK FALSE

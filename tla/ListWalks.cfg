SPECIFICATION Spec
CONSTANTS
    t1 = t1
    t2 = t2
    t3 = t3
    n1 = n1
    n2 = n2
    n3 = n3
    v1 = v1
    v2 = v2
    Head = Head
    None = None
    Threads = {t1, t2}
    Nodes = {n1, n2, n3}
    Values = {v1, v2}
    MaxCalls = 5
INVARIANTS NodesAreAlive WalkMissesNothing
PROPERTIES CallsReturn WalkIsSettled
CHECK_DEADLOCK FALSE

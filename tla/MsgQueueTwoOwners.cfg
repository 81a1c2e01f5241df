SPECIFICATION Spec
CONSTANTS
    t1 = t1
    t2 = t2
    q1 = q1
    q2 = q2
    b1 = b1
    b2 = b2
    f1 = f1
    f2 = f2
    None = None
    Queues = {q1, q2}
    Threads = {t1, t2}
    Owner <- TwoOwners
    Fds = {f1, f2}
    Bufs = {b1, b2}
    QSize = 1
    MaxSends = 2
SYMMETRY Symmetry
INVARIANTS DescriptorIsOwn RegistryNeverWrong NoBufferLost CountsNotAhead BufferHasOneOwner
CHECK_DEADLOCK FALSE

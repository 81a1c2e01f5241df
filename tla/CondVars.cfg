SPECIFICATION Spec
CONSTANTS
    w1 = w1
    w2 = w2
    w3 = w3
    w4 = w4
    p1 = p1
    p2 = p2
    r1 = r1
    r2 = r2
    None = None
    Waiters = {w1, w2, w3, w4}
    Timed = {w1, w2}
    Now <- HalfNow
    Timeouts = {0, 500, 1999}
    Posters = {p1, p2}
    Num = 1
    Batches <- BatchSizes
    IntMax = 3
    PostLimit = 5
    Pollers = {r1, r2}
    MaxQueued = 3
INVARIANTS CountNotNegative StrandedOnlyIfMissed OneWinner NoLostEvent ReadersCounted BroadcastReachesAll NobodyStranded
PROPERTIES TimedWaitReturns
CHECK_DEADLOCK FALSE

CONSTANTS
    t1 = t1
    t2 = t2
    k1 = k1
    k2 = k2
    h1 = h1
    c1 = c1
    Threads = {t1, t2}
    Clients = {c1}
    Tasks = {k1, k2}
    Handles = {h1}
    maxevents = 1
    WakeupHandle = WakeupHandle
SPECIFICATION FairSpec
INVARIANTS CountersExact NoStrandedTask AbortReachesWaiters
PROPERTIES EveryTaskRuns AbortStopsEveryThread ImplementsExecutor
CHECK_DEADLOCK FALSE

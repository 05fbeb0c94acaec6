CONSTANTS
    t1 = t1
    t2 = t2
    t3 = t3
    t4 = t4
    Threads = {t1, t2, t3}
SPECIFICATION FairSpec
INVARIANTS TypeOK MutualExclusion QueueExclusion HintExact WaitersAccounted
PROPERTIES ImplementsWaitLock WaitersServed
CHECK_DEADLOCK FALSE

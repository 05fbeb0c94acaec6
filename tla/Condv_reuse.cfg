CONSTANTS
    t1 = t1
    t2 = t2
    c1 = c1
    c2 = c2
    c3 = c3
    NULL = NULL
    Threads = {t1, t2}
    Coros = {c1, c2, c3}
    Slots = {1, 2}
    SlotsReused = TRUE
    Nodes <- MCNodes
SPECIFICATION Spec
INVARIANTS VisitedNodeDangling
CHECK_DEADLOCK FALSE

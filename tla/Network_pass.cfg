CONSTANTS
    s1 = s1
    s2 = s2
    s3 = s3
    a1 = a1
    a2 = a2
    NULL = NULL
    Servers = {s1, s2, s3}
    Nodes = {s1, s2, s3}
    Acceptors = {a1, a2}
    acceptor <- MCAcceptor
    Clients = {c1, c2}
    Sleepers = {c1, c2}
    Elapses = {0, 1}
    MaxErrors = 1
    max_pendding_connection = 2
SPECIFICATION Spec
INVARIANTS NotAllLost AwaitersQueued
PROPERTIES ConnectionAccepted ClientGoesOn
CHECK_DEADLOCK FALSE

CONSTANTS
    r1 = r1
    r2 = r2
    r3 = r3
    w1 = w1
    w2 = w2
    Nobody = Nobody
    Requests = {r1, r2, r3}
    Workers = {w1, w2}
    callers = 2
SPECIFICATION DnsSpec
INVARIANT NoRequestForgotten
CHECK_DEADLOCK FALSE

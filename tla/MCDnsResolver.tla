--------------------------- MODULE MCDnsResolver ---------------------------
EXTENDS DnsResolver
CONSTANTS r1, r2, r3, w1, w2
=============================================================================

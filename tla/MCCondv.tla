------------------------------ MODULE MCCondv ------------------------------
EXTENDS Condv
CONSTANTS t1, t2, c1, c2, c3
\* c1 waits twice, c2 once, and c3 only uses the mutex and notifies.
MCNodes == {<<c1, 1>>, <<c1, 2>>, <<c2, 1>>}
=============================================================================

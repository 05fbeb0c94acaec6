------------------------------ MODULE MCNetwork ------------------------------
EXTENDS Network, TLC
CONSTANTS s1, s2, s3, a1, a2
\* Two coroutines share the first acceptor.
MCAcceptor == s1 :> a1 @@ s2 :> a1 @@ s3 :> a2
=============================================================================

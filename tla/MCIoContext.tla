---------------------------- MODULE MCIoContext ----------------------------
(* A small instance of IoContext for TLC. *)
EXTENDS IoContext
CONSTANTS t1, t2, k1, k2, h1, c1
=============================================================================

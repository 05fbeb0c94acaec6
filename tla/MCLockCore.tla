----------------------------- MODULE MCLockCore -----------------------------
(* Small instances of LockCore for TLC. *)
EXTENDS LockCore

CONSTANTS t1, t2, t3, t4
=============================================================================

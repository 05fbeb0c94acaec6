---------------------------- MODULE MCConnection ----------------------------
(* One reader, one sender and a coroutine that does neither. *)
EXTENDS Connection
CONSTANTS reader, sender, other
=============================================================================

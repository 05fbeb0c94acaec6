------------------------------ MODULE Monitor ------------------------------
(***************************************************************************)
(* What a Mutex and a Condv promise together: one coroutine owns the       *)
(* monitor; a waiter enlists before it leaves, is notified in the order it *)
(* enlisted, and goes on only after it was notified and entered again.     *)
(***************************************************************************)
EXTENDS Sequences, Functions

CONSTANTS Coros, Nobody

VARIABLES owner,
          waiting, \* the enlisted coroutines nobody has notified
          notified \* the notified coroutines that have not entered again

vars == <<owner, waiting, notified>>

Init == owner = Nobody /\ waiting = << >> /\ notified = {}

Enter(c) ==
    /\ owner = Nobody
    /\ c \notin Range(waiting) \cup notified
    /\ owner' = c
    /\ UNCHANGED <<waiting, notified>>

Reenter(c) ==
    /\ owner = Nobody
    /\ c \in notified
    /\ owner' = c
    /\ notified' = notified \ {c}
    /\ UNCHANGED waiting

Enlist(c) ==
    /\ owner = c
    /\ c \notin Range(waiting) \cup notified
    /\ waiting' = Append(waiting, c)
    /\ UNCHANGED <<owner, notified>>

Exit ==
    /\ owner # Nobody
    /\ owner' = Nobody
    /\ UNCHANGED <<waiting, notified>>

NotifyOne ==
    /\ waiting # << >>
    /\ waiting' = Tail(waiting)
    /\ notified' = notified \cup {Head(waiting)}
    /\ UNCHANGED owner

NotifyAll ==
    /\ waiting # << >>
    /\ waiting' = << >>
    /\ notified' = notified \cup Range(waiting)
    /\ UNCHANGED owner

Next ==
    \/ \E c \in Coros : Enter(c) \/ Reenter(c) \/ Enlist(c)
    \/ Exit \/ NotifyOne \/ NotifyAll

Spec == Init /\ [][Next]_vars
=============================================================================

------------------------------ MODULE WaitLock ------------------------------
(***************************************************************************)
(* What LockCore implements: a lock with a first-in-first-out list of      *)
(* waiters, whose release hands the lock to the first waiter, or frees it  *)
(* and lets the first waiter try again.  A caller that finds the lock      *)
(* taken joins the list in a later step, and by then the lock may be free. *)
(***************************************************************************)
EXTENDS Sequences

CONSTANT Waiters

VARIABLES locked,
          arriving, \* the waiters that found the lock taken and have not joined yet
          queue     \* the waiters in the order they joined

vars == <<locked, arriving, queue>>

Init == locked = FALSE /\ arriving = {} /\ queue = << >>

Lock ==
    /\ ~locked
    /\ locked' = TRUE
    /\ UNCHANGED <<arriving, queue>>

Arrive(w) ==
    /\ locked
    /\ arriving' = arriving \cup {w}
    /\ UNCHANGED <<locked, queue>>

Join(w) ==
    /\ w \in arriving
    /\ arriving' = arriving \ {w}
    /\ queue' = Append(queue, w)
    /\ UNCHANGED locked

Free ==
    /\ locked
    /\ queue = << >>
    /\ locked' = FALSE
    /\ UNCHANGED <<arriving, queue>>

\* The first waiter leaves the list and, if the lock is kept, owns it.
Release(kept) ==
    /\ locked
    /\ queue # << >>
    /\ locked' = kept
    /\ queue' = Tail(queue)
    /\ UNCHANGED arriving

Next ==
    \/ Lock
    \/ \E w \in Waiters : Arrive(w) \/ Join(w)
    \/ Free
    \/ \E kept \in BOOLEAN : Release(kept)

Spec == Init /\ [][Next]_vars
=============================================================================

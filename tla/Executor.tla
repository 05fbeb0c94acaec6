------------------------------ MODULE Executor ------------------------------
(***************************************************************************)
(* What an IoContext promises its users, without locks, epoll or wakeups:  *)
(* posted tasks wait in one first-in-first-out queue, idle threads take    *)
(* them, threads are also busy with events of their own, and an abort      *)
(* sends every thread home.                                                *)
(***************************************************************************)
EXTENDS Naturals, Sequences, Functions

CONSTANTS Threads, Tasks

VARIABLES posted,   \* the tasks nobody has taken yet
          aborted,
          status    \* of each thread: idle, busy in user code, or gone for ever

vars == <<posted, aborted, status>>

Init ==
    /\ posted = << >>
    /\ aborted = FALSE
    /\ status = [t \in Threads |-> "idle"]

Becomes(t, old, new) == status[t] = old /\ status' = [status EXCEPT ![t] = new]

Post(task) ==
    /\ task \notin Range(posted)
    /\ posted' = Append(posted, task)
    /\ UNCHANGED <<aborted, status>>

Abort ==
    /\ aborted' = TRUE
    /\ UNCHANGED <<posted, status>>

Take(t) ==
    /\ ~aborted
    /\ posted # << >>
    /\ posted' = Tail(posted)
    /\ Becomes(t, "idle", "busy")
    /\ UNCHANGED aborted

HandleEvent(t) == Becomes(t, "idle", "busy") /\ UNCHANGED <<posted, aborted>>

Return(t) == Becomes(t, "busy", "idle") /\ UNCHANGED <<posted, aborted>>

\* A thread that leaves on an abort may take one task down with it.
Quit(t) ==
    /\ aborted
    /\ Becomes(t, "idle", "gone")
    /\ posted' = IF posted = << >> THEN << >> ELSE Tail(posted)
    /\ UNCHANGED aborted

Die(t) == Becomes(t, "idle", "gone") /\ UNCHANGED <<posted, aborted>>

Next ==
    \/ \E task \in Tasks : Post(task)
    \/ Abort
    \/ \E t \in Threads :
          Take(t) \/ HandleEvent(t) \/ Return(t) \/ Quit(t) \/ Die(t)

\* Some idle thread takes the queue's head; user code returns; nobody stays
\* after an abort.
Fairness ==
    /\ WF_vars(\E t \in Threads : Take(t))
    /\ \A t \in Threads : WF_vars(Return(t)) /\ WF_vars(aborted /\ (Quit(t) \/ Die(t)))

Spec == Init /\ [][Next]_vars
FairSpec == Spec /\ Fairness
=============================================================================

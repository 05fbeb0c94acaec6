------------------------------- MODULE Event -------------------------------
(***************************************************************************)
(* Event of mutex.h, on one thread with the tasks of module Tasks: the     *)
(* coroutines that wait, linked through nodes in their frames, and the     *)
(* posted tasks whose callback on_notify resumes a list of them.           *)
(*                                                                         *)
(* on_notify reads the link of a node after it has resumed the coroutine.  *)
(* The link need not be the one it was: the node may be in the event's     *)
(* list again, or destroyed.  The first makes on_notify skip who comes     *)
(* behind it.  `skipped` says whom, and `misled` that it has read a link   *)
(* of another list, or of a destroyed frame: neither is state of the code. *)
(* The model ends there, and where an exception reaches run().             *)
(***************************************************************************)
EXTENDS Tasks, Queue

CONSTANTS past,      \* the node of an earlier wait, in the frame of one that waits again
          MaxPosts   \* bounds the posted tasks that have not run

ASSUME FramesAssumption == Nodes = Frames \cup {past} /\ past \notin Frames /\ noop = NULL

VARIABLES m_awaiter_que, m_next, \* the list of the event, the links of the nodes
          posted,                \* m_awaiters of the posted tasks, in the loop's queue
          walk,                  \* the node at which on_notify is, or NULL
          resumed,               \* and it has resumed that node's coroutine
          skipped,               \* waiters behind one that waited again
          misled,
          terminated             \* run() has called std::terminate

listVars == <<m_awaiter_que, m_next, posted>>
walkVars == <<walk, resumed, skipped, misled>>
vars == <<taskVars, listVars, walkVars, terminated>>

Init == /\ TasksInit
        /\ m_awaiter_que = EmptyList
        /\ m_next = [n \in Nodes |-> NULL]
        /\ posted = << >>
        /\ walk = NULL /\ resumed = FALSE
        /\ skipped = {} /\ misled = FALSE
        /\ terminated = FALSE

\* An exception that leaves the last resume() gets to run(), which calls std::terminate,
\* or to user code, which catches it or lets it go there.
Unwinds == terminated' \in {thrown', thrown' /\ calls[1].how = "callback"}

\* EventAwaiter::await_suspend
Enlist(links, a) ==
    /\ m_awaiter_que' = PushList(m_awaiter_que, a)
    /\ m_next' = PushLinks(m_awaiter_que, links, a)
    /\ UNCHANGED posted

\* A coroutine that on_notify has just resumed waits in the same place of its frame, as a
\* loop does, or in another.
Wait ==
    LET a == Actor IN
    /\ a \in Frames /\ Is(a, "task")
    /\ Return([frames EXCEPT ![a].state = "event"]) /\ Unwinds
    /\ \/ a # walk /\ Enlist(m_next, a) /\ UNCHANGED <<walk, skipped>>
       \/ /\ a = walk /\ Enlist(m_next, a) /\ UNCHANGED walk
          /\ skipped' = skipped \cup Range(Chain(m_next, m_next[a]))
       \/ /\ a = walk /\ Enlist([m_next EXCEPT ![past] = m_next[a]], a) /\ walk' = past
          /\ UNCHANGED skipped
    /\ UNCHANGED <<resumed, misled>>

Notifies == /\ ~thrown /\ (Actor = Main => walk = NULL)
            /\ Len(posted) < MaxPosts
            /\ UNCHANGED <<taskVars, walkVars, terminated>>

notify_one ==
    /\ Notifies
    /\ m_awaiter_que.head # NULL
    /\ m_awaiter_que' = PopList(m_awaiter_que, m_next)
    /\ m_next' = [m_next EXCEPT ![m_awaiter_que.head] = NULL]
    /\ posted' = Append(posted, m_awaiter_que.head)

\* Faulty variant: the tail stays.
notify_all_keeping_tail ==
    /\ Notifies
    /\ m_awaiter_que' = [m_awaiter_que EXCEPT !.head = NULL]
    /\ posted' = Append(posted, m_awaiter_que.head)
    /\ UNCHANGED m_next

notify_all ==
    /\ Notifies
    /\ m_awaiter_que' = [m_awaiter_que EXCEPT !.head = NULL, !.tail = NULL]
    /\ posted' = Append(posted, m_awaiter_que.head)
    /\ UNCHANGED m_next

-----------------------------------------------------------------------------
(* The event loop *)

Idle == calls = << >> /\ ~thrown

\* The loop takes a posted task and calls on_notify.
on_notify ==
    /\ Idle /\ walk = NULL /\ posted # << >>
    /\ walk' = Head(posted)
    /\ posted' = Tail(posted)
    /\ UNCHANGED <<taskVars, m_awaiter_que, m_next, resumed, skipped, misled, terminated>>

Visit ==
    /\ Idle /\ walk # NULL /\ ~resumed
    /\ Call(frames, walk, walk, "callback")
    /\ resumed' = TRUE
    /\ UNCHANGED <<listVars, walk, skipped, misled, terminated>>

\* Faulty variant: on_notify resumes the first of the list only.
AdvanceToEnd ==
    /\ Idle /\ resumed
    /\ walk' = NULL /\ resumed' = FALSE
    /\ UNCHANGED <<taskVars, listVars, skipped, misled, terminated>>

\* node = node->m_next.  The link of a node that nobody will read again is forgotten.
Advance ==
    /\ Idle /\ resumed
    /\ walk' = m_next[walk] /\ resumed' = FALSE
    /\ m_next' = [m_next EXCEPT ![walk] = NULL]
    /\ misled' = (walk # past /\ frames[walk].state = "event" /\ m_next[walk] # NULL)
    /\ UNCHANGED <<taskVars, m_awaiter_que, posted, skipped, terminated>>

\* User code catches what leaves a resume() of its own.
Catch ==
    /\ thrown
    /\ thrown' = FALSE
    /\ UNCHANGED <<frames, calls, listVars, walkVars, terminated>>

\* The frame whose node on_notify will read is destroyed, or stays.
TaskStep == /\ Acts \/ Suspends
            /\ Unwinds
            /\ Actor = Main => walk = NULL
            /\ misled' = (walk \in Frames /\ frames'[walk].state = "free")
            /\ UNCHANGED <<listVars, walk, resumed, skipped>>

LoopStep == ~terminated /\ ~misled /\ (Visit \/ Advance \/ Catch)

Next == \/ LoopStep
        \/ /\ ~terminated /\ ~misled
           /\ TaskStep \/ Wait \/ notify_one \/ notify_all \/ on_notify

\* The thread goes on; what Main does, it ends up in run(); and a resume() returns: no
\* coroutine, and no set of coroutines, keeps the thread forever.
Fairness == /\ WF_vars(LoopStep)
            /\ SF_vars(~terminated /\ ~misled /\ on_notify)
            /\ []<>(calls = << >> \/ misled)

Spec == Init /\ [][Next]_vars /\ Fairness

-----------------------------------------------------------------------------
(* Properties *)

\* Where the list begins that on_notify has yet to walk.
Ahead == IF ~resumed THEN walk
         ELSE IF walk # past /\ frames[walk].state = "event" THEN NULL
         ELSE m_next[walk]

\* The lists that somebody can still walk.
Heads == <<m_awaiter_que.head>> \o posted \o <<Ahead>>
Chains == [i \in DOMAIN Heads |-> Chain(m_next, Heads[i])]

\* Where in them a coroutine is: in which list, as which node.
Places(f) == {p \in (1..Len(Chains)) \X (1..Cardinality(Nodes)) :
                 p[2] \in DOMAIN Chains[p[1]] /\ Chains[p[1]][p[2]] = f}

\* Every coroutine that waits for the event is in one list, once: the event's, that of
\* a posted task, or what is left of the one on_notify walks.  Only those are in none that
\* stood behind a coroutine that waited again in the same place.
WaitersListed ==
    ~misled => \A f \in Frames :
        Cardinality(Places(f)) = IF frames[f].state = "event" /\ f \notin skipped THEN 1 ELSE 0

Notified(f) == frames[f].state = "event" /\ f \notin Range(Chain(m_next, m_awaiter_que.head))

\* A coroutine that was notified runs again, unless one before it, resumed by the same
\* notify_all, has waited again in the same place or has been destroyed, or an exception
\* has ended the process.
NotifiedResumed ==
    \A f \in Frames : Notified(f) ~> (~Notified(f) \/ f \in skipped \/ misled \/ terminated)
=============================================================================

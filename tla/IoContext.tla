----------------------------- MODULE IoContext -----------------------------
(***************************************************************************)
(* IoCtx<MultiThreadTrait> of io_context.h: the run queue and the epoll     *)
(* loop that several threads execute together.                             *)
(*                                                                         *)
(* Every section the code runs under m_que_lock touches the shared state   *)
(* once and is one action here.  What the code does outside the lock is an *)
(* action of its own: the EPOLL_CTL_MOD of wakeup_a_thread, epoll_wait,    *)
(* and the two unlocked reads at lines 534 and 535.                        *)
(*                                                                         *)
(* The wakeup handle is an eventfd created readable and never read, so its *)
(* registration is all that matters: EPOLLONESHOT, armed by the            *)
(* constructor or by an EPOLL_CTL_MOD, disarmed when one epoll_wait        *)
(* reports it.                                                             *)
(***************************************************************************)
EXTENDS Naturals, Sequences, FiniteSets, Functions

CONSTANTS Threads,   \* the threads that call run()
          Clients,   \* other threads that call post_task and request_abort
          Tasks,     \* the PostTask objects
          Handles,   \* the registered event sources, each with a Callback
          maxevents, \* capacity of run()'s event array
          WakeupHandle

ASSUME ThreadsAssumption == /\ Threads # {}
                            /\ IsFiniteSet(Threads)
                            /\ Threads \cap Clients = {}
ASSUME HandlesAssumption == /\ IsFiniteSet(Handles)
                            /\ WakeupHandle \notin Handles
ASSUME MaxeventsAssumption == maxevents \in Nat \ {0}

Actors == Threads \cup Clients
Events == Handles \cup {WakeupHandle}

VARIABLES m_task_queue,
          m_task_queue_size,
          m_thread_waiting,
          m_abort_requested,
          armed,   \* is the oneshot registration of m_wakeup_handle armed?
          ready,   \* the handles whose event no epoll_wait has reported yet
          pc,      \* where each thread is in run()
          waking,  \* the actors that decided to call wakeup_a_thread
          events,  \* run()'s local: the reported events not dispatched yet
          task_queue_size  \* run()'s local: m_task_queue_size as read after epoll_wait

queueVars == <<m_task_queue, m_task_queue_size>>
epollVars == <<armed, ready>>
localVars == <<events, task_queue_size>>
vars == <<m_task_queue, m_task_queue_size, m_thread_waiting, m_abort_requested,
          armed, ready, pc, waking, events, task_queue_size>>

Locations == {"loop", "task", "epoll_wait", "returned", "overview", "abortCheck",
              "dispatch", "stopped", "failed"}

TypeOK ==
    /\ m_task_queue \in Seq(Tasks)
    /\ m_task_queue_size \in Nat
    /\ m_thread_waiting \in Nat
    /\ m_abort_requested \in BOOLEAN
    /\ armed \in BOOLEAN
    /\ ready \in SUBSET Handles
    /\ pc \in [Threads -> Locations]
    /\ waking \in SUBSET Actors
    /\ events \in [Threads -> SUBSET Events]
    /\ task_queue_size \in [Threads -> Nat]

Init ==
    /\ m_task_queue = << >>
    /\ m_task_queue_size = 0
    /\ m_thread_waiting = 0
    /\ m_abort_requested = FALSE
    /\ armed = TRUE
    /\ ready = {}
    /\ pc = [t \in Threads |-> "loop"]
    /\ waking = {}
    /\ events = [t \in Threads |-> {}]
    /\ task_queue_size = [t \in Threads |-> 0]

-----------------------------------------------------------------------------
(* Callers of post_task and request_abort *)

\* The overview of the reported events: the wakeup, and whether there is another.
wakeup_event(t) == WakeupHandle \in events[t]
Effective(t) == events[t] \ {WakeupHandle}
effective_event(t) == IF Effective(t) = {} THEN 0 ELSE 1

Busy(t) == pc[t] = "task" \/ (pc[t] = "dispatch" /\ Effective(t) # {})

\* Code outside the context runs on a client, in a task's callback or in an
\* event's callback.
UserCode(a) ==
    /\ a \notin waking
    /\ a \in Clients \/ (a \in Threads /\ Busy(a))

\* Faulty variant: nobody is woken.
WakeNobody(a) == UNCHANGED waking

WakeIfWaiting(a) ==
    waking' = IF m_thread_waiting > 0 THEN waking \cup {a} ELSE waking

\* A PostTask holds its own list node: it is posted again only after run() popped it.
post_task(a, task) ==
    /\ UserCode(a)
    /\ task \notin Range(m_task_queue)
    /\ m_task_queue' = Append(m_task_queue, task)
    /\ m_task_queue_size' = m_task_queue_size + 1
    /\ WakeIfWaiting(a)
    /\ UNCHANGED <<m_thread_waiting, m_abort_requested, epollVars, pc, localVars>>

request_abort(a) ==
    /\ UserCode(a)
    /\ m_abort_requested' = TRUE
    /\ WakeIfWaiting(a)
    /\ UNCHANGED <<queueVars, m_thread_waiting, epollVars, pc, localVars>>

\* EPOLL_CTL_MOD: arming the oneshot again when it is armed already is absorbed.
wakeup_a_thread(a) ==
    /\ a \in waking
    /\ armed' = TRUE
    /\ waking' = waking \ {a}
    /\ UNCHANGED <<queueVars, m_thread_waiting, m_abort_requested, ready, pc, localVars>>

-----------------------------------------------------------------------------
(* run() *)

Goto(t, here, there) ==
    /\ t \notin waking
    /\ pc[t] = here
    /\ pc' = [pc EXCEPT ![t] = there]

\* Faulty variant: the run queue is taken for a stack.
RunNewestTask(t) ==
    /\ Goto(t, "loop", "task")
    /\ ~m_abort_requested
    /\ m_task_queue # << >>
    /\ m_task_queue' = SubSeq(m_task_queue, 1, Len(m_task_queue) - 1)
    /\ m_task_queue_size' = m_task_queue_size - 1
    /\ UNCHANGED <<m_thread_waiting, m_abort_requested, epollVars, waking, localVars>>

RunTask(t) ==
    /\ Goto(t, "loop", "task")
    /\ ~m_abort_requested
    /\ m_task_queue # << >>
    /\ m_task_queue' = Tail(m_task_queue)
    /\ m_task_queue_size' = m_task_queue_size - 1
    /\ UNCHANGED <<m_thread_waiting, m_abort_requested, epollVars, waking, localVars>>

FinishTask(t) ==
    /\ Goto(t, "task", "loop")
    /\ UNCHANGED <<queueVars, m_thread_waiting, m_abort_requested, epollVars, waking,
                   localVars>>

\* The node popped before the abort flag is read is dropped, and not counted out.
RunAbort(t) ==
    /\ Goto(t, "loop", "stopped")
    /\ m_abort_requested
    /\ m_task_queue' = IF m_task_queue = << >> THEN << >> ELSE Tail(m_task_queue)
    /\ UNCHANGED <<m_task_queue_size, m_thread_waiting, m_abort_requested, epollVars,
                   waking, localVars>>

RunWait(t) ==
    /\ Goto(t, "loop", "epoll_wait")
    /\ ~m_abort_requested
    /\ m_task_queue = << >>
    /\ m_thread_waiting' = m_thread_waiting + 1
    /\ UNCHANGED <<queueVars, m_abort_requested, epollVars, waking, localVars>>

\* What epoll_wait may report: everything that is ready, or maxevents of it.
Reportable == ready \cup (IF armed THEN {WakeupHandle} ELSE {})
Reports ==
    {es \in SUBSET Reportable :
        Cardinality(es) = IF Cardinality(Reportable) <= maxevents
                          THEN Cardinality(Reportable) ELSE maxevents}

EpollReturn(t, es) ==
    /\ Goto(t, "epoll_wait", "returned")
    /\ es # {}
    /\ es \in Reports
    /\ events' = [events EXCEPT ![t] = es]
    /\ ready' = ready \ es
    /\ armed' = (armed /\ WakeupHandle \notin es)
    /\ UNCHANGED <<queueVars, m_thread_waiting, m_abort_requested, waking,
                   task_queue_size>>

\* nfds = -1, a signal for example.
EpollError(t) ==
    /\ Goto(t, "epoll_wait", "returned")
    /\ events' = [events EXCEPT ![t] = {}]
    /\ UNCHANGED <<queueVars, m_thread_waiting, m_abort_requested, epollVars, waking,
                   task_queue_size>>

\* Faulty variant: the throw on nfds = -1 comes before the thread is counted out.
LeaveWaitThrowing(t) ==
    /\ Goto(t, "returned", IF events[t] = {} THEN "failed" ELSE "overview")
    /\ m_thread_waiting' = m_thread_waiting - (IF events[t] = {} THEN 0 ELSE 1)
    /\ task_queue_size' = [task_queue_size EXCEPT ![t] = m_task_queue_size]
    /\ UNCHANGED <<queueVars, m_abort_requested, epollVars, waking, events>>

\* The second locked section, and the throw on nfds = -1.
LeaveWait(t) ==
    /\ Goto(t, "returned", IF events[t] = {} THEN "failed" ELSE "overview")
    /\ m_thread_waiting' = m_thread_waiting - 1
    /\ task_queue_size' = [task_queue_size EXCEPT ![t] = m_task_queue_size]
    /\ UNCHANGED <<queueVars, m_abort_requested, epollVars, waking, events>>

\* if(m_thread_waiting), read without the lock
ReadThreadWaiting(t) ==
    /\ Goto(t, "overview", IF m_thread_waiting > 0 THEN "abortCheck" ELSE "dispatch")
    /\ UNCHANGED <<queueVars, m_thread_waiting, m_abort_requested, epollVars, waking,
                   localVars>>

\* More work than this thread will take on by itself.
MoreThanOne(t) ==
    /\ wakeup_event(t)
    /\ task_queue_size[t] + effective_event(t) > 1

\* Faulty variant: an abort is not passed on to the other threads.
ReadSizeOnly(t) ==
    /\ Goto(t, "abortCheck", "dispatch")
    /\ waking' = IF MoreThanOne(t) THEN waking \cup {t} ELSE waking
    /\ UNCHANGED <<queueVars, m_thread_waiting, m_abort_requested, epollVars, localVars>>

\* if(m_abort_requested) ... else if(wakeup_event && ...), read without the lock
ReadAbortRequested(t) ==
    /\ Goto(t, "abortCheck", "dispatch")
    /\ waking' = IF m_abort_requested \/ MoreThanOne(t) THEN waking \cup {t} ELSE waking
    /\ UNCHANGED <<queueVars, m_thread_waiting, m_abort_requested, epollVars, localVars>>

\* The callback of one effective event has returned.
Dispatch(t, h) ==
    /\ Goto(t, "dispatch", "dispatch")
    /\ h \in Effective(t)
    /\ events' = [events EXCEPT ![t] = @ \ {h}]
    /\ UNCHANGED <<queueVars, m_thread_waiting, m_abort_requested, epollVars, waking,
                   task_queue_size>>

NextIteration(t) ==
    /\ Goto(t, "dispatch", "loop")
    /\ Effective(t) = {}
    /\ events' = [events EXCEPT ![t] = {}]
    /\ task_queue_size' = [task_queue_size EXCEPT ![t] = 0]
    /\ UNCHANGED <<queueVars, m_thread_waiting, m_abort_requested, epollVars, waking>>

-----------------------------------------------------------------------------
\* The kernel: an event source becomes ready (again).
EventArrives(h) ==
    /\ h \notin ready
    /\ ready' = ready \cup {h}
    /\ UNCHANGED <<queueVars, m_thread_waiting, m_abort_requested, armed, pc, waking,
                   localVars>>

Environment ==
    \/ \E a \in Actors : request_abort(a)
    \/ \E a \in Actors, task \in Tasks : post_task(a, task)
    \/ \E h \in Handles : EventArrives(h)
    \/ \E t \in Threads : EpollError(t)

\* One step of run() on thread t, whichever comes next.
Loop(t) ==
    \/ RunTask(t) \/ FinishTask(t) \/ RunAbort(t) \/ RunWait(t)
    \/ \E es \in SUBSET Events : EpollReturn(t, es)
    \/ LeaveWait(t) \/ ReadThreadWaiting(t) \/ ReadAbortRequested(t)
    \/ \E h \in Handles : Dispatch(t, h)
    \/ NextIteration(t)

Next ==
    \/ Environment
    \/ \E a \in Actors : wakeup_a_thread(a)
    \/ \E t \in Threads : Loop(t)

\* Every thread keeps running; a callback returns, so it posts finitely often;
\* and the ready list of epoll is first in first out, so an armed wakeup is not
\* passed over for ever.
Fairness ==
    /\ \A a \in Actors : WF_vars(wakeup_a_thread(a))
    /\ \A t \in Threads : /\ WF_vars(Loop(t))
                          /\ SF_vars(FinishTask(t) \/ \E h \in Handles : Dispatch(t, h))
    /\ SF_vars(\E t \in Threads, es \in SUBSET Events :
                   WakeupHandle \in es /\ EpollReturn(t, es))

Spec == Init /\ [][Next]_vars
FairSpec == Spec /\ Fairness

-----------------------------------------------------------------------------
(* Properties *)

InEpollWait == {t \in Threads : pc[t] = "epoll_wait"}
Waiters == {t \in Threads : pc[t] \in {"epoll_wait", "returned"}}

\* Both counters say what they are for: the threads inside epoll_wait that have
\* not taken the lock again, and (until an abort drops nodes) the queue's length.
CountersExact ==
    /\ m_thread_waiting = Cardinality(Waiters)
    /\ m_abort_requested \/ m_task_queue_size = Len(m_task_queue)

\* Thread t took the wakeup and will read the queue size, or has read that
\* there is more work than its own: it passes the wakeup on if anyone waits.
PassesOn(t) ==
    \/ pc[t] = "returned" /\ wakeup_event(t)
    \/ pc[t] \in {"overview", "abortCheck"} /\ MoreThanOne(t)

WakeupOnItsWay ==
    \/ armed
    \/ waking # {}
    \/ \E t \in Threads : PassesOn(t)

\* Thread t pops the queue next, with no callback to run before that.
PopsNext(t) ==
    \/ pc[t] = "loop"
    \/ pc[t] \in {"overview", "abortCheck", "dispatch"} /\ Effective(t) = {}

\* No lost wakeup: while a task is queued and a thread sleeps in epoll_wait, a
\* wakeup is armed or on its way, or the only task has a thread coming for it.
\* Threads that are busy in callbacks (post_task's caller among them) do not count.
NoStrandedTask ==
    (~m_abort_requested /\ m_task_queue # << >> /\ InEpollWait # {}) =>
        \/ WakeupOnItsWay
        \/ Len(m_task_queue) = 1 /\ \E t \in Threads : PopsNext(t)

\* request_abort's single wakeup is handed from thread to thread: while one still
\* sleeps, the next wakeup is armed or some woken thread has yet to pass it on.
AbortReachesWaiters ==
    (m_abort_requested /\ InEpollWait # {}) =>
        \/ armed
        \/ waking # {}
        \/ \E t \in Threads : /\ pc[t] \in {"returned", "overview", "abortCheck"}
                              /\ events[t] # {}

\* A posted task runs although nothing but the wakeup protocol tells the sleeping
\* threads of it, unless an abort intervenes or every thread has died in epoll_wait.
EveryTaskRuns ==
    \A task \in Tasks :
        task \in Range(m_task_queue) ~>
            \/ task \notin Range(m_task_queue)
            \/ m_abort_requested
            \/ \A t \in Threads : pc[t] = "failed"

\* After request_abort every thread leaves run().
AbortStopsEveryThread ==
    m_abort_requested ~> \A t \in Threads : pc[t] \in {"stopped", "failed"}

\* The context is an Executor: its threads are busy while they run user code.
StatusOf(t) == CASE pc[t] \in {"stopped", "failed"} -> "gone"
                 [] Busy(t) -> "busy"
                 [] OTHER -> "idle"

Status == [t \in Threads |-> StatusOf(t)]

Abstract == INSTANCE Executor WITH
    posted <- m_task_queue, aborted <- m_abort_requested, status <- Status

\* The lock, the counters and the oneshot wakeup implement that Executor: no task
\* is lost, duplicated or reordered, and some thread always comes for the next one.
ImplementsExecutor == Abstract!FairSpec
=============================================================================

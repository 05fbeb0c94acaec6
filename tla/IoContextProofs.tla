-------------------------- MODULE IoContextProofs --------------------------
(* Theorems about IoContext for any finite set of threads, any clients,    *)
(* tasks, handles and event array capacity.                                *)
EXTENDS IoContext, TLAPS, FiniteSetTheorems

\* A thread that left epoll_wait normally has a reported event in hand.
HasEvent == \A t \in Threads : pc[t] \in {"overview", "abortCheck"} => events[t] # {}

IInv ==
    /\ TypeOK
    /\ CountersExact
    /\ HasEvent
    /\ NoStrandedTask
    /\ AbortReachesWaiters

-----------------------------------------------------------------------------
(* The counters *)

\* The set m_thread_waiting counts is finite, as Threads is.
LEMMA WaitersFinite == IsFiniteSet(Waiters)
  <1>1. Waiters \subseteq Threads
    BY DEF Waiters
  <1> QED
    BY <1>1, ThreadsAssumption, FS_Subset

\* The unlocked read at line 534 and the two locked reads of m_thread_waiting see
\* a positive count whenever some thread sleeps in epoll_wait.
LEMMA SleeperIsCounted ==
    ASSUME CountersExact, InEpollWait # {}
    PROVE  m_thread_waiting > 0
  <1>1. Waiters # {}
    BY DEF Waiters, InEpollWait
  <1>2. Cardinality(Waiters) \in Nat /\ Cardinality(Waiters) # 0
    BY <1>1, WaitersFinite, FS_CardinalityType, FS_EmptySet
  <1> QED
    BY <1>2 DEF CountersExact

\* A step that takes no thread into or out of the waiting section leaves the
\* counted set alone.
LEMMA WaitersUnchanged ==
    ASSUME TypeOK, NEW t \in Threads, NEW here, NEW there \in Locations, Goto(t, here, there),
           here \in {"epoll_wait", "returned"} <=> there \in {"epoll_wait", "returned"}
    PROVE  Waiters' = Waiters
  BY DEF TypeOK, Goto, Waiters

\* RunWait counts one more thread.
LEMMA WaitersEntered ==
    ASSUME TypeOK, NEW t \in Threads, Goto(t, "loop", "epoll_wait")
    PROVE  Cardinality(Waiters') = Cardinality(Waiters) + 1
  <1>1. Waiters' = Waiters \cup {t} /\ t \notin Waiters
    BY DEF TypeOK, Goto, Waiters
  <1> QED
    BY <1>1, WaitersFinite, FS_AddElement

\* LeaveWait counts one thread less, and there was one to count.
LEMMA WaitersLeft ==
    ASSUME TypeOK, NEW t \in Threads, NEW there \in {"failed", "overview"},
           Goto(t, "returned", there)
    PROVE  /\ Cardinality(Waiters') = Cardinality(Waiters) - 1
           /\ Cardinality(Waiters) \in Nat \ {0}
  <1>1. Waiters' = Waiters \ {t} /\ t \in Waiters
    BY DEF TypeOK, Goto, Waiters
  <1>2. Cardinality(Waiters') = Cardinality(Waiters) - 1
    BY <1>1, WaitersFinite, FS_RemoveElement
  <1>3. Cardinality(Waiters) \in Nat /\ Cardinality(Waiters) # 0
    BY <1>1, WaitersFinite, FS_CardinalityType, FS_EmptySet
  <1> QED
    BY <1>2, <1>3

-----------------------------------------------------------------------------
(* Types and counters *)

\* The initial counters describe the initial state: nobody waits.
LEMMA InitTypes == Init => TypeOK /\ CountersExact
  <1> SUFFICES ASSUME Init PROVE TypeOK /\ CountersExact
    OBVIOUS
  <1>1. Waiters = {}
    BY DEF Init, Waiters
  <1>2. Cardinality(Waiters) = 0
    BY <1>1, FS_EmptySet
  <1>3. TypeOK
    <2>1. m_task_queue \in Seq(Tasks)
      BY DEF Init
    <2>2. /\ pc \in [Threads -> Locations]
          /\ events \in [Threads -> SUBSET Events]
          /\ task_queue_size \in [Threads -> Nat]
      BY DEF Init, Locations
    <2>3. ready \in SUBSET Handles /\ waking \in SUBSET Actors
      BY DEF Init
    <2> QED
      BY <2>1, <2>2, <2>3 DEF Init, TypeOK
  <1>4. CountersExact
    BY <1>2 DEF Init, CountersExact
  <1> QED
    BY <1>3, <1>4

\* Every action keeps the types and the counters; neither can be shown without the
\* other, as the code decrements both counters and they stay natural numbers.
LEMMA NextTypes ==
    ASSUME TypeOK, CountersExact, [Next]_vars
    PROVE  TypeOK' /\ CountersExact'
  <1> USE DEF TypeOK, CountersExact
  <1>1. ASSUME NEW a \in Actors, NEW task \in Tasks, post_task(a, task)
        PROVE  TypeOK' /\ CountersExact'
    <2>1. Waiters' = Waiters
      BY <1>1 DEF post_task, Waiters
    <2> QED
      BY <1>1, <2>1 DEF post_task, WakeIfWaiting, queueVars, epollVars, localVars
  <1>2. ASSUME NEW a \in Actors, request_abort(a)
        PROVE  TypeOK' /\ CountersExact'
    <2>1. Waiters' = Waiters
      BY <1>2 DEF request_abort, Waiters
    <2> QED
      BY <1>2, <2>1 DEF request_abort, WakeIfWaiting, queueVars, epollVars, localVars
  <1>3. ASSUME NEW h \in Handles, EventArrives(h)
        PROVE  TypeOK' /\ CountersExact'
    <2>1. Waiters' = Waiters
      BY <1>3 DEF EventArrives, Waiters
    <2> QED
      BY <1>3, <2>1 DEF EventArrives, queueVars, localVars
  <1>4. ASSUME NEW a \in Actors, wakeup_a_thread(a)
        PROVE  TypeOK' /\ CountersExact'
    <2>1. Waiters' = Waiters
      BY <1>4 DEF wakeup_a_thread, Waiters
    <2> QED
      BY <1>4, <2>1 DEF wakeup_a_thread, queueVars, localVars
  <1>5. ASSUME NEW t \in Threads, EpollError(t)
        PROVE  TypeOK' /\ CountersExact'
    <2>1. Waiters' = Waiters
      BY <1>5, WaitersUnchanged DEF EpollError, Locations
    <2> QED
      BY <1>5, <2>1 DEF EpollError, Goto, Locations, queueVars, epollVars
  <1>6. ASSUME NEW t \in Threads, RunTask(t)
        PROVE  TypeOK' /\ CountersExact'
    <2>1. Waiters' = Waiters
      BY <1>6, WaitersUnchanged DEF RunTask, Locations
    <2>2. m_task_queue' \in Seq(Tasks) /\ Len(m_task_queue') = Len(m_task_queue) - 1
      BY <1>6 DEF RunTask
    <2>3. m_task_queue_size = Len(m_task_queue) /\ Len(m_task_queue) > 0
      BY <1>6 DEF RunTask
    <2> QED
      BY <1>6, <2>1, <2>2, <2>3 DEF RunTask, Goto, Locations, epollVars, localVars
  <1>7. ASSUME NEW t \in Threads, FinishTask(t)
        PROVE  TypeOK' /\ CountersExact'
    <2>1. Waiters' = Waiters
      BY <1>7, WaitersUnchanged DEF FinishTask, Locations
    <2> QED
      BY <1>7, <2>1 DEF FinishTask, Goto, Locations, queueVars, epollVars, localVars
  <1>8. ASSUME NEW t \in Threads, RunAbort(t)
        PROVE  TypeOK' /\ CountersExact'
    <2>1. Waiters' = Waiters
      BY <1>8, WaitersUnchanged DEF RunAbort, Locations
    <2>2. m_task_queue' \in Seq(Tasks)
      BY <1>8 DEF RunAbort
    <2> QED
      BY <1>8, <2>1, <2>2 DEF RunAbort, Goto, Locations, epollVars, localVars
  <1>9. ASSUME NEW t \in Threads, RunWait(t)
        PROVE  TypeOK' /\ CountersExact'
    <2>1. Cardinality(Waiters') = Cardinality(Waiters) + 1
      BY <1>9, WaitersEntered DEF RunWait
    <2> QED
      BY <1>9, <2>1 DEF RunWait, Goto, Locations, queueVars, epollVars, localVars
  <1>10. ASSUME NEW t \in Threads, NEW es \in SUBSET Events, EpollReturn(t, es)
         PROVE  TypeOK' /\ CountersExact'
    <2>1. Waiters' = Waiters
      BY <1>10, WaitersUnchanged DEF EpollReturn, Locations
    <2> QED
      BY <1>10, <2>1 DEF EpollReturn, Goto, Locations, queueVars
  <1>11. ASSUME NEW t \in Threads, LeaveWait(t)
         PROVE  TypeOK' /\ CountersExact'
    <2>1. /\ Cardinality(Waiters') = Cardinality(Waiters) - 1
          /\ Cardinality(Waiters) \in Nat \ {0}
      BY <1>11, WaitersLeft DEF LeaveWait
    <2> QED
      BY <1>11, <2>1 DEF LeaveWait, Goto, Locations, queueVars, epollVars
  <1>12. ASSUME NEW t \in Threads, ReadThreadWaiting(t)
         PROVE  TypeOK' /\ CountersExact'
    <2>1. Waiters' = Waiters
      BY <1>12, WaitersUnchanged DEF ReadThreadWaiting, Locations
    <2> QED
      BY <1>12, <2>1 DEF ReadThreadWaiting, Goto, Locations, queueVars, epollVars, localVars
  <1>13. ASSUME NEW t \in Threads, ReadAbortRequested(t)
         PROVE  TypeOK' /\ CountersExact'
    <2>1. Waiters' = Waiters
      BY <1>13, WaitersUnchanged DEF ReadAbortRequested, Locations
    <2>2. waking' \in SUBSET Actors
      BY <1>13 DEF ReadAbortRequested, Actors
    <2> QED
      BY <1>13, <2>1, <2>2
      DEF ReadAbortRequested, Goto, Locations, queueVars, epollVars, localVars
  <1>14. ASSUME NEW t \in Threads, NEW h \in Handles, Dispatch(t, h)
         PROVE  TypeOK' /\ CountersExact'
    <2>1. Waiters' = Waiters
      BY <1>14, WaitersUnchanged DEF Dispatch, Locations
    <2> QED
      BY <1>14, <2>1 DEF Dispatch, Goto, Locations, queueVars, epollVars
  <1>15. ASSUME NEW t \in Threads, NextIteration(t)
         PROVE  TypeOK' /\ CountersExact'
    <2>1. Waiters' = Waiters
      BY <1>15, WaitersUnchanged DEF NextIteration, Locations
    <2> QED
      BY <1>15, <2>1 DEF NextIteration, Goto, Locations, queueVars, epollVars
  <1>16. CASE UNCHANGED vars
    <2>1. Waiters' = Waiters
      BY <1>16 DEF vars, Waiters
    <2> QED
      BY <1>16, <2>1 DEF vars
  <1> QED
    BY <1>1, <1>2, <1>3, <1>4, <1>5, <1>6, <1>7, <1>8, <1>9, <1>10, <1>11, <1>12,
       <1>13, <1>14, <1>15, <1>16
    DEF Next, Environment, Loop

\* The types hold in every reachable state.
THEOREM TypeCorrect == Spec => []TypeOK
  <1>1. TypeOK /\ CountersExact /\ [Next]_vars => (TypeOK /\ CountersExact)'
    BY NextTypes
  <1> QED
    BY <1>1, InitTypes, PTL DEF Spec

\* m_thread_waiting and m_task_queue_size are exact in every reachable state.
THEOREM CountersCorrect == Spec => []CountersExact
  <1>1. TypeOK /\ CountersExact /\ [Next]_vars => (TypeOK /\ CountersExact)'
    BY NextTypes
  <1> QED
    BY <1>1, InitTypes, PTL DEF Spec

-----------------------------------------------------------------------------
(* Wakeups *)

\* Nothing leaves the locked section after epoll_wait without an event in hand.
LEMMA NextHasEvent ==
    ASSUME TypeOK, HasEvent, [Next]_vars
    PROVE  HasEvent'
  <1> USE DEF TypeOK, HasEvent
  <1>1. ASSUME UNCHANGED <<pc, events>> PROVE HasEvent'
    BY <1>1
  <1>2. ASSUME Environment PROVE HasEvent'
    BY <1>1, <1>2
    DEF Environment, request_abort, post_task, EventArrives, EpollError, Goto, localVars
  <1>3. ASSUME NEW t \in Threads, Loop(t) PROVE HasEvent'
    <2>1. CASE RunTask(t) \/ FinishTask(t) \/ RunAbort(t) \/ RunWait(t)
      BY <2>1 DEF RunTask, FinishTask, RunAbort, RunWait, Goto, localVars
    <2>2. CASE \E es \in SUBSET Events : EpollReturn(t, es)
      BY <2>2 DEF EpollReturn, Goto
    <2>3. CASE LeaveWait(t)
      BY <2>3 DEF LeaveWait, Goto
    <2>4. CASE ReadThreadWaiting(t) \/ ReadAbortRequested(t)
      BY <2>4 DEF ReadThreadWaiting, ReadAbortRequested, Goto, localVars
    <2>5. CASE (\E h \in Handles : Dispatch(t, h)) \/ NextIteration(t)
      BY <2>5 DEF Dispatch, NextIteration, Goto
    <2> QED
      BY <1>3, <2>1, <2>2, <2>3, <2>4, <2>5 DEF Loop
  <1>4. ASSUME NEW a \in Actors, wakeup_a_thread(a) PROVE HasEvent'
    BY <1>1, <1>4 DEF wakeup_a_thread, localVars
  <1> QED
    BY <1>1, <1>2, <1>3, <1>4 DEF Next, vars

\* The wakeup protocol never strands a task.  Two tasks or more need a wakeup that
\* is armed or on its way; only the last one may rely on a thread that pops next,
\* because that thread takes one task and passes nothing on.
LEMMA NextNoStrandedTask ==
    ASSUME IInv, [Next]_vars, TypeOK'
    PROVE  NoStrandedTask'
  <1> SUFFICES ASSUME ~m_abort_requested', m_task_queue' # << >>, InEpollWait' # {}
               PROVE  \/ WakeupOnItsWay'
                      \/ Len(m_task_queue') = 1 /\ \E t \in Threads : PopsNext(t)'
    BY DEF NoStrandedTask
  <1> USE DEF IInv, TypeOK
  <1>0. ASSUME UNCHANGED <<m_task_queue, m_abort_requested, armed, waking, pc, events,
                           task_queue_size>>
        PROVE  \/ WakeupOnItsWay'
               \/ Len(m_task_queue') = 1 /\ \E t \in Threads : PopsNext(t)'
    BY <1>0 DEF NoStrandedTask, WakeupOnItsWay, PassesOn, PopsNext, MoreThanOne,
                wakeup_event, effective_event, Effective, InEpollWait
  <1>1. ASSUME NEW a \in Actors, NEW task \in Tasks, post_task(a, task)
        PROVE  WakeupOnItsWay'
    <2>1. InEpollWait # {}
      BY <1>1 DEF post_task, InEpollWait
    <2>2. m_thread_waiting > 0
      BY <2>1, SleeperIsCounted
    <2> QED
      BY <1>1, <2>2 DEF post_task, WakeIfWaiting, WakeupOnItsWay
  <1>2. ASSUME NEW a \in Actors, request_abort(a) PROVE FALSE
    BY <1>2 DEF request_abort
  <1>3. ASSUME NEW a \in Actors, wakeup_a_thread(a) PROVE WakeupOnItsWay'
    BY <1>3 DEF wakeup_a_thread, WakeupOnItsWay
  <1>4. ASSUME NEW h \in Handles, EventArrives(h)
        PROVE  \/ WakeupOnItsWay'
               \/ Len(m_task_queue') = 1 /\ \E t \in Threads : PopsNext(t)'
    BY <1>0, <1>4 DEF EventArrives, queueVars, localVars
  <1> DEFINE Safe == \/ WakeupOnItsWay'
                     \/ Len(m_task_queue') = 1 /\ \E t \in Threads : PopsNext(t)'
  <1> USE DEF WakeupOnItsWay, PassesOn, PopsNext, MoreThanOne, wakeup_event,
              effective_event, Effective
  <1>5. ASSUME NEW t \in Threads, RunTask(t) PROVE Safe
    <2>1. InEpollWait # {} /\ ~m_abort_requested /\ m_task_queue # << >>
      BY <1>5 DEF RunTask, Goto, InEpollWait
    <2>2. Len(m_task_queue) # 1
      BY <1>5 DEF RunTask
    <2>3. WakeupOnItsWay
      BY <2>1, <2>2 DEF NoStrandedTask
    <2> QED
      BY <1>5, <2>3 DEF RunTask, Goto, epollVars, localVars
  <1>6. ASSUME NEW t \in Threads, FinishTask(t) PROVE Safe
    <2>1. InEpollWait # {}
      BY <1>6 DEF FinishTask, Goto, InEpollWait
    <2> QED
      BY <1>6, <2>1 DEF FinishTask, Goto, NoStrandedTask, queueVars, epollVars, localVars
  <1>7. ASSUME NEW t \in Threads, RunAbort(t) \/ RunWait(t) PROVE FALSE
    BY <1>7 DEF RunAbort, RunWait, queueVars
  <1>8. ASSUME NEW t \in Threads, NEW es \in SUBSET Events, EpollReturn(t, es) PROVE Safe
    <2>1. InEpollWait # {}
      BY <1>8 DEF EpollReturn, Goto, InEpollWait
    <2>2. CASE WakeupHandle \in es
      BY <1>8, <2>2 DEF EpollReturn, Goto
    <2>3. CASE WakeupHandle \notin es
      BY <1>8, <2>1, <2>3 DEF EpollReturn, Goto, NoStrandedTask, queueVars
    <2> QED
      BY <2>2, <2>3
  <1>9. ASSUME NEW t \in Threads, EpollError(t) PROVE Safe
    <2>1. InEpollWait # {}
      BY <1>9 DEF EpollError, Goto, InEpollWait
    <2> QED
      BY <1>9, <2>1 DEF EpollError, Goto, NoStrandedTask, queueVars, epollVars
  <1>10. ASSUME NEW t \in Threads, LeaveWait(t) PROVE Safe
    <2>1. InEpollWait # {} /\ ~m_abort_requested /\ m_task_queue # << >>
      BY <1>10 DEF LeaveWait, Goto, InEpollWait, queueVars
    <2>2. task_queue_size'[t] = Len(m_task_queue) /\ Len(m_task_queue) >= 1
      BY <1>10, <2>1 DEF LeaveWait, CountersExact
    <2>3. CASE WakeupHandle \in events[t] /\ Len(m_task_queue) + effective_event(t) > 1
      <3>1. pc'[t] = "overview" /\ MoreThanOne(t)'
        BY <1>10, <2>2, <2>3 DEF LeaveWait, Goto
      <3> QED
        BY <3>1
    <2>4. CASE WakeupHandle \in events[t] /\ ~(Len(m_task_queue) + effective_event(t) > 1)
      <3>1. Len(m_task_queue) = 1 /\ Effective(t) = {}
        BY <2>2, <2>4
      <3>2. PopsNext(t)'
        BY <1>10, <2>4, <3>1 DEF LeaveWait, Goto
      <3> QED
        BY <1>10, <3>1, <3>2 DEF LeaveWait, queueVars
    <2>5. CASE WakeupHandle \notin events[t]
      BY <1>10, <2>1, <2>5 DEF LeaveWait, Goto, NoStrandedTask, queueVars, epollVars
    <2> QED
      BY <2>3, <2>4, <2>5
  <1>11. ASSUME NEW t \in Threads, ReadThreadWaiting(t) PROVE Safe
    <2>1. InEpollWait # {}
      BY <1>11 DEF ReadThreadWaiting, Goto, InEpollWait
    <2>2. pc' = [pc EXCEPT ![t] = "abortCheck"] /\ pc[t] = "overview"
      BY <1>11, <2>1, SleeperIsCounted DEF ReadThreadWaiting, Goto
    <2> QED
      BY <1>11, <2>1, <2>2
      DEF ReadThreadWaiting, NoStrandedTask, queueVars, epollVars, localVars
  <1>12. ASSUME NEW t \in Threads, ReadAbortRequested(t) PROVE Safe
    <2>1. InEpollWait # {}
      BY <1>12 DEF ReadAbortRequested, Goto, InEpollWait
    <2>2. CASE MoreThanOne(t)
      BY <1>12, <2>2 DEF ReadAbortRequested
    <2>3. CASE ~MoreThanOne(t)
      BY <1>12, <2>1, <2>3
      DEF ReadAbortRequested, Goto, NoStrandedTask, queueVars, epollVars, localVars
    <2> QED
      BY <2>2, <2>3
  <1>13. ASSUME NEW t \in Threads, NEW h \in Handles, Dispatch(t, h) PROVE Safe
    <2>1. InEpollWait # {}
      BY <1>13 DEF Dispatch, Goto, InEpollWait
    <2> QED
      BY <1>13, <2>1 DEF Dispatch, Goto, NoStrandedTask, queueVars, epollVars
  <1>14. ASSUME NEW t \in Threads, NextIteration(t) PROVE Safe
    <2>1. InEpollWait # {}
      BY <1>14 DEF NextIteration, Goto, InEpollWait
    <2> QED
      BY <1>14, <2>1 DEF NextIteration, Goto, NoStrandedTask, queueVars, epollVars
  <1>15. CASE UNCHANGED vars
    BY <1>0, <1>15 DEF vars
  <1> QED
    BY <1>1, <1>2, <1>3, <1>4, <1>5, <1>6, <1>7, <1>8, <1>9, <1>10, <1>11, <1>12,
       <1>13, <1>14, <1>15
    DEF Next, Environment, Loop

\* After an abort every woken thread checks the flag after it left the waiting
\* count, so the wakeup is handed on until nobody sleeps.
LEMMA NextAbortReaches ==
    ASSUME IInv, [Next]_vars, TypeOK'
    PROVE  AbortReachesWaiters'
  <1> DEFINE Handed == \/ armed
                       \/ waking # {}
                       \/ \E t \in Threads :
                             /\ pc[t] \in {"returned", "overview", "abortCheck"}
                             /\ events[t] # {}
  <1> SUFFICES ASSUME m_abort_requested', InEpollWait' # {}
               PROVE  Handed'
    BY DEF AbortReachesWaiters
  <1> USE DEF IInv, TypeOK
  <1>1. ASSUME NEW a \in Actors, request_abort(a) PROVE Handed'
    <2>1. InEpollWait # {}
      BY <1>1 DEF request_abort, InEpollWait
    <2>2. m_thread_waiting > 0
      BY <2>1, SleeperIsCounted
    <2> QED
      BY <1>1, <2>2 DEF request_abort, WakeIfWaiting
  <1>2. ASSUME NEW a \in Actors, NEW task \in Tasks, post_task(a, task) PROVE Handed'
    <2>1. InEpollWait # {} /\ m_abort_requested
      BY <1>2 DEF post_task, InEpollWait
    <2> QED
      BY <1>2, <2>1 DEF post_task, WakeIfWaiting, AbortReachesWaiters, epollVars, localVars
  <1>3. ASSUME NEW a \in Actors, wakeup_a_thread(a) PROVE Handed'
    BY <1>3 DEF wakeup_a_thread
  <1>4. ASSUME NEW h \in Handles, EventArrives(h) PROVE Handed'
    BY <1>4 DEF EventArrives, InEpollWait, AbortReachesWaiters, localVars
  <1>5. ASSUME NEW t \in Threads, RunTask(t) \/ RunWait(t) PROVE FALSE
    BY <1>5 DEF RunTask, RunWait
  <1>6. ASSUME NEW t \in Threads, FinishTask(t) \/ RunAbort(t) PROVE Handed'
    <2>1. InEpollWait # {} /\ m_abort_requested
      BY <1>6 DEF FinishTask, RunAbort, Goto, InEpollWait
    <2> QED
      BY <1>6, <2>1
      DEF FinishTask, RunAbort, Goto, AbortReachesWaiters, epollVars, localVars
  <1>7. ASSUME NEW t \in Threads, NEW es \in SUBSET Events, EpollReturn(t, es) PROVE Handed'
    BY <1>7 DEF EpollReturn, Goto
  <1>8. ASSUME NEW t \in Threads, EpollError(t) PROVE Handed'
    <2>1. InEpollWait # {} /\ m_abort_requested
      BY <1>8 DEF EpollError, Goto, InEpollWait
    <2> QED
      BY <1>8, <2>1 DEF EpollError, Goto, AbortReachesWaiters, epollVars
  <1>9. ASSUME NEW t \in Threads, LeaveWait(t) PROVE Handed'
    <2>1. InEpollWait # {} /\ m_abort_requested
      BY <1>9 DEF LeaveWait, Goto, InEpollWait
    <2> QED
      BY <1>9, <2>1 DEF LeaveWait, Goto, AbortReachesWaiters, epollVars
  <1>10. ASSUME NEW t \in Threads, ReadThreadWaiting(t) PROVE Handed'
    <2>1. InEpollWait # {} /\ m_abort_requested
      BY <1>10 DEF ReadThreadWaiting, Goto, InEpollWait
    <2>2. pc' = [pc EXCEPT ![t] = "abortCheck"] /\ pc[t] = "overview"
      BY <1>10, <2>1, SleeperIsCounted DEF ReadThreadWaiting, Goto
    <2> QED
      BY <1>10, <2>1, <2>2 DEF ReadThreadWaiting, AbortReachesWaiters, epollVars, localVars
  <1>11. ASSUME NEW t \in Threads, ReadAbortRequested(t) PROVE Handed'
    BY <1>11 DEF ReadAbortRequested
  <1>12. ASSUME NEW t \in Threads, NEW h \in Handles, Dispatch(t, h) PROVE Handed'
    <2>1. InEpollWait # {} /\ m_abort_requested
      BY <1>12 DEF Dispatch, Goto, InEpollWait
    <2> QED
      BY <1>12, <2>1 DEF Dispatch, Goto, AbortReachesWaiters, epollVars
  <1>13. ASSUME NEW t \in Threads, NextIteration(t) PROVE Handed'
    <2>1. InEpollWait # {} /\ m_abort_requested
      BY <1>13 DEF NextIteration, Goto, InEpollWait
    <2> QED
      BY <1>13, <2>1 DEF NextIteration, Goto, AbortReachesWaiters, epollVars
  <1>14. CASE UNCHANGED vars
    BY <1>14 DEF vars, InEpollWait, AbortReachesWaiters
  <1> QED
    BY <1>1, <1>2, <1>3, <1>4, <1>5, <1>6, <1>7, <1>8, <1>9, <1>10, <1>11, <1>12,
       <1>13, <1>14
    DEF Next, Environment, Loop

\* The inductive invariant.
THEOREM Inductive == Spec => []IInv
  <1>1. Init => IInv
    <2> SUFFICES ASSUME Init PROVE IInv
      OBVIOUS
    <2>1. TypeOK /\ CountersExact
      BY InitTypes
    <2>2. HasEvent /\ NoStrandedTask /\ AbortReachesWaiters
      BY DEF Init, HasEvent, NoStrandedTask, AbortReachesWaiters
    <2> QED
      BY <2>1, <2>2 DEF IInv
  <1>2. IInv /\ [Next]_vars => IInv'
    <2> SUFFICES ASSUME IInv, [Next]_vars PROVE IInv'
      OBVIOUS
    <2>1. TypeOK' /\ CountersExact'
      BY NextTypes DEF IInv
    <2>2. HasEvent'
      BY NextHasEvent DEF IInv
    <2>3. NoStrandedTask' /\ AbortReachesWaiters'
      BY <2>1, NextNoStrandedTask, NextAbortReaches
    <2> QED
      BY <2>1, <2>2, <2>3 DEF IInv
  <1> QED
    BY <1>1, <1>2, PTL DEF Spec

\* No lost wakeup in io_context.h, for any number of threads and posters.
THEOREM NeverStranded == Spec => []NoStrandedTask
  <1>1. IInv => NoStrandedTask
    BY DEF IInv
  <1> QED
    BY <1>1, Inductive, PTL

\* request_abort's wakeup is never dropped while a thread sleeps.
THEOREM AbortIsHandedOn == Spec => []AbortReachesWaiters
  <1>1. IInv => AbortReachesWaiters
    BY DEF IInv
  <1> QED
    BY <1>1, Inductive, PTL

-----------------------------------------------------------------------------
(* Refinement: the context is an Executor *)

\* A step of one thread changes the abstract status of that thread only.
LEMMA StatusStep ==
    ASSUME TypeOK, TypeOK', NEW t \in Threads,
           \A u \in Threads \ {t} : pc'[u] = pc[u] /\ events'[u] = events[u]
    PROVE  Status' = [Status EXCEPT ![t] = StatusOf(t)']
  <1>1. \A u \in Threads \ {t} : StatusOf(u)' = StatusOf(u)
    BY DEF StatusOf, Busy, Effective
  <1> QED
    BY <1>1 DEF Status

\* Steps outside run() leave every status alone.
LEMMA StatusUnchanged ==
    ASSUME UNCHANGED <<pc, events>>
    PROVE  Status' = Status
  BY DEF Status, StatusOf, Busy, Effective

\* Every step of run() on a thread is a step of that thread in the Executor: the
\* queue steps take or drop the head, and the busy times are exactly the callbacks.
LEMMA LoopRefines ==
    ASSUME TypeOK, TypeOK', HasEvent, NEW t \in Threads, Loop(t)
    PROVE  [Abstract!Next]_Abstract!vars
  <1> USE DEF TypeOK, Abstract!Next, Abstract!vars, Abstract!Becomes, Goto
  <1>s. Status[t] = StatusOf(t)
    BY DEF Status
  <1>1. CASE RunTask(t)
    <2>1. StatusOf(t) = "idle" /\ StatusOf(t)' = "busy"
      BY <1>1 DEF RunTask, StatusOf, Busy
    <2>2. Status' = [Status EXCEPT ![t] = "busy"]
      BY <1>1, <2>1, StatusStep DEF RunTask, localVars
    <2>3. Abstract!Take(t)
      BY <1>1, <1>s, <2>1, <2>2 DEF RunTask, Abstract!Take
    <2> QED
      BY <2>3
  <1>2. CASE FinishTask(t)
    <2>1. StatusOf(t) = "busy" /\ StatusOf(t)' = "idle"
      BY <1>2 DEF FinishTask, StatusOf, Busy
    <2>2. Status' = [Status EXCEPT ![t] = "idle"]
      BY <1>2, <2>1, StatusStep DEF FinishTask, localVars
    <2>3. Abstract!Return(t)
      BY <1>2, <1>s, <2>1, <2>2 DEF FinishTask, Abstract!Return, queueVars
    <2> QED
      BY <2>3
  <1>3. CASE RunAbort(t)
    <2>1. StatusOf(t) = "idle" /\ StatusOf(t)' = "gone"
      BY <1>3 DEF RunAbort, StatusOf, Busy
    <2>2. Status' = [Status EXCEPT ![t] = "gone"]
      BY <1>3, <2>1, StatusStep DEF RunAbort, localVars
    <2>3. Abstract!Quit(t)
      BY <1>3, <1>s, <2>1, <2>2 DEF RunAbort, Abstract!Quit
    <2> QED
      BY <2>3
  <1>4. ASSUME StatusOf(t)' = StatusOf(t), UNCHANGED <<m_task_queue, m_abort_requested>>,
               \A u \in Threads \ {t} : pc'[u] = pc[u] /\ events'[u] = events[u]
        PROVE  [Abstract!Next]_Abstract!vars
    <2>1. Status' = [Status EXCEPT ![t] = Status[t]]
      BY <1>4, <1>s, StatusStep
    <2>2. Status' = Status
      BY <2>1 DEF Status
    <2> QED
      BY <1>4, <2>2
  <1>5. CASE RunWait(t) \/ (\E es \in SUBSET Events : EpollReturn(t, es))
    <2>1. StatusOf(t)' = StatusOf(t)
      BY <1>5 DEF RunWait, EpollReturn, StatusOf, Busy
    <2> QED
      BY <1>4, <1>5, <2>1 DEF RunWait, EpollReturn, queueVars, localVars
  <1>6. CASE LeaveWait(t)
    <2>1. CASE events[t] = {}
      <3>1. StatusOf(t) = "idle" /\ StatusOf(t)' = "gone"
        BY <1>6, <2>1 DEF LeaveWait, StatusOf, Busy
      <3>2. Status' = [Status EXCEPT ![t] = "gone"]
        BY <1>6, <3>1, StatusStep DEF LeaveWait
      <3>3. Abstract!Die(t)
        BY <1>6, <1>s, <3>1, <3>2 DEF LeaveWait, Abstract!Die, queueVars
      <3> QED
        BY <3>3
    <2>2. CASE events[t] # {}
      <3>1. StatusOf(t)' = StatusOf(t)
        BY <1>6, <2>2 DEF LeaveWait, StatusOf, Busy
      <3> QED
        BY <1>4, <1>6, <3>1 DEF LeaveWait, queueVars
    <2> QED
      BY <2>1, <2>2
  <1>7. CASE ReadThreadWaiting(t) \/ ReadAbortRequested(t)
    <2>0. /\ pc[t] \in {"overview", "abortCheck"}
          /\ pc' = [pc EXCEPT ![t] = pc'[t]]
          /\ pc'[t] \in {"abortCheck", "dispatch"}
          /\ UNCHANGED <<m_task_queue, m_abort_requested, events>>
      BY <1>7 DEF ReadThreadWaiting, ReadAbortRequested, queueVars, localVars
    <2>1. CASE pc'[t] = "dispatch" /\ Effective(t) # {}
      <3>1. StatusOf(t) = "idle" /\ StatusOf(t)' = "busy"
        BY <2>0, <2>1 DEF StatusOf, Busy, Effective
      <3>2. Status' = [Status EXCEPT ![t] = "busy"]
        BY <2>0, <3>1, StatusStep
      <3>3. Abstract!HandleEvent(t)
        BY <1>s, <2>0, <3>1, <3>2 DEF Abstract!HandleEvent
      <3> QED
        BY <3>3
    <2>2. CASE ~(pc'[t] = "dispatch" /\ Effective(t) # {})
      <3>1. StatusOf(t)' = StatusOf(t)
        BY <2>0, <2>2 DEF StatusOf, Busy, Effective
      <3> QED
        BY <1>4, <2>0, <3>1
    <2> QED
      BY <2>1, <2>2
  <1>8. CASE \E h \in Handles : Dispatch(t, h)
    <2>0. /\ pc[t] = "dispatch" /\ pc' = pc /\ Effective(t) # {}
          /\ UNCHANGED <<m_task_queue, m_abort_requested>>
          /\ \A u \in Threads \ {t} : events'[u] = events[u]
      BY <1>8 DEF Dispatch, queueVars
    <2>1. CASE Effective(t)' = {}
      <3>1. StatusOf(t) = "busy" /\ StatusOf(t)' = "idle"
        BY <2>0, <2>1 DEF StatusOf, Busy
      <3>2. Status' = [Status EXCEPT ![t] = "idle"]
        BY <2>0, <3>1, StatusStep
      <3>3. Abstract!Return(t)
        BY <1>s, <2>0, <3>1, <3>2 DEF Abstract!Return
      <3> QED
        BY <3>3
    <2>2. CASE Effective(t)' # {}
      <3>1. StatusOf(t)' = StatusOf(t)
        BY <2>0, <2>2 DEF StatusOf, Busy
      <3> QED
        BY <1>4, <2>0, <3>1
    <2> QED
      BY <2>1, <2>2
  <1>9. CASE NextIteration(t)
    <2>1. StatusOf(t)' = StatusOf(t)
      BY <1>9 DEF NextIteration, StatusOf, Busy
    <2> QED
      BY <1>4, <1>9, <2>1 DEF NextIteration, queueVars
  <1> QED
    BY <1>1, <1>2, <1>3, <1>5, <1>6, <1>7, <1>8, <1>9 DEF Loop

\* Safety of ImplementsExecutor: the locked and epoll-driven context only ever takes
\* steps of the Executor, so tasks run in posting order, once each.
THEOREM RefinesExecutor == Spec => Abstract!Spec
  <1>1. Init => Abstract!Init
    <2> SUFFICES ASSUME Init PROVE Abstract!Init
      OBVIOUS
    <2>1. \A t \in Threads : StatusOf(t) = "idle"
      BY DEF Init, StatusOf, Busy
    <2> QED
      BY <2>1 DEF Init, Abstract!Init, Status
  <1>2. IInv /\ IInv' /\ [Next]_vars => [Abstract!Next]_Abstract!vars
    <2> SUFFICES ASSUME IInv, IInv', [Next]_vars PROVE [Abstract!Next]_Abstract!vars
      OBVIOUS
    <2>0. TypeOK /\ TypeOK' /\ HasEvent
      BY DEF IInv
    <2>1. ASSUME NEW a \in Actors, NEW task \in Tasks, post_task(a, task)
          PROVE  Abstract!Post(task)
      <3>1. Status' = Status
        BY <2>1, StatusUnchanged DEF post_task, localVars
      <3> QED
        BY <2>1, <3>1 DEF post_task, Abstract!Post, Range, Abstract!Range
    <2>2. ASSUME NEW a \in Actors, request_abort(a) PROVE Abstract!Abort
      <3>1. Status' = Status
        BY <2>2, StatusUnchanged DEF request_abort, localVars
      <3> QED
        BY <2>2, <3>1 DEF request_abort, Abstract!Abort, queueVars
    <2>3. ASSUME NEW h \in Handles, EventArrives(h) PROVE UNCHANGED Abstract!vars
      <3>1. Status' = Status
        BY <2>3, StatusUnchanged DEF EventArrives, localVars
      <3> QED
        BY <2>3, <3>1 DEF EventArrives, Abstract!vars, queueVars
    <2>4. ASSUME NEW a \in Actors, wakeup_a_thread(a) PROVE UNCHANGED Abstract!vars
      <3>1. Status' = Status
        BY <2>4, StatusUnchanged DEF wakeup_a_thread, localVars
      <3> QED
        BY <2>4, <3>1 DEF wakeup_a_thread, Abstract!vars, queueVars
    <2>5. ASSUME NEW t \in Threads, EpollError(t) PROVE UNCHANGED Abstract!vars
      <3>1. StatusOf(t)' = StatusOf(t)
        BY <2>0, <2>5 DEF EpollError, Goto, TypeOK, StatusOf, Busy
      <3>2. Status' = [Status EXCEPT ![t] = Status[t]]
        BY <2>0, <2>5, <3>1, StatusStep DEF EpollError, Goto, TypeOK, Status
      <3>3. Status' = Status
        BY <3>2 DEF Status
      <3> QED
        BY <2>5, <3>3 DEF EpollError, Abstract!vars, queueVars
    <2>6. CASE UNCHANGED vars
      <3>1. Status' = Status
        BY <2>6, StatusUnchanged DEF vars
      <3> QED
        BY <2>6, <3>1 DEF vars, Abstract!vars
    <2> QED
      BY <2>0, <2>1, <2>2, <2>3, <2>4, <2>5, <2>6, LoopRefines
      DEF Next, Environment, Abstract!Next
  <1> QED
    BY <1>1, <1>2, Inductive, PTL DEF Spec, Abstract!Spec
=============================================================================

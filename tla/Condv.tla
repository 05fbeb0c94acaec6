------------------------------- MODULE Condv -------------------------------
(***************************************************************************)
(* Condv, CondvAwaiter, Mutex and MutexLockAwaiter of mutex.h, used by     *)
(* coroutines that the threads of one context run.                         *)
(*                                                                         *)
(* LockCore appears as the WaitLock it implements, the context as its      *)
(* first-in-first-out run queue.  Popping a node and posting its task is   *)
(* one action: in between nobody else can reach the node.                  *)
(*                                                                         *)
(* An awaiter, a node, lives in a slot of its coroutine's frame.  A loop   *)
(* builds every awaiter in the same slot; SlotsReused says whether         *)
(* coroutines do that.  Frames are never destroyed here.                   *)
(***************************************************************************)
EXTENDS Queue, Functions

CONSTANTS Threads, Coros, Slots, SlotsReused

ASSUME SlotsAssumption == /\ Nodes \subseteq Coros \X Slots
                          /\ NULL \notin Coros
                          /\ SlotsReused \in BOOLEAN

VARIABLES locked, arriving, queue, \* the WaitLock of the Mutex
          m_awaiter_que,           \* the Condv's list
          m_next,                  \* the link of every awaiter's m_node
          m_task_queue,            \* the context's run queue
          state, \* what each coroutine is doing
          used,  \* the slots each coroutine has built an awaiter in
          pc,    \* where each thread is
          coro,  \* the coroutine each thread runs, or locks for
          node   \* on_notify's local

mutexVars == <<locked, arriving, queue>>
listVars == <<m_awaiter_que, m_next>>
threadVars == <<pc, coro, node>>
vars == <<locked, arriving, queue, m_awaiter_que, m_next, m_task_queue, state, used,
          pc, coro, node>>

M == INSTANCE WaitLock WITH Waiters <- Coros

CoroOf(n) == n[1]
NotifyTask(first) == [call |-> "on_notify", arg |-> first]
LockTask(c) == [call |-> "on_callback", arg |-> c]
Tasks == {NotifyTask(n) : n \in Nodes} \cup {LockTask(c) : c \in Coros}

TypeOK ==
    /\ locked \in BOOLEAN /\ arriving \in SUBSET Coros /\ queue \in Seq(Coros)
    /\ m_awaiter_que \in Lists
    /\ m_next \in Links
    /\ m_task_queue \in Seq(Tasks)
    /\ state \in [Coros -> {"away", "user", "locking", "owner", "waiting"}]
    /\ used \in [Coros -> SUBSET Slots]
    /\ pc \in [Threads -> {"idle", "coro", "join", "unlock", "visit", "next"}]
    /\ coro \in [Threads -> Coros \cup {NULL}]
    /\ node \in [Threads -> Pointers]

Init ==
    /\ M!Init
    /\ m_awaiter_que = EmptyList
    /\ m_next = [n \in Nodes |-> NULL]
    /\ m_task_queue = << >>
    /\ state = [c \in Coros |-> "away"]
    /\ used = [c \in Coros |-> {}]
    /\ pc = [t \in Threads |-> "idle"]
    /\ coro = [t \in Threads |-> NULL]
    /\ node = [t \in Threads |-> NULL]

-----------------------------------------------------------------------------
(* What a thread goes on with *)

\* The thread t runs, or locks for, the coroutine c.
With(t, there, c) ==
    /\ pc' = [pc EXCEPT ![t] = there]
    /\ coro' = [coro EXCEPT ![t] = c]
    /\ UNCHANGED node

\* The coroutine is suspended: back to on_notify's loop, or to the context's.
Return(t) == With(t, IF node[t] = NULL THEN "idle" ELSE "next", NULL)

Runs(t, doing) == pc[t] = "coro" /\ state[coro[t]] = doing
Becomes(c, doing) == state' = [state EXCEPT ![c] = doing]

\* Resume a coroutine that is suspended on anything else, for the first time too.
Resume(t, c) ==
    /\ pc[t] = "idle" /\ state[c] = "away"
    /\ Becomes(c, "user") /\ With(t, "coro", c)
    /\ UNCHANGED <<mutexVars, listVars, m_task_queue, used>>

Suspend(t) ==
    /\ Runs(t, "user")
    /\ Becomes(coro[t], "away") /\ Return(t)
    /\ UNCHANGED <<mutexVars, listVars, m_task_queue, used>>

-----------------------------------------------------------------------------
(* Mutex *)

\* MutexLockAwaiter::await_suspend for coroutine c, up to the push of its node.
TryLock(t, c) ==
    \/ M!Lock /\ Becomes(c, "owner") /\ With(t, "coro", c)
    \/ /\ M!Arrive(c) /\ With(t, "join", c)
       /\ state' = [state EXCEPT ![c] = IF @ = "user" THEN "locking" ELSE @]

LockMutex(t) ==
    /\ Runs(t, "user")
    /\ TryLock(t, coro[t])
    /\ UNCHANGED <<listVars, m_task_queue, used>>

JoinMutex(t) ==
    /\ pc[t] = "join"
    /\ M!Join(coro[t]) /\ Return(t)
    /\ UNCHANGED <<listVars, m_task_queue, state, used>>

\* Faulty variant: unlock(false) although the first waiter is going to be resumed.
UnlockEntirely ==
    \/ M!Free /\ UNCHANGED m_task_queue
    \/ M!Release(FALSE) /\ m_task_queue' = Append(m_task_queue, LockTask(Head(queue)))

\* Mutex::unlock: the first waiter owns the mutex and is posted to its context.
Unlock ==
    \/ M!Free /\ UNCHANGED m_task_queue
    \/ M!Release(TRUE) /\ m_task_queue' = Append(m_task_queue, LockTask(Head(queue)))

UnlockMutex(t) ==
    /\ Runs(t, "owner")
    /\ Unlock /\ Becomes(coro[t], "user")
    /\ UNCHANGED <<listVars, used, threadVars>>

-----------------------------------------------------------------------------
(* Condv *)

\* CondvAwaiter::await_suspend: push the node, then unlock.
Wait(t, s) ==
    /\ Runs(t, "owner") /\ <<coro[t], s>> \in Nodes
    /\ SlotsReused \/ s \notin used[coro[t]]
    /\ m_awaiter_que' = PushList(m_awaiter_que, <<coro[t], s>>)
    /\ m_next' = PushLinks(m_awaiter_que, m_next, <<coro[t], s>>)
    /\ used' = [used EXCEPT ![coro[t]] = @ \cup {s}]
    /\ Becomes(coro[t], "waiting") /\ With(t, "unlock", coro[t])
    /\ UNCHANGED <<mutexVars, m_task_queue>>

WaitUnlock(t) ==
    /\ pc[t] = "unlock"
    /\ Unlock /\ Return(t)
    /\ UNCHANGED <<listVars, state, used>>

notify_one(t) ==
    /\ pc[t] = "coro"
    /\ m_awaiter_que.head # NULL
    /\ m_awaiter_que' = PopList(m_awaiter_que, m_next)
    /\ m_next' = [m_next EXCEPT ![m_awaiter_que.head] = NULL]
    /\ m_task_queue' = Append(m_task_queue, NotifyTask(m_awaiter_que.head))
    /\ UNCHANGED <<mutexVars, state, used, threadVars>>

\* Faulty variant: the tail is not reset.
notify_all_keeping_tail(t) ==
    /\ pc[t] = "coro"
    /\ m_awaiter_que.head # NULL
    /\ m_awaiter_que' = [m_awaiter_que EXCEPT !.head = NULL]
    /\ m_task_queue' = Append(m_task_queue, NotifyTask(m_awaiter_que.head))
    /\ UNCHANGED <<mutexVars, m_next, state, used, threadVars>>

notify_all(t) ==
    /\ pc[t] = "coro"
    /\ m_awaiter_que.head # NULL
    /\ m_awaiter_que' = [m_awaiter_que EXCEPT !.head = NULL, !.tail = NULL]
    /\ m_task_queue' = Append(m_task_queue, NotifyTask(m_awaiter_que.head))
    /\ UNCHANGED <<mutexVars, m_next, state, used, threadVars>>

-----------------------------------------------------------------------------
(* The posted tasks: Condv::on_notify and MutexLockAwaiter::on_callback *)

RunTask(t) ==
    /\ pc[t] = "idle" /\ m_task_queue # << >>
    /\ m_task_queue' = Tail(m_task_queue)
    /\ LET task == Head(m_task_queue) IN
       \/ /\ task.call = "on_notify"
          /\ node' = [node EXCEPT ![t] = task.arg]
          /\ pc' = [pc EXCEPT ![t] = "visit"]
          /\ UNCHANGED <<coro, state>>
       \/ /\ task.call = "on_callback"
          /\ Becomes(task.arg, "owner") /\ With(t, "coro", task.arg)
    /\ UNCHANGED <<mutexVars, listVars, used>>

\* Faulty variant: the waiter goes on without locking the mutex again.
VisitUnlocked(t) ==
    /\ pc[t] = "visit"
    /\ Becomes(CoroOf(node[t]), "owner") /\ With(t, "coro", CoroOf(node[t]))
    /\ UNCHANGED <<mutexVars, listVars, m_task_queue, used>>

Visit(t) ==
    /\ pc[t] = "visit"
    /\ TryLock(t, CoroOf(node[t]))
    /\ UNCHANGED <<listVars, m_task_queue, used>>

\* Faulty variant: the walk ends with its first node.
AdvanceToEnd(t) ==
    /\ pc[t] = "next"
    /\ node' = [node EXCEPT ![t] = NULL]
    /\ pc' = [pc EXCEPT ![t] = "idle"]
    /\ UNCHANGED <<mutexVars, listVars, m_task_queue, state, used, coro>>

\* node = node->m_next, after the coroutine of the node has run or may be running.
Advance(t) ==
    /\ pc[t] = "next"
    /\ node' = [node EXCEPT ![t] = m_next[node[t]]]
    /\ pc' = [pc EXCEPT ![t] = IF m_next[node[t]] = NULL THEN "idle" ELSE "visit"]
    /\ UNCHANGED <<mutexVars, listVars, m_task_queue, state, used, coro>>

-----------------------------------------------------------------------------
Leave(t) == UnlockMutex(t) \/ \E s \in Slots : Wait(t, s)
Proceed(t) == JoinMutex(t) \/ WaitUnlock(t) \/ RunTask(t) \/ Visit(t) \/ Advance(t)

Next == \E t \in Threads :
            \/ \E c \in Coros : Resume(t, c)
            \/ Suspend(t) \/ LockMutex(t) \/ notify_one(t) \/ notify_all(t)
            \/ Leave(t) \/ Proceed(t)

Spec == Init /\ [][Next]_vars

\* Threads go on, critical sections end, no coroutine runs for ever without suspending
\* itself, and run() takes a task between its events; nobody has to notify.
FairSpec == Spec /\ \A t \in Threads : /\ WF_vars(Proceed(t)) /\ WF_vars(Leave(t))
                                       /\ SF_vars(Suspend(t)) /\ SF_vars(RunTask(t))

-----------------------------------------------------------------------------
(* Properties *)

\* The mutex has one holder while it is locked and none otherwise: a coroutine in its
\* critical section, one that is enlisted and about to unlock, or one the mutex was
\* handed to, whose task is still queued.
OneHolder ==
    LET holders == {<<"coro", c>> : c \in {d \in Coros : state[d] = "owner"}}
                   \cup {<<"unlock", t>> : t \in {u \in Threads : pc[u] = "unlock"}}
                   \cup {<<"task", i>> : i \in {j \in DOMAIN m_task_queue :
                                                   m_task_queue[j].call = "on_callback"}}
    IN  Cardinality(holders) = IF locked THEN 1 ELSE 0

\* The nodes a thread in on_notify has yet to visit.
Ahead(t) ==
    IF node[t] = NULL THEN << >>
    ELSE Chain(m_next, IF pc[t] = "visit" THEN node[t] ELSE m_next[node[t]])

Listed == Chain(m_next, m_awaiter_que.head)

\* The places a waiter of the Condv or the Mutex can be in.
Places(c) ==
    {<<"condv", i>> : i \in {j \in DOMAIN Listed : CoroOf(Listed[j]) = c}}
    \cup {<<"task", i>> : i \in {j \in DOMAIN m_task_queue :
             \/ m_task_queue[j] = LockTask(c)
             \/ /\ m_task_queue[j].call = "on_notify"
                /\ \E n \in Range(Chain(m_next, m_task_queue[j].arg)) : CoroOf(n) = c}}
    \cup {<<"on_notify", t>> : t \in {u \in Threads :
             \E n \in Range(Ahead(u)) : CoroOf(n) = c}}
    \cup {<<"join", t>> : t \in {u \in Threads : pc[u] = "join" /\ coro[u] = c}}
    \cup {<<"mutex", i>> : i \in {j \in DOMAIN queue : queue[j] = c}}

\* No waiter is lost and none is reachable twice, through all the lists a node is
\* linked in: only so is every notified waiter resumed, and resumed once.
WaitersReachable ==
    \A c \in Coros :
        Cardinality(Places(c)) = IF state[c] \in {"waiting", "locking"} THEN 1 ELSE 0

WaitingCoros == [i \in DOMAIN Listed |-> CoroOf(Listed[i])]
Unnotified == {c \in Coros : state[c] = "waiting"} \ Range(WaitingCoros)
Owners == {c \in Coros : \/ state[c] = "owner"
                         \/ \E t \in Threads : pc[t] = "unlock" /\ coro[t] = c}

Owner == IF Owners = {} THEN NULL ELSE CHOOSE c \in Owners : TRUE

Abstract == INSTANCE Monitor WITH
    Nobody <- NULL, owner <- Owner,
    waiting <- WaitingCoros, notified <- Unnotified

\* Mutex and Condv are a monitor: a coroutine that waits is in the list before the
\* mutex can be taken by the coroutine that will notify it, it goes on only when it
\* was notified and has the mutex to itself, and the list is first in first out.
ImplementsMonitor == Abstract!Spec

\* A notified waiter gets the mutex, if the mutex keeps being used at all.
NotifiedGoesOn ==
    \A c \in Coros : []<>locked /\ []<>~locked => (c \in Unnotified ~> state[c] = "owner")

\* A popped node is dangling: on_notify never comes to a node that is in the list,
\* whose coroutine nobody has notified.
VisitedNodeDangling ==
    \A t \in Threads : pc[t] = "visit" => node[t] \notin Range(Listed)
=============================================================================

----------------------------- MODULE CondvProofs -----------------------------
(* Theorems about Condv for any threads, coroutines and slots. *)
EXTENDS Condv, QueueProofs, TLAPS

\* A thread in on_notify has a node, and one that runs or locks for a coroutine has it.
Locals ==
    \A t \in Threads :
        /\ pc[t] \in {"visit", "next"} => node[t] \in Nodes
        /\ pc[t] \in {"coro", "join", "unlock"} => coro[t] \in Coros

\* The holders of OneHolder, by kind.
Owning == {c \in Coros : state[c] = "owner"}
Unlocking == {t \in Threads : pc[t] = "unlock"}
HandedOver == {i \in 1..Len(m_task_queue) : m_task_queue[i].call = "on_callback"}

Sole ==
    IF locked
    THEN \/ Unlocking = {} /\ HandedOver = {} /\ \E c : Owning = {c}
         \/ Owning = {} /\ HandedOver = {} /\ \E t : Unlocking = {t}
         \/ Owning = {} /\ Unlocking = {} /\ \E i : HandedOver = {i}
    ELSE Owning = {} /\ Unlocking = {} /\ HandedOver = {}

IInv == TypeOK /\ Locals /\ Sole

\* What a task in the queue calls.
LEMMA TaskKinds ==
    \A task \in Tasks :
        \/ task.call = "on_notify" /\ task.arg \in Nodes
        \/ task.call = "on_callback" /\ task.arg \in Coros
  BY DEF Tasks, NotifyTask, LockTask

LEMMA PostedKinds ==
    /\ \A n \in Nodes : NotifyTask(n) \in Tasks /\ NotifyTask(n).call = "on_notify"
    /\ \A c \in Coros : LockTask(c) \in Tasks /\ LockTask(c).call = "on_callback"
  BY DEF Tasks, NotifyTask, LockTask

-----------------------------------------------------------------------------
\* Where TryLock and Return lead, and what they leave as it is.
LEMMA ReturnTypes ==
    ASSUME TypeOK, Locals, NEW t \in Threads, Return(t)
    PROVE  /\ pc' \in [Threads -> {"idle", "coro", "join", "unlock", "visit", "next"}]
           /\ coro' \in [Threads -> Coros \cup {NULL}]
           /\ Locals' /\ UNCHANGED node
           /\ pc' = [pc EXCEPT ![t] = pc'[t]] /\ pc'[t] \in {"idle", "next"}
  BY DEF TypeOK, Locals, Return, With, Pointers

LEMMA WithTypes ==
    ASSUME TypeOK, Locals, NEW t \in Threads, NEW c \in Coros,
           NEW there \in {"coro", "join", "unlock"}, With(t, there, c)
    PROVE  /\ pc' = [pc EXCEPT ![t] = there]
           /\ pc' \in [Threads -> {"idle", "coro", "join", "unlock", "visit", "next"}]
           /\ coro' \in [Threads -> Coros \cup {NULL}]
           /\ Locals' /\ UNCHANGED node
  BY DEF TypeOK, Locals, With

LEMMA TryLockTypes ==
    ASSUME TypeOK, Locals, NEW t \in Threads, NEW c \in Coros, TryLock(t, c)
    PROVE  /\ locked' \in BOOLEAN /\ arriving' \in SUBSET Coros /\ queue' \in Seq(Coros)
           /\ state' \in [Coros -> {"away", "user", "locking", "owner", "waiting"}]
           /\ pc' \in [Threads -> {"idle", "coro", "join", "unlock", "visit", "next"}]
           /\ coro' \in [Threads -> Coros \cup {NULL}]
           /\ Locals' /\ UNCHANGED node
  <1>1. CASE M!Lock /\ Becomes(c, "owner") /\ With(t, "coro", c)
    BY <1>1, WithTypes DEF TypeOK, M!Lock, Becomes
  <1>2. CASE M!Arrive(c) /\ With(t, "join", c) /\ state' = [state EXCEPT ![c] = IF @ = "user" THEN "locking" ELSE @]
    BY <1>2, WithTypes DEF TypeOK, M!Arrive
  <1> QED BY <1>1, <1>2 DEF TryLock

\* Whoever had the mutex has it no more: it is free, or the first waiter's task has it.
LEMMA UnlockHands ==
    ASSUME TypeOK, Unlock
    PROVE  /\ locked' \in BOOLEAN /\ arriving' \in SUBSET Coros /\ queue' \in Seq(Coros)
           /\ m_task_queue' \in Seq(Tasks)
           /\ HandedOver = {} =>
                 IF locked' THEN \E i : HandedOver' = {i} ELSE HandedOver' = {}
  <1>1. CASE M!Free /\ UNCHANGED m_task_queue
    <2>1. HandedOver' = HandedOver /\ ~locked' BY <1>1 DEF HandedOver, M!Free
    <2>2. locked' \in BOOLEAN /\ arriving' \in SUBSET Coros /\ queue' \in Seq(Coros)
      BY <1>1 DEF TypeOK, M!Free
    <2> QED BY <1>1, <2>1, <2>2 DEF TypeOK
  <1>2. CASE M!Release(TRUE) /\ m_task_queue' = Append(m_task_queue, LockTask(Head(queue)))
    <2>1. Head(queue) \in Coros /\ Tail(queue) \in Seq(Coros)
      BY <1>2 DEF TypeOK, M!Release
    <2>2. LockTask(Head(queue)) \in Tasks /\ LockTask(Head(queue)).call = "on_callback"
      BY <2>1, PostedKinds
    <2>3. /\ m_task_queue' \in Seq(Tasks) /\ Len(m_task_queue') = Len(m_task_queue) + 1
          /\ m_task_queue'[Len(m_task_queue) + 1].call = "on_callback"
          /\ \A i \in 1..Len(m_task_queue) : m_task_queue'[i] = m_task_queue[i]
      BY <1>2, <2>2 DEF TypeOK
    <2>4. ASSUME HandedOver = {} PROVE HandedOver' = {Len(m_task_queue) + 1}
      <3>1. \A i \in 1..Len(m_task_queue) : m_task_queue'[i].call # "on_callback"
        BY <2>3, <2>4 DEF HandedOver
      <3>2. Len(m_task_queue) \in Nat BY DEF TypeOK
      <3>3. \A i \in 1..Len(m_task_queue') :
               m_task_queue'[i].call = "on_callback" <=> i = Len(m_task_queue) + 1
        BY <2>3, <3>1, <3>2
      <3> QED BY <2>3, <3>2, <3>3 DEF HandedOver
    <2>5. locked' = TRUE /\ arriving' \in SUBSET Coros /\ queue' \in Seq(Coros)
      BY <1>2, <2>1 DEF TypeOK, M!Release
    <2> QED BY <2>3, <2>4, <2>5
  <1> QED BY <1>1, <1>2 DEF Unlock

LEMMA NextTypes ==
    ASSUME TypeOK, Locals, [Next]_vars
    PROVE  TypeOK' /\ Locals'
  <1> USE NodesAssumption, SlotsAssumption DEF Runs, Becomes, mutexVars, listVars, threadVars
  <1> DEFINE Doings == {"away", "user", "locking", "owner", "waiting"}
  <1>1. ASSUME NEW t \in Threads, NEW c \in Coros, Resume(t, c) PROVE TypeOK' /\ Locals'
    BY <1>1, WithTypes DEF TypeOK, Resume
  <1>2. ASSUME NEW t \in Threads, Suspend(t) PROVE TypeOK' /\ Locals'
    BY <1>2, ReturnTypes DEF TypeOK, Suspend
  <1>3. ASSUME NEW t \in Threads, LockMutex(t) PROVE TypeOK' /\ Locals'
    <2>1. coro[t] \in Coros BY <1>3 DEF LockMutex, Locals
    <2> QED BY <1>3, <2>1, TryLockTypes DEF TypeOK, LockMutex
  <1>4. ASSUME NEW t \in Threads, JoinMutex(t) PROVE TypeOK' /\ Locals'
    <2>1. coro[t] \in Coros BY <1>4 DEF JoinMutex, Locals
    <2>2. arriving' \in SUBSET Coros /\ queue' \in Seq(Coros) /\ UNCHANGED locked
      BY <1>4, <2>1 DEF JoinMutex, TypeOK, M!Join
    <2> QED BY <1>4, <2>2, ReturnTypes DEF TypeOK, JoinMutex
  <1>5. ASSUME NEW t \in Threads, UnlockMutex(t) PROVE TypeOK' /\ Locals'
    <2>1. state' \in [Coros -> Doings] BY <1>5 DEF TypeOK, UnlockMutex
    <2> QED BY <1>5, <2>1, UnlockHands DEF TypeOK, Locals, UnlockMutex
  <1>6. ASSUME NEW t \in Threads, NEW s \in Slots, Wait(t, s) PROVE TypeOK' /\ Locals'
    <2>1. coro[t] \in Coros BY <1>6 DEF Wait, Locals
    <2>2. state' \in [Coros -> Doings] /\ used' \in [Coros -> SUBSET Slots]
      BY <1>6, <2>1 DEF TypeOK, Wait
    <2>3. m_awaiter_que' \in Lists /\ m_next' \in Links
      BY <1>6 DEF TypeOK, Wait, Lists, Links, Pointers, PushList, PushLinks
    <2> QED BY <1>6, <2>1, <2>2, <2>3, WithTypes DEF TypeOK, Wait
  <1>7. ASSUME NEW t \in Threads, WaitUnlock(t) PROVE TypeOK' /\ Locals'
    BY <1>7, ReturnTypes, UnlockHands DEF TypeOK, WaitUnlock
  <1>8. ASSUME NEW t \in Threads, notify_one(t) \/ notify_all(t) PROVE TypeOK' /\ Locals'
    <2>1. m_awaiter_que.head \in Nodes BY <1>8 DEF TypeOK, Lists, Pointers, notify_one, notify_all
    <2>2. ASSUME notify_one(t) PROVE m_awaiter_que' \in Lists /\ m_next' \in Links
      <3>1. m_next' \in Links
        BY <2>1, <2>2 DEF TypeOK, Links, Pointers, notify_one
      <3>2. m_awaiter_que' \in Lists
        BY <2>1, <2>2 DEF TypeOK, Lists, Links, Pointers, PopList, notify_one
      <3> QED BY <2>2, <3>1, <3>2 DEF notify_one
    <2>3. ASSUME notify_all(t) PROVE m_awaiter_que' \in Lists /\ m_next' \in Links
      <3>1. m_awaiter_que' \in Lists
        BY <2>3 DEF TypeOK, Lists, Pointers, notify_all
      <3> QED BY <2>3, <3>1 DEF TypeOK, notify_all
    <2>4. m_task_queue' \in Seq(Tasks)
      <3>1. NotifyTask(m_awaiter_que.head) \in Tasks BY <2>1, PostedKinds
      <3>2. m_task_queue' = Append(m_task_queue, NotifyTask(m_awaiter_que.head))
        BY <1>8 DEF notify_one, notify_all
      <3> QED BY <3>1, <3>2 DEF TypeOK
    <2>5. m_awaiter_que' \in Lists /\ m_next' \in Links BY <1>8, <2>2, <2>3
    <2> QED BY <1>8, <2>4, <2>5 DEF TypeOK, Locals, notify_one, notify_all
  <1>9. ASSUME NEW t \in Threads, RunTask(t) PROVE TypeOK' /\ Locals'
    <2> DEFINE task == Head(m_task_queue)
    <2>1. task \in Tasks /\ m_task_queue' \in Seq(Tasks) BY <1>9 DEF TypeOK, RunTask
    <2> HIDE DEF task
    <2>2. CASE /\ task.call = "on_notify" /\ node' = [node EXCEPT ![t] = task.arg]
               /\ pc' = [pc EXCEPT ![t] = "visit"] /\ UNCHANGED <<coro, state>>
      <3>1. task.arg \in Nodes BY <2>1, <2>2, TaskKinds
      <3> QED BY <1>9, <2>1, <2>2, <3>1 DEF TypeOK, Locals, RunTask, Pointers
    <2>3. CASE task.call = "on_callback" /\ Becomes(task.arg, "owner") /\ With(t, "coro", task.arg)
      <3>1. task.arg \in Coros BY <2>1, <2>3, TaskKinds
      <3>2. state' \in [Coros -> Doings] BY <2>3, <3>1 DEF TypeOK
      <3> QED BY <1>9, <2>1, <2>3, <3>1, <3>2, WithTypes DEF TypeOK, RunTask
    <2> QED BY <1>9, <2>2, <2>3 DEF RunTask, task
  <1>10. ASSUME NEW t \in Threads, Visit(t) PROVE TypeOK' /\ Locals'
    <2>1. CoroOf(node[t]) \in Coros BY <1>10 DEF Visit, Locals, CoroOf
    <2> QED BY <1>10, <2>1, TryLockTypes DEF TypeOK, Visit
  <1>11. ASSUME NEW t \in Threads, Advance(t) PROVE TypeOK' /\ Locals'
    <2>1. m_next[node[t]] \in Pointers BY <1>11 DEF Advance, Locals, TypeOK, Links
    <2> QED BY <1>11, <2>1 DEF TypeOK, Locals, Advance, Pointers
  <1>12. CASE UNCHANGED vars
    BY <1>12 DEF vars, TypeOK, Locals
  <1> QED
    BY <1>1, <1>2, <1>3, <1>4, <1>5, <1>6, <1>7, <1>8, <1>9, <1>10, <1>11, <1>12
    DEF Next, Leave, Proceed

-----------------------------------------------------------------------------
\* Steps that neither give nor take the mutex.
LEMMA HoldersStay ==
    ASSUME Sole, locked' = locked, Owning' = Owning, Unlocking' = Unlocking,
           HandedOver' = HandedOver
    PROVE  Sole'
  BY DEF Sole

LEMMA TryLockSole ==
    ASSUME TypeOK, Locals, Sole, NEW t \in Threads, NEW c \in Coros, TryLock(t, c),
           pc[t] # "unlock", UNCHANGED m_task_queue
    PROVE  Sole'
  <1>1. HandedOver' = HandedOver BY DEF HandedOver
  <1>2. CASE M!Lock /\ Becomes(c, "owner") /\ With(t, "coro", c)
    <2>1. Unlocking' = Unlocking BY <1>2, WithTypes DEF TypeOK, Unlocking
    <2>2. Owning = {} /\ Unlocking = {} /\ HandedOver = {} BY <1>2 DEF Sole, M!Lock
    <2>3. Owning' = {c} BY <1>2, <2>2 DEF TypeOK, Owning, Becomes
    <2>4. locked' BY <1>2 DEF M!Lock
    <2> QED BY <1>1, <2>1, <2>2, <2>3, <2>4 DEF Sole
  <1>3. CASE /\ M!Arrive(c) /\ With(t, "join", c)
             /\ state' = [state EXCEPT ![c] = IF @ = "user" THEN "locking" ELSE @]
    <2>1. Unlocking' = Unlocking BY <1>3, WithTypes DEF TypeOK, Unlocking
    <2>2. Owning' = Owning BY <1>3 DEF TypeOK, Owning
    <2>3. locked' = locked BY <1>3 DEF M!Arrive
    <2> QED BY <1>1, <2>1, <2>2, <2>3, HoldersStay
  <1> QED BY <1>2, <1>3 DEF TryLock

LEMMA NextSole ==
    ASSUME IInv, [Next]_vars
    PROVE  Sole'
  <1> USE DEF IInv
  <1>1. ASSUME NEW t \in Threads, NEW c \in Coros, Resume(t, c) PROVE Sole'
    <2>1. Unlocking' = Unlocking BY <1>1, WithTypes DEF TypeOK, Resume, Unlocking
    <2>2. Owning' = Owning /\ HandedOver' = HandedOver /\ locked' = locked
      BY <1>1 DEF TypeOK, Resume, Becomes, Owning, HandedOver, mutexVars
    <2> QED BY <2>1, <2>2, HoldersStay
  <1>2. ASSUME NEW t \in Threads, Suspend(t) PROVE Sole'
    <2>1. Unlocking' = Unlocking BY <1>2, ReturnTypes DEF TypeOK, Suspend, Runs, Unlocking
    <2>2. Owning' = Owning /\ HandedOver' = HandedOver /\ locked' = locked
      BY <1>2 DEF TypeOK, Suspend, Runs, Becomes, Owning, HandedOver, mutexVars
    <2> QED BY <2>1, <2>2, HoldersStay
  <1>3. ASSUME NEW t \in Threads, LockMutex(t) \/ Visit(t) PROVE Sole'
    <2>2. CASE LockMutex(t)
      <3>1. coro[t] \in Coros BY <2>2 DEF LockMutex, Runs, Locals
      <3> QED BY <2>2, <3>1, TryLockSole DEF LockMutex, Runs
    <2>3. CASE Visit(t)
      <3>1. CoroOf(node[t]) \in Coros BY <2>3, SlotsAssumption DEF Visit, Locals, CoroOf
      <3> QED BY <2>3, <3>1, TryLockSole DEF Visit
    <2> QED BY <1>3, <2>2, <2>3
  <1>4. ASSUME NEW t \in Threads, JoinMutex(t) PROVE Sole'
    <2>1. Unlocking' = Unlocking BY <1>4, ReturnTypes DEF TypeOK, JoinMutex, Unlocking
    <2>2. Owning' = Owning /\ HandedOver' = HandedOver /\ locked' = locked
      BY <1>4 DEF JoinMutex, Owning, HandedOver, M!Join
    <2> QED BY <2>1, <2>2, HoldersStay
  <1>5. ASSUME NEW t \in Threads, UnlockMutex(t) PROVE Sole'
    <2>1. locked /\ Unlocking = {} /\ HandedOver = {} /\ Owning = {coro[t]}
      <3>1. coro[t] \in Owning BY <1>5 DEF UnlockMutex, Runs, Locals, Owning
      <3> QED BY <3>1 DEF Sole
    <2>2. Owning' = {}
      BY <1>5, <2>1 DEF TypeOK, UnlockMutex, Becomes, Owning
    <2>3. Unlocking' = Unlocking
      BY <1>5 DEF UnlockMutex, threadVars, Unlocking
    <2>4. Unlock BY <1>5 DEF UnlockMutex
    <2> QED BY <2>1, <2>2, <2>3, <2>4, UnlockHands DEF Sole
  <1>6. ASSUME NEW t \in Threads, NEW s \in Slots, Wait(t, s) PROVE Sole'
    <2>1. locked /\ Unlocking = {} /\ HandedOver = {} /\ Owning = {coro[t]}
      <3>1. coro[t] \in Owning BY <1>6 DEF Wait, Runs, Locals, Owning
      <3> QED BY <3>1 DEF Sole
    <2>2. Owning' = {}
      BY <1>6, <2>1 DEF TypeOK, Wait, Becomes, Owning
    <2>3. Unlocking' = {t}
      BY <1>6, <2>1 DEF TypeOK, Wait, With, Unlocking
    <2>4. HandedOver' = HandedOver /\ locked' = locked
      BY <1>6 DEF Wait, mutexVars, HandedOver
    <2> QED BY <2>1, <2>2, <2>3, <2>4 DEF Sole
  <1>7. ASSUME NEW t \in Threads, WaitUnlock(t) PROVE Sole'
    <2>1. locked /\ Owning = {} /\ HandedOver = {} /\ Unlocking = {t}
      <3>1. t \in Unlocking BY <1>7 DEF WaitUnlock, Unlocking
      <3> QED BY <3>1 DEF Sole
    <2>2. Unlocking' = {}
      BY <1>7, <2>1, ReturnTypes DEF TypeOK, WaitUnlock, Unlocking
    <2>3. Owning' = Owning /\ Unlock
      BY <1>7 DEF WaitUnlock, Owning
    <2> QED BY <2>1, <2>2, <2>3, UnlockHands DEF Sole
  <1>8. ASSUME NEW t \in Threads, notify_one(t) \/ notify_all(t) PROVE Sole'
    <2>1. m_awaiter_que.head \in Nodes
      BY <1>8 DEF TypeOK, Lists, Pointers, notify_one, notify_all
    <2>2. /\ m_task_queue' = Append(m_task_queue, NotifyTask(m_awaiter_que.head))
          /\ UNCHANGED <<locked, state, pc>>
      BY <1>8 DEF notify_one, notify_all, mutexVars, threadVars
    <2>3. NotifyTask(m_awaiter_que.head) \in Tasks /\ NotifyTask(m_awaiter_que.head).call # "on_callback"
      BY <2>1, PostedKinds
    <2>4. /\ Len(m_task_queue') = Len(m_task_queue) + 1 /\ Len(m_task_queue) \in Nat
          /\ m_task_queue'[Len(m_task_queue) + 1].call # "on_callback"
          /\ \A i \in 1..Len(m_task_queue) : m_task_queue'[i] = m_task_queue[i]
      BY <2>2, <2>3 DEF TypeOK
    <2>5. HandedOver' = HandedOver BY <2>4 DEF HandedOver
    <2> QED BY <2>2, <2>5, HoldersStay DEF Owning, Unlocking
  <1>9. ASSUME NEW t \in Threads, RunTask(t) PROVE Sole'
    <2> DEFINE task == Head(m_task_queue)
    <2>1. /\ task = m_task_queue[1] /\ task \in Tasks /\ Len(m_task_queue) \in Nat \ {0}
          /\ Len(m_task_queue') = Len(m_task_queue) - 1
          /\ \A i \in 1..Len(m_task_queue') : m_task_queue'[i] = m_task_queue[i + 1]
      BY <1>9 DEF TypeOK, RunTask
    <2>2. locked' = locked /\ pc[t] = "idle" BY <1>9 DEF RunTask, mutexVars
    <2> HIDE DEF task
    <2>3. CASE /\ task.call = "on_notify" /\ pc' = [pc EXCEPT ![t] = "visit"] /\ UNCHANGED state
      <3>1. Owning' = Owning /\ Unlocking' = Unlocking
        BY <2>2, <2>3 DEF TypeOK, Owning, Unlocking
      <3>2. ASSUME NEW i, HandedOver = {i} PROVE HandedOver' = {i - 1}
        <4>1. i \in 1..Len(m_task_queue) /\ i # 1 /\ m_task_queue[i].call = "on_callback"
              /\ \A j \in 1..Len(m_task_queue) : m_task_queue[j].call = "on_callback" => j = i
          BY <2>1, <2>3, <3>2 DEF HandedOver
        <4>2. \A j \in 1..Len(m_task_queue') : m_task_queue'[j].call = "on_callback" <=> j = i - 1
          BY <2>1, <4>1
        <4>3. i - 1 \in 1..Len(m_task_queue') BY <2>1, <4>1
        <4> QED BY <4>2, <4>3 DEF HandedOver
      <3>3. HandedOver = {} => HandedOver' = {} BY <2>1 DEF HandedOver
      <3> QED BY <2>2, <3>1, <3>2, <3>3 DEF Sole
    <2>4. CASE task.call = "on_callback" /\ Becomes(task.arg, "owner") /\ With(t, "coro", task.arg)
      <3>1. task.arg \in Coros BY <2>1, <2>4, TaskKinds
      <3>2. 1 \in HandedOver BY <2>1, <2>4 DEF HandedOver
      <3>3. locked /\ Owning = {} /\ Unlocking = {} /\ HandedOver = {1} BY <3>2 DEF Sole
      <3>4. Owning' = {task.arg} BY <2>4, <3>1, <3>3 DEF TypeOK, Becomes, Owning
      <3>5. Unlocking' = {} BY <2>4, <3>1, <3>3, WithTypes DEF TypeOK, Unlocking
      <3>6. HandedOver' = {}
        <4>1. \A i \in 1..Len(m_task_queue) : m_task_queue[i].call = "on_callback" => i = 1
          BY <3>3 DEF HandedOver
        <4> QED BY <2>1, <4>1 DEF HandedOver
      <3> QED BY <2>2, <3>3, <3>4, <3>5, <3>6 DEF Sole
    <2> QED BY <1>9, <2>3, <2>4 DEF RunTask, task
  <1>10. ASSUME NEW t \in Threads, Advance(t) PROVE Sole'
    <2>1. Unlocking' = Unlocking BY <1>10 DEF TypeOK, Advance, Unlocking
    <2>2. Owning' = Owning /\ HandedOver' = HandedOver /\ locked' = locked
      BY <1>10 DEF Advance, Owning, HandedOver, mutexVars
    <2> QED BY <2>1, <2>2, HoldersStay
  <1>11. CASE UNCHANGED vars
    BY <1>11 DEF vars, Sole, Owning, Unlocking, HandedOver
  <1> QED
    BY <1>1, <1>2, <1>3, <1>4, <1>5, <1>6, <1>7, <1>8, <1>9, <1>10, <1>11
    DEF Next, Leave, Proceed

LEMMA InitIInv == Init => IInv
  <1> SUFFICES ASSUME Init PROVE IInv
    OBVIOUS
  <1> USE NodesAssumption DEF Init, M!Init
  <1>1. /\ arriving \in SUBSET Coros /\ queue \in Seq(Coros) /\ m_task_queue \in Seq(Tasks)
        /\ m_awaiter_que \in Lists /\ m_next \in Links
    BY DEF EmptyList, Lists, Links, Pointers
  <1>2. /\ state \in [Coros -> {"away", "user", "locking", "owner", "waiting"}]
        /\ used \in [Coros -> SUBSET Slots]
        /\ pc \in [Threads -> {"idle", "coro", "join", "unlock", "visit", "next"}]
        /\ coro \in [Threads -> Coros \cup {NULL}] /\ node \in [Threads -> Pointers]
    BY DEF Pointers
  <1>3. locked \in BOOLEAN BY Zenon
  <1>4. Locals BY DEF Locals
  <1>5. ~locked /\ Owning = {} /\ Unlocking = {} /\ HandedOver = {}
    BY DEF Owning, Unlocking, HandedOver
  <1>6. Sole BY <1>5 DEF Sole
  <1> HIDE DEF Init, M!Init
  <1>7. TypeOK BY <1>1, <1>2, <1>3 DEF TypeOK
  <1> QED BY <1>4, <1>6, <1>7 DEF IInv

THEOREM Inductive == Spec => []IInv
  <1>1. IInv /\ [Next]_vars => IInv'
    BY NextTypes, NextSole DEF IInv
  <1> QED BY InitIInv, <1>1, PTL DEF Spec

-----------------------------------------------------------------------------
\* Every variable of the mutex, the lists and the threads keeps its type.
THEOREM TypeCorrect == Spec => []TypeOK
  BY Inductive, PTL DEF IInv

\* For any threads and coroutines the mutex has one holder while it is locked, counting
\* the one that is about to unlock and the one it was handed to, and none otherwise.
THEOREM MutexHeldOnce == Spec => []OneHolder
  <1>1. ASSUME IInv PROVE OneHolder
    <2> DEFINE owning == {<<"coro", c>> : c \in {d \in Coros : state[d] = "owner"}}
               unlocking == {<<"unlock", t>> : t \in {u \in Threads : pc[u] = "unlock"}}
               handed == {<<"task", i>> : i \in {j \in DOMAIN m_task_queue :
                                                   m_task_queue[j].call = "on_callback"}}
    <2>1. owning = {<<"coro", c>> : c \in Owning} /\ unlocking = {<<"unlock", t>> : t \in Unlocking}
      BY DEF Owning, Unlocking
    <2>2. handed = {<<"task", i>> : i \in HandedOver}
      <3>1. DOMAIN m_task_queue = 1..Len(m_task_queue) BY <1>1 DEF IInv, TypeOK
      <3> QED BY <3>1 DEF HandedOver
    <2> HIDE DEF owning, unlocking, handed
    <2>3. CASE ~locked
      <3>1. owning \cup unlocking \cup handed = {}
        BY <1>1, <2>1, <2>2, <2>3 DEF IInv, Sole
      <3> QED BY <2>3, <3>1, FS_EmptySet DEF OneHolder, owning, unlocking, handed
    <2>4. CASE locked
      <3>1. \E h : owning \cup unlocking \cup handed = {h}
        <4>1. CASE Unlocking = {} /\ HandedOver = {} /\ \E c : Owning = {c}
          <5>1. PICK c : Owning = {c} BY <4>1
          <5>2. owning = {<<"coro", c>>} BY <2>1, <2>2, <5>1
          <5>3. unlocking = {} /\ handed = {} BY <2>1, <2>2, <4>1
          <5> QED BY <5>2, <5>3
        <4>2. CASE Owning = {} /\ HandedOver = {} /\ \E t : Unlocking = {t}
          <5>1. PICK t : Unlocking = {t} BY <4>2
          <5>2. unlocking = {<<"unlock", t>>} BY <2>1, <2>2, <5>1
          <5>3. owning = {} /\ handed = {} BY <2>1, <2>2, <4>2
          <5> QED BY <5>2, <5>3
        <4>3. CASE Owning = {} /\ Unlocking = {} /\ \E i : HandedOver = {i}
          <5>1. PICK i : HandedOver = {i} BY <4>3
          <5>2. handed = {<<"task", i>>} BY <2>1, <2>2, <5>1
          <5>3. owning = {} /\ unlocking = {} BY <2>1, <2>2, <4>3
          <5> QED BY <5>2, <5>3
        <4> QED BY <1>1, <2>4, <4>1, <4>2, <4>3 DEF IInv, Sole
      <3>2. Cardinality(owning \cup unlocking \cup handed) = 1 BY <3>1, FS_Singleton
      <3> QED BY <2>4, <3>2 DEF OneHolder, owning, unlocking, handed
    <2> QED BY <2>3, <2>4
  <1> QED BY <1>1, Inductive, PTL

-----------------------------------------------------------------------------
(* Every waiter in one place, when no awaiter is built where another was *)

\* The nodes of a list belong to different coroutines, which wait.
WaitsAs(doing, slots, q) ==
    /\ \A i \in 1..Len(q) : doing[CoroOf(q[i])] = "waiting" /\ q[i][2] \in slots[CoroOf(q[i])]
    /\ \A i, j \in 1..Len(q) : CoroOf(q[i]) = CoroOf(q[j]) => i = j
Waits(q) == WaitsAs(state, used, q)

Chained(p) == Path(m_next, p, Chain(m_next, p)) /\ Waits(Chain(m_next, p))

\* The node from which a thread in on_notify goes on.
Start(t) ==
    IF node[t] = NULL THEN NULL ELSE IF pc[t] = "visit" THEN node[t] ELSE m_next[node[t]]

Holds(q, c) == \E i \in 1..Len(q) : CoroOf(q[i]) = c
TaskHolds(next, task, c) ==
    task = LockTask(c) \/ (task.call = "on_notify" /\ Holds(Chain(next, task.arg), c))

\* The places of c: in the Condv's list, in the tasks, ahead of on_notify, in the mutex.
InList(c) == {i \in 1..Len(Listed) : CoroOf(Listed[i]) = c}
InTask(c) == {i \in 1..Len(m_task_queue) : TaskHolds(m_next, m_task_queue[i], c)}
InWalk(c) == {t \in Threads : Holds(Chain(m_next, Start(t)), c)}
InJoin(c) == {t \in Threads : pc[t] = "join" /\ coro[t] = c}
InMutex(c) == {i \in 1..Len(queue) : queue[i] = c}

One(S) == \E x \in S : S = {x}
Zero(L, T, W, J, Q) == L = {} /\ T = {} /\ W = {} /\ J = {} /\ Q = {}
Sole5(L, T, W, J, Q) ==
    \/ One(L) /\ T = {} /\ W = {} /\ J = {} /\ Q = {}
    \/ L = {} /\ One(T) /\ W = {} /\ J = {} /\ Q = {}
    \/ L = {} /\ T = {} /\ One(W) /\ J = {} /\ Q = {}
    \/ L = {} /\ T = {} /\ W = {} /\ One(J) /\ Q = {}
    \/ L = {} /\ T = {} /\ W = {} /\ J = {} /\ One(Q)

Nowhere(c) == Zero(InList(c), InTask(c), InWalk(c), InJoin(c), InMutex(c))
Somewhere(c) == Sole5(InList(c), InTask(c), InWalk(c), InJoin(c), InMutex(c))
WaitsSomewhere(c) == state[c] \in {"waiting", "locking"}

Linked ==
    /\ Represents(m_awaiter_que, m_next, Listed) /\ Waits(Listed)
    /\ \A i \in 1..Len(m_task_queue) :
          m_task_queue[i].call = "on_notify" => Chained(m_task_queue[i].arg)
    /\ \A t \in Threads : Chained(Start(t))

\* The node on_notify has come from is not in the Condv's list, so its link stays.
Passed ==
    \A t \in Threads :
        /\ pc[t] = "idle" => node[t] = NULL
        /\ node[t] # NULL => node[t][2] \in used[CoroOf(node[t])]
        /\ node[t] # NULL /\ pc[t] # "visit" => \A i \in 1..Len(Listed) : Listed[i] # node[t]

Placed == \A c \in Coros : IF WaitsSomewhere(c) THEN Somewhere(c) ELSE Nowhere(c)

Reach == Linked /\ Passed /\ Placed

-----------------------------------------------------------------------------
(* Counting places *)

Kept(S, T) == (S = {} => T = {}) /\ (One(S) => One(T))

LEMMA KeptPlaces ==
    ASSUME NEW L, NEW T, NEW W, NEW J, NEW Q, NEW L1, NEW T1, NEW W1, NEW J1, NEW Q1,
           Kept(L, L1), Kept(T, T1), Kept(W, W1), Kept(J, J1), Kept(Q, Q1)
    PROVE  /\ Zero(L, T, W, J, Q) => Zero(L1, T1, W1, J1, Q1)
           /\ Sole5(L, T, W, J, Q) => Sole5(L1, T1, W1, J1, Q1)
  BY DEF Kept, Zero, Sole5

\* The first of a sequence goes, and the others move up.
LEMMA Shift ==
    ASSUME NEW n \in Nat, NEW S \in SUBSET (1..n), NEW T,
           T = {i \in 1..(n - 1) : i + 1 \in S}
    PROVE  /\ 1 \notin S => Kept(S, T)
           /\ One(S) /\ 1 \in S => T = {}
  <1>1. ASSUME 1 \notin S, One(S) PROVE One(T)
    <2>1. PICK x \in S : S = {x} BY <1>1 DEF One
    <2>2. x \in 1..n /\ x # 1 BY <1>1, <2>1
    <2>3. x - 1 \in T BY <2>1, <2>2
    <2>4. \A y \in T : y = x - 1 BY <2>1, <2>2
    <2> QED BY <2>3, <2>4 DEF One
  <1>2. S = {} => T = {} OBVIOUS
  <1>3. ASSUME One(S), 1 \in S PROVE T = {}
    <2>1. S = {1} BY <1>3 DEF One
    <2> QED BY <2>1
  <1> QED BY <1>1, <1>2, <1>3 DEF Kept

\* A coroutine that does not wait for the Condv is in none of its lists.
LEMMA NotHeld ==
    ASSUME NEW q, Waits(q), NEW c, state[c] # "waiting"
    PROVE  ~Holds(q, c)
  BY DEF Waits, WaitsAs, Holds

LEMMA NullChain ==
    ASSUME NEW next
    PROVE  Chain(next, NULL) = << >> /\ Path(next, NULL, << >>)
  <1>1. Path(next, NULL, << >>) BY DEF Path
  <1> QED BY <1>1, PathChain

\* Lists that share nothing with what a step changes stay.
LEMMA ChainKept ==
    ASSUME NEW p, Path(m_next, p, Chain(m_next, p)),
           \A i \in 1..Len(Chain(m_next, p)) : m_next'[Chain(m_next, p)[i]] = m_next[Chain(m_next, p)[i]]
    PROVE  Chain(m_next', p) = Chain(m_next, p) /\ Path(m_next', p, Chain(m_next', p))
  <1>1. Path(m_next', p, Chain(m_next, p)) BY PathKept
  <1> QED BY <1>1, PathChain

\* A task is posted.
LEMMA PostTask ==
    ASSUME TypeOK, NEW task \in Tasks, m_task_queue' = Append(m_task_queue, task),
           NEW c \in Coros,
           \A i \in 1..Len(m_task_queue) :
               TaskHolds(m_next', m_task_queue[i], c) <=> TaskHolds(m_next, m_task_queue[i], c)
    PROVE  /\ ~TaskHolds(m_next', task, c) => InTask(c)' = InTask(c)
           /\ TaskHolds(m_next', task, c) /\ InTask(c) = {} => One(InTask(c)')
  <1>1. /\ Len(m_task_queue) \in Nat /\ Len(m_task_queue') = Len(m_task_queue) + 1
        /\ m_task_queue'[Len(m_task_queue) + 1] = task
        /\ \A i \in 1..Len(m_task_queue) : m_task_queue'[i] = m_task_queue[i]
    BY DEF TypeOK
  <1> DEFINE new == {i \in 1..Len(m_task_queue') : TaskHolds(m_next', m_task_queue'[i], c)}
  <1>2. InTask(c)' = new BY DEF InTask
  <1>3. ASSUME NEW i \in 1..Len(m_task_queue)
        PROVE  i \in 1..Len(m_task_queue') /\ (i \in new <=> i \in InTask(c))
    BY <1>1 DEF InTask
  <1>4. \A i \in 1..Len(m_task_queue') : i \in 1..Len(m_task_queue) \/ i = Len(m_task_queue) + 1
    BY <1>1
  <1>5. Len(m_task_queue) + 1 \in new <=> TaskHolds(m_next', task, c)
    BY <1>1
  <1>6. InTask(c) \subseteq 1..Len(m_task_queue) /\ new \subseteq 1..Len(m_task_queue')
    BY DEF InTask
  <1> HIDE DEF new
  <1>7. ASSUME ~TaskHolds(m_next', task, c) PROVE new = InTask(c)
    BY <1>3, <1>4, <1>5, <1>6, <1>7
  <1>8. ASSUME TaskHolds(m_next', task, c), InTask(c) = {} PROVE new = {Len(m_task_queue) + 1}
    BY <1>3, <1>4, <1>5, <1>6, <1>8
  <1> QED BY <1>2, <1>7, <1>8 DEF One

-----------------------------------------------------------------------------
(* Steps that leave the Condv's lists alone *)

LEMMA StartKept ==
    ASSUME TypeOK, NEW t \in Threads, pc[t] # "visit", NEW there, there # "visit",
           pc' = [pc EXCEPT ![t] = there], node' = node, m_next' = m_next
    PROVE  \A u \in Threads : Start(u)' = Start(u)
  BY DEF TypeOK, Start

LEMMA ChainedKept ==
    ASSUME UNCHANGED <<m_next, used>>, NEW p, Chained(p),
           \A c \in Coros : Holds(Chain(m_next, p), c) => state'[c] = "waiting"
    PROVE  /\ Path(m_next', p, Chain(m_next', p))
           /\ WaitsAs(state', used', Chain(m_next', p))
  <1>1. Path(m_next', p, Chain(m_next', p)) /\ Chain(m_next', p) = Chain(m_next, p)
    BY DEF Chained
  <1>2. \A i \in 1..Len(Chain(m_next, p)) :
            /\ CoroOf(Chain(m_next, p)[i]) \in Coros
            /\ Holds(Chain(m_next, p), CoroOf(Chain(m_next, p)[i]))
    BY SlotsAssumption DEF Chained, Path, CoroOf, Holds
  <1> QED BY <1>1, <1>2 DEF Chained, Waits, WaitsAs

\* Coroutines that are in none of the Condv's lists may go on.
LEMMA LinkedAfter ==
    ASSUME TypeOK, Linked, UNCHANGED <<m_next, m_awaiter_que, used>>, NEW Gone,
           \A c \in Coros : state[c] = "waiting" => c \in Gone \/ state'[c] = "waiting",
           \A c \in Gone : ~Holds(Listed, c),
           \A i \in 1..Len(m_task_queue') : m_task_queue'[i].call = "on_notify" =>
               /\ \E j \in 1..Len(m_task_queue) : m_task_queue'[i] = m_task_queue[j]
               /\ \A c \in Gone : ~Holds(Chain(m_next, m_task_queue'[i].arg), c),
           \A t \in Threads : /\ Chained(Start(t)')
                              /\ \A c \in Gone : ~Holds(Chain(m_next, Start(t)'), c)
    PROVE  Linked'
  <1>1. ASSUME NEW p, Chained(p), \A c \in Gone : ~Holds(Chain(m_next, p), c)
        PROVE  /\ Path(m_next', p, Chain(m_next', p))
               /\ WaitsAs(state', used', Chain(m_next', p))
    <2>1. ASSUME NEW c \in Coros, Holds(Chain(m_next, p), c) PROVE state[c] = "waiting"
      BY <1>1, <2>1, NotHeld DEF Chained
    <2> QED BY <1>1, <2>1, ChainedKept
  <1>2. Represents(m_awaiter_que, m_next, Listed)' /\ Waits(Listed)'
    <2>1. Chained(m_awaiter_que.head) BY DEF Linked, Represents, Chained, Listed
    <2>2. Represents(m_awaiter_que, m_next, Listed)' BY DEF Linked, Represents, Path, Listed
    <2> QED BY <1>1, <2>1, <2>2 DEF Listed, Waits
  <1>3. ASSUME NEW i \in 1..Len(m_task_queue'), m_task_queue'[i].call = "on_notify"
        PROVE  Chained(m_task_queue[i].arg)'
    <2>1. PICK j \in 1..Len(m_task_queue) : m_task_queue'[i] = m_task_queue[j] BY <1>3
    <2>2. Chained(m_task_queue[j].arg) BY <1>3, <2>1 DEF Linked
    <2> QED BY <1>1, <1>3, <2>1, <2>2 DEF Chained, Waits
  <1>4. ASSUME NEW t \in Threads PROVE Chained(Start(t))'
    BY <1>1 DEF Chained, Waits
  <1> QED BY <1>2, <1>3, <1>4 DEF Linked

LEMMA LinkedKept ==
    ASSUME TypeOK, Linked, UNCHANGED <<m_next, m_awaiter_que, used>>,
           \A t \in Threads : Start(t)' = Start(t),
           \A c \in Coros : state[c] = "waiting" => state'[c] = "waiting",
           \A i \in 1..Len(m_task_queue') : m_task_queue'[i].call = "on_notify" =>
               \E j \in 1..Len(m_task_queue) : m_task_queue'[i] = m_task_queue[j]
    PROVE  Linked'
  <1>1. \A t \in Threads : Chained(Start(t)')
    BY DEF Linked
  <1> DEFINE none == {}
  <1>2. /\ \A c \in Coros : state[c] = "waiting" => c \in none \/ state'[c] = "waiting"
        /\ \A c \in none : ~Holds(Listed, c)
        /\ \A i \in 1..Len(m_task_queue') : m_task_queue'[i].call = "on_notify" =>
               /\ \E j \in 1..Len(m_task_queue) : m_task_queue'[i] = m_task_queue[j]
               /\ \A c \in none : ~Holds(Chain(m_next, m_task_queue'[i].arg), c)
        /\ \A t \in Threads : /\ Chained(Start(t)')
                               /\ \A c \in none : ~Holds(Chain(m_next, Start(t)'), c)
    BY <1>1
  <1> HIDE DEF none
  <1> QED BY <1>2, LinkedAfter

LEMMA PassedKept ==
    ASSUME TypeOK, Passed, NEW t \in Threads, pc[t] # "visit", NEW there,
           pc' = [pc EXCEPT ![t] = there], there = "idle" => node[t] = NULL,
           UNCHANGED <<node, m_next, m_awaiter_que, used>>
    PROVE  Passed'
  <1>1. Listed' = Listed BY DEF Listed
  <1> QED BY <1>1 DEF TypeOK, Passed

\* The mutex is unlocked: the first of its queue, if there is one, becomes a task.
LEMMA UnlockPlaces ==
    ASSUME TypeOK, Unlock, m_next' = m_next, NEW c \in Coros, One(InMutex(c)) => InTask(c) = {},
           InMutex(c) = {} \/ One(InMutex(c))
    PROVE  \/ InTask(c)' = InTask(c) /\ Kept(InMutex(c), InMutex(c)')
           \/ One(InMutex(c)) /\ InTask(c) = {} /\ InMutex(c)' = {} /\ One(InTask(c)')
  <1>1. CASE M!Free /\ UNCHANGED m_task_queue
    BY <1>1 DEF M!Free, InTask, InMutex, Kept
  <1>2. CASE M!Release(TRUE) /\ m_task_queue' = Append(m_task_queue, LockTask(Head(queue)))
    <2> DEFINE f == Head(queue)
    <2>1. /\ Len(queue) \in Nat /\ Len(queue) # 0 /\ f = queue[1] /\ f \in Coros
          /\ queue' = Tail(queue) /\ Len(queue') = Len(queue) - 1
          /\ \A i \in 1..Len(queue') : queue'[i] = queue[i + 1]
      BY <1>2 DEF TypeOK, M!Release
    <2>2. LockTask(f) \in Tasks /\ LockTask(f).call = "on_callback" /\ LockTask(f).arg = f
      BY <2>1, PostedKinds DEF LockTask
    <2> HIDE DEF f
    <2>3. TaskHolds(m_next', LockTask(f), c) <=> c = f
      BY <2>2 DEF TaskHolds, LockTask
    <2>4. InMutex(c)' = {i \in 1..(Len(queue) - 1) : i + 1 \in InMutex(c)}
      BY <2>1 DEF InMutex
    <2>5. InMutex(c) \in SUBSET (1..Len(queue)) /\ (1 \in InMutex(c) <=> c = f)
      BY <2>1 DEF InMutex
    <2>6. /\ c # f => Kept(InMutex(c), InMutex(c)')
          /\ One(InMutex(c)) /\ c = f => InMutex(c)' = {}
      BY <2>1, <2>4, <2>5, Shift
    <2>7. m_task_queue' = Append(m_task_queue, LockTask(f)) BY <1>2 DEF f
    <2>8. /\ c # f => InTask(c)' = InTask(c)
          /\ c = f /\ InTask(c) = {} => One(InTask(c)')
      BY <2>2, <2>3, <2>7, PostTask
    <2> QED BY <2>5, <2>6, <2>8
  <1> QED BY <1>1, <1>2 DEF Unlock

LEMMA UnlockTasks ==
    ASSUME TypeOK, Unlock
    PROVE  \A i \in 1..Len(m_task_queue') : m_task_queue'[i].call = "on_notify" =>
               \E j \in 1..Len(m_task_queue) : m_task_queue'[i] = m_task_queue[j]
  <1>1. CASE UNCHANGED m_task_queue
    BY <1>1
  <1>2. CASE M!Release(TRUE) /\ m_task_queue' = Append(m_task_queue, LockTask(Head(queue)))
    <2>1. /\ Len(m_task_queue) \in Nat /\ Len(m_task_queue') = Len(m_task_queue) + 1
          /\ m_task_queue'[Len(m_task_queue) + 1] = LockTask(Head(queue))
          /\ \A i \in 1..Len(m_task_queue) : m_task_queue'[i] = m_task_queue[i]
      <3>1. LockTask(Head(queue)) \in Tasks
        BY <1>2, PostedKinds DEF TypeOK, M!Release
      <3> QED BY <1>2, <3>1 DEF TypeOK
    <2>2. LockTask(Head(queue)).call = "on_callback" BY DEF LockTask
    <2> QED BY <2>1, <2>2
  <1> QED BY <1>1, <1>2 DEF Unlock

\* What takes a thread and a coroutine from one doing to another, in no place.
LEMMA PlacedKept ==
    ASSUME NEW c \in Coros, Placed,
           Kept(InList(c), InList(c)'), Kept(InTask(c), InTask(c)'), Kept(InWalk(c), InWalk(c)'),
           Kept(InJoin(c), InJoin(c)'), Kept(InMutex(c), InMutex(c)'),
           WaitsSomewhere(c)' <=> WaitsSomewhere(c)
    PROVE  IF WaitsSomewhere(c)' THEN Somewhere(c)' ELSE Nowhere(c)'
  BY KeptPlaces DEF Placed, Somewhere, Nowhere

LEMMA SamePlaces ==
    ASSUME NEW c \in Coros, Placed,
           InList(c)' = InList(c), InTask(c)' = InTask(c), InWalk(c)' = InWalk(c),
           InJoin(c)' = InJoin(c), InMutex(c)' = InMutex(c),
           WaitsSomewhere(c)' <=> WaitsSomewhere(c)
    PROVE  IF WaitsSomewhere(c)' THEN Somewhere(c)' ELSE Nowhere(c)'
  BY DEF Placed, Somewhere, Nowhere

LEMMA ListsSame ==
    ASSUME UNCHANGED <<m_next, m_awaiter_que>>, \A t \in Threads : Start(t)' = Start(t), NEW c
    PROVE  InList(c)' = InList(c) /\ InWalk(c)' = InWalk(c)
  BY DEF InList, InWalk, Listed

LEMMA JoinSame ==
    ASSUME TypeOK, NEW t \in Threads, pc[t] # "join", NEW there, there # "join", NEW who,
           pc' = [pc EXCEPT ![t] = there], coro' = [coro EXCEPT ![t] = who], NEW c
    PROVE  InJoin(c)' = InJoin(c)
  BY DEF TypeOK, InJoin

\* A thread turns to or from a coroutine that waits for nothing.
LEMMA AwayReach ==
    ASSUME TypeOK, Reach, NEW t \in Threads, NEW there, NEW who, NEW c \in Coros,
           NEW doing \in {"user", "away", "owner"},
           pc[t] \notin {"visit", "join"}, there \notin {"visit", "join"},
           there = "idle" => node[t] = NULL,
           pc' = [pc EXCEPT ![t] = there], coro' = [coro EXCEPT ![t] = who],
           state[c] \notin {"waiting", "locking"}, state' = [state EXCEPT ![c] = doing],
           UNCHANGED <<node, m_next, m_awaiter_que, m_task_queue, used, queue>>
    PROVE  Reach'
  <1>1. \A u \in Threads : Start(u)' = Start(u)
    BY StartKept
  <1>2. \A d \in Coros : /\ state[d] = "waiting" => state'[d] = "waiting"
                         /\ WaitsSomewhere(d)' <=> WaitsSomewhere(d)
    BY DEF TypeOK, WaitsSomewhere
  <1>3. Linked'
    <2>1. \A i \in 1..Len(m_task_queue') : m_task_queue'[i] = m_task_queue[i]
                                           /\ i \in 1..Len(m_task_queue)
      OBVIOUS
    <2> QED BY <1>1, <1>2, <2>1, LinkedKept DEF Reach
  <1>4. Passed'
    BY PassedKept DEF Reach
  <1>5. ASSUME NEW d \in Coros PROVE IF WaitsSomewhere(d)' THEN Somewhere(d)' ELSE Nowhere(d)'
    <2>1. InList(d)' = InList(d) /\ InWalk(d)' = InWalk(d) BY <1>1, ListsSame
    <2>2. InTask(d)' = InTask(d) /\ InMutex(d)' = InMutex(d) BY DEF InTask, InMutex
    <2>3. InJoin(d)' = InJoin(d) BY JoinSame
    <2> QED BY <1>2, <2>1, <2>2, <2>3, SamePlaces DEF Reach
  <1> QED BY <1>3, <1>4, <1>5 DEF Reach, Placed

\* lock() by a coroutine that runs: it owns the mutex, or is about to join its queue.
LEMMA LockReach ==
    ASSUME TypeOK, Locals, Reach, NEW t \in Threads, LockMutex(t)
    PROVE  Reach'
  <1>0. PICK c \in Coros : c = coro[t]
    BY DEF LockMutex, Runs, Locals
  <1>1. /\ pc[t] = "coro" /\ state[c] = "user" /\ TryLock(t, c)
        /\ UNCHANGED <<m_next, m_awaiter_que, m_task_queue, used>>
    BY <1>0 DEF LockMutex, Runs, listVars
  <1>2. CASE M!Lock /\ Becomes(c, "owner") /\ With(t, "coro", c)
    <2>1. /\ pc' = [pc EXCEPT ![t] = "coro"] /\ coro' = [coro EXCEPT ![t] = c]
          /\ state' = [state EXCEPT ![c] = "owner"] /\ UNCHANGED <<node, queue>>
      BY <1>2 DEF M!Lock, Becomes, With
    <2> QED BY <1>1, <2>1, AwayReach
  <1>3. CASE /\ M!Arrive(c) /\ With(t, "join", c)
             /\ state' = [state EXCEPT ![c] = IF @ = "user" THEN "locking" ELSE @]
    <2>1. /\ pc' = [pc EXCEPT ![t] = "join"] /\ coro' = [coro EXCEPT ![t] = c]
          /\ state' = [state EXCEPT ![c] = "locking"] /\ UNCHANGED <<node, queue>>
      BY <1>1, <1>3 DEF M!Arrive, With, TypeOK
    <2>2. \A u \in Threads : Start(u)' = Start(u)
      BY <1>1, <2>1, StartKept
    <2>3. \A d \in Coros : state[d] = "waiting" => state'[d] = "waiting"
      BY <1>1, <2>1 DEF TypeOK
    <2>4. Linked'
      <3>1. \A i \in 1..Len(m_task_queue') : m_task_queue'[i] = m_task_queue[i]
                                             /\ i \in 1..Len(m_task_queue)
        BY <1>1
      <3> QED BY <1>1, <2>2, <2>3, <3>1, LinkedKept DEF Reach
    <2>5. Passed'
      BY <1>1, <2>1, PassedKept DEF Reach
    <2>6. ASSUME NEW d \in Coros PROVE IF WaitsSomewhere(d)' THEN Somewhere(d)' ELSE Nowhere(d)'
      <3>1. /\ InList(d)' = InList(d) /\ InWalk(d)' = InWalk(d)
            /\ InTask(d)' = InTask(d) /\ InMutex(d)' = InMutex(d)
        BY <1>1, <2>1, <2>2, ListsSame DEF InTask, InMutex
      <3>2. CASE d # c
        <4>1. InJoin(d)' = InJoin(d) BY <1>1, <2>1, <3>2 DEF TypeOK, InJoin
        <4>2. WaitsSomewhere(d)' <=> WaitsSomewhere(d)
          BY <1>1, <2>1, <3>2 DEF TypeOK, WaitsSomewhere
        <4> QED BY <3>1, <4>1, <4>2, SamePlaces DEF Reach
      <3>3. CASE d = c
        <4>1. Nowhere(c) BY <1>1 DEF Reach, Placed, WaitsSomewhere
        <4>2. InJoin(c) = {} BY <4>1 DEF Nowhere, Zero
        <4>3. InJoin(c)' = {t} BY <1>1, <2>1, <4>2 DEF TypeOK, InJoin
        <4>4. WaitsSomewhere(c)' BY <1>1, <2>1 DEF TypeOK, WaitsSomewhere
        <4>5. One(InJoin(c)') BY <4>3 DEF One
        <4>6. Somewhere(c)' BY <3>1, <3>3, <4>1, <4>5 DEF Nowhere, Zero, Somewhere, Sole5
        <4> QED BY <3>3, <4>4, <4>6
      <3> QED BY <3>2, <3>3
    <2> QED BY <2>4, <2>5, <2>6 DEF Reach, Placed
  <1> QED BY <1>1, <1>2, <1>3 DEF TryLock

\* The awaiter joins the mutex's queue.
LEMMA JoinReach ==
    ASSUME TypeOK, Locals, Reach, NEW t \in Threads, JoinMutex(t)
    PROVE  Reach'
  <1>0. PICK c \in Coros : c = coro[t]
    BY DEF JoinMutex, Locals
  <1>1. /\ pc[t] = "join" /\ queue' = Append(queue, c)
        /\ pc' = [pc EXCEPT ![t] = IF node[t] = NULL THEN "idle" ELSE "next"]
        /\ coro' = [coro EXCEPT ![t] = NULL]
        /\ UNCHANGED <<node, m_next, m_awaiter_que, m_task_queue, used, state>>
    BY <1>0 DEF JoinMutex, M!Join, Return, With, listVars
  <1>2. c # NULL BY <1>1, SlotsAssumption
  <1>3. t \in InJoin(c) BY <1>0, <1>1 DEF InJoin
  <1>4. \A u \in Threads : Start(u)' = Start(u)
    <2>1. (IF node[t] = NULL THEN "idle" ELSE "next") # "visit" OBVIOUS
    <2> QED BY <1>1, <2>1, StartKept
  <1>5. Linked'
    BY <1>1, <1>4, LinkedKept DEF Reach
  <1>6. Passed'
    <2>1. (IF node[t] = NULL THEN "idle" ELSE "next") = "idle" => node[t] = NULL OBVIOUS
    <2> QED BY <1>1, <2>1, PassedKept DEF Reach
  <1>7. ASSUME NEW d \in Coros PROVE IF WaitsSomewhere(d)' THEN Somewhere(d)' ELSE Nowhere(d)'
    <2>1. /\ InList(d)' = InList(d) /\ InWalk(d)' = InWalk(d) /\ InTask(d)' = InTask(d)
          /\ WaitsSomewhere(d)' <=> WaitsSomewhere(d)
      BY <1>1, <1>4, ListsSame DEF InTask, WaitsSomewhere
    <2>2. /\ Len(queue) \in Nat /\ Len(queue') = Len(queue) + 1 /\ queue'[Len(queue) + 1] = c
          /\ \A i \in 1..Len(queue) : queue'[i] = queue[i]
      BY <1>1 DEF TypeOK
    <2>3. CASE d # c
      <3>1. InJoin(d)' = InJoin(d) BY <1>0, <1>1, <2>3, SlotsAssumption DEF TypeOK, InJoin
      <3>2. InMutex(d)' = InMutex(d) BY <2>2, <2>3 DEF InMutex
      <3> QED BY <2>1, <3>1, <3>2, SamePlaces DEF Reach
    <2>4. CASE d = c
      <3>1. WaitsSomewhere(c) /\ Somewhere(c)
        BY <1>1, <1>3 DEF Reach, Placed, Nowhere, Zero
      <3>2. /\ InList(c) = {} /\ InTask(c) = {} /\ InWalk(c) = {} /\ InMutex(c) = {}
            /\ One(InJoin(c))
        BY <1>3, <3>1 DEF Somewhere, Sole5
      <3>3. InJoin(c) = {t} BY <1>3, <3>2 DEF One
      <3>4. InJoin(c)' = {} BY <1>1, <1>2, <3>3 DEF TypeOK, InJoin
      <3>5. InMutex(c)' = {Len(queue) + 1} BY <2>2, <3>2 DEF InMutex
      <3>6. One(InMutex(c)') BY <3>5 DEF One
      <3>7. Somewhere(c)' BY <2>1, <2>4, <3>2, <3>4, <3>6 DEF Somewhere, Sole5
      <3> QED BY <2>1, <2>4, <3>1, <3>7
    <2> QED BY <2>3, <2>4
  <1> QED BY <1>5, <1>6, <1>7 DEF Reach, Placed

\* unlock(): a coroutine that waited for the mutex has a task now.
LEMMA UnlockReach ==
    ASSUME TypeOK, Reach, Unlock, NEW t \in Threads, NEW there, NEW who,
           pc[t] \notin {"visit", "join"}, there \notin {"visit", "join"},
           there = "idle" => node[t] = NULL,
           pc' = [pc EXCEPT ![t] = there], coro' = [coro EXCEPT ![t] = who],
           \A d \in Coros : /\ state[d] = "waiting" => state'[d] = "waiting"
                            /\ WaitsSomewhere(d)' <=> WaitsSomewhere(d),
           UNCHANGED <<node, m_next, m_awaiter_que, used>>
    PROVE  Reach'
  <1>1. \A u \in Threads : Start(u)' = Start(u)
    BY StartKept
  <1>2. Linked'
    BY <1>1, UnlockTasks, LinkedKept DEF Reach
  <1>3. Passed'
    BY PassedKept DEF Reach
  <1>4. ASSUME NEW d \in Coros PROVE IF WaitsSomewhere(d)' THEN Somewhere(d)' ELSE Nowhere(d)'
    <2>1. InList(d)' = InList(d) /\ InWalk(d)' = InWalk(d) BY <1>1, ListsSame
    <2>2. InJoin(d)' = InJoin(d) BY JoinSame
    <2>3. /\ One(InMutex(d)) => WaitsSomewhere(d) /\ Somewhere(d) /\ InTask(d) = {}
          /\ InMutex(d) = {} \/ One(InMutex(d))
      BY DEF Reach, Placed, Nowhere, Somewhere, Zero, Sole5, One
    <2>4. CASE InTask(d)' = InTask(d) /\ Kept(InMutex(d), InMutex(d)')
      <3>1. /\ Kept(InList(d), InList(d)') /\ Kept(InTask(d), InTask(d)')
            /\ Kept(InWalk(d), InWalk(d)') /\ Kept(InJoin(d), InJoin(d)')
        BY <2>1, <2>2, <2>4 DEF Kept
      <3> QED BY <2>4, <3>1, PlacedKept DEF Reach
    <2>5. CASE One(InMutex(d)) /\ InTask(d) = {} /\ InMutex(d)' = {} /\ One(InTask(d)')
      <3>1. InList(d) = {} /\ InWalk(d) = {} /\ InJoin(d) = {}
        BY <2>3, <2>5 DEF Somewhere, Sole5, One
      <3>2. Somewhere(d)' BY <2>1, <2>2, <2>5, <3>1 DEF Somewhere, Sole5
      <3> QED BY <2>3, <2>5, <3>2
    <2> QED BY <2>3, <2>4, <2>5, UnlockPlaces
  <1> QED BY <1>2, <1>3, <1>4 DEF Reach, Placed

\* A coroutine begins to run, or stops, outside the library; it unlocks the mutex,
\* or its awaiter does that after it was enlisted.
LEMMA QuietReach ==
    ASSUME TypeOK, Locals, Reach, NEW t \in Threads,
           \/ Suspend(t) \/ \E c \in Coros : Resume(t, c)
           \/ UnlockMutex(t) \/ WaitUnlock(t)
    PROVE  Reach'
  <1> DEFINE back == IF node[t] = NULL THEN "idle" ELSE "next"
  <1>1. back \notin {"visit", "join"} /\ (back = "idle" => node[t] = NULL)
    OBVIOUS
  <1>2. CASE Suspend(t)
    <2>1. coro[t] \in Coros BY <1>2 DEF Suspend, Runs, Locals
    <2>2. /\ pc[t] = "coro" /\ state[coro[t]] = "user"
          /\ state' = [state EXCEPT ![coro[t]] = "away"]
          /\ pc' = [pc EXCEPT ![t] = back] /\ coro' = [coro EXCEPT ![t] = NULL]
          /\ UNCHANGED <<node, m_next, m_awaiter_que, m_task_queue, used, queue>>
      BY <1>2 DEF Suspend, Runs, Becomes, Return, With, mutexVars, listVars
    <2> HIDE DEF back
    <2> QED BY <1>1, <2>1, <2>2, AwayReach
  <1>3. ASSUME NEW c \in Coros, Resume(t, c) PROVE Reach'
    <2>1. /\ pc[t] = "idle" /\ state[c] = "away" /\ state' = [state EXCEPT ![c] = "user"]
          /\ pc' = [pc EXCEPT ![t] = "coro"] /\ coro' = [coro EXCEPT ![t] = c]
          /\ UNCHANGED <<node, m_next, m_awaiter_que, m_task_queue, used, queue>>
      BY <1>3 DEF Resume, Becomes, With, mutexVars, listVars
    <2> QED BY <2>1, AwayReach
  <1>4. CASE UnlockMutex(t)
    <2>1. /\ pc[t] = "coro" /\ state[coro[t]] = "owner" /\ Unlock
          /\ state' = [state EXCEPT ![coro[t]] = "user"] /\ coro[t] \in Coros
          /\ UNCHANGED <<pc, coro, node, m_next, m_awaiter_que, used>>
      BY <1>4 DEF UnlockMutex, Runs, Becomes, Locals, threadVars, listVars
    <2>2. PICK c \in Coros : c = coro[t]
      BY <2>1
    <2>4. /\ pc' = [pc EXCEPT ![t] = "coro"] /\ coro' = [coro EXCEPT ![t] = c]
      BY <2>1, <2>2 DEF TypeOK
    <2>5. Unlock /\ UNCHANGED <<node, m_next, m_awaiter_que, used>> /\ pc[t] = "coro"
      BY <2>1
    <2>3. \A d \in Coros : /\ state[d] = "waiting" => state'[d] = "waiting"
                           /\ WaitsSomewhere(d)' <=> WaitsSomewhere(d)
      BY <2>1 DEF TypeOK, WaitsSomewhere
    <2> QED BY <2>3, <2>4, <2>5, UnlockReach
  <1>5. CASE WaitUnlock(t)
    <2>1. /\ pc[t] = "unlock" /\ Unlock
          /\ pc' = [pc EXCEPT ![t] = back] /\ coro' = [coro EXCEPT ![t] = NULL]
          /\ UNCHANGED <<state, node, m_next, m_awaiter_que, used>>
      BY <1>5 DEF WaitUnlock, Return, With, listVars
    <2>2. \A d \in Coros : /\ state[d] = "waiting" => state'[d] = "waiting"
                           /\ WaitsSomewhere(d)' <=> WaitsSomewhere(d)
      BY <2>1 DEF WaitsSomewhere
    <2> HIDE DEF back
    <2> QED BY <1>1, <2>1, <2>2, UnlockReach
  <1> QED BY <1>2, <1>3, <1>4, <1>5

-----------------------------------------------------------------------------
(* The posted tasks *)

\* The first node of a list is left behind, and with it only its coroutine.
LEMMA TailHolds ==
    ASSUME NEW n \in Nodes, Chained(n)
    PROVE  /\ Chained(m_next[n]) /\ Holds(Chain(m_next, n), CoroOf(n))
           /\ ~Holds(Chain(m_next, m_next[n]), CoroOf(n))
           /\ \A c : c # CoroOf(n) =>
                 (Holds(Chain(m_next, m_next[n]), c) <=> Holds(Chain(m_next, n), c))
           /\ state[CoroOf(n)] = "waiting" /\ n[2] \in used[CoroOf(n)]
  <1> DEFINE q == Chain(m_next, n)
             r == Tail(q)
  <1>1. Path(m_next, n, q) /\ Waits(q) /\ n # NULL
    BY NodesAssumption DEF Chained
  <1>2. q # << >> /\ n = q[1] /\ q \in Seq(Nodes) /\ Path(m_next, m_next[n], r)
    <2>1. q # << >> /\ n = q[1] /\ Path(m_next, m_next[n], r) BY <1>1, PathTail
    <2> QED BY <1>1, <2>1 DEF Path
  <1>3. Chain(m_next, m_next[n]) = r
    BY <1>2, PathChain
  <1>4. /\ Len(q) \in Nat /\ Len(q) # 0 /\ Len(r) = Len(q) - 1
        /\ \A i \in 1..Len(r) : r[i] = q[i + 1]
    BY <1>2
  <1> HIDE DEF q, r
  <1>5. Waits(r)
    <2>1. \A i \in 1..Len(r) : r[i] = q[i + 1] /\ i + 1 \in 1..Len(q)
      BY <1>4
    <2>2. ASSUME NEW i \in 1..Len(r), NEW j \in 1..Len(r), CoroOf(r[i]) = CoroOf(r[j])
          PROVE  i = j
      <3>1. i + 1 = j + 1 BY <1>1, <2>1, <2>2 DEF Waits, WaitsAs
      <3> QED BY <3>1
    <2> QED BY <1>1, <2>1, <2>2 DEF Waits, WaitsAs
  <1>6. Holds(q, CoroOf(n))
    <2>1. 1 \in 1..Len(q) BY <1>4
    <2> QED BY <1>2, <2>1 DEF Holds
  <1>7. ~Holds(r, CoroOf(n))
    <2> SUFFICES ASSUME NEW i \in 1..Len(r), CoroOf(r[i]) = CoroOf(n) PROVE FALSE
      BY DEF Holds
    <2>1. r[i] = q[i + 1] /\ i + 1 \in 1..Len(q) /\ 1 \in 1..Len(q) /\ i + 1 # 1 BY <1>4
    <2> QED BY <1>1, <1>2, <2>1 DEF Waits, WaitsAs
  <1>8. ASSUME NEW c, c # CoroOf(n) PROVE Holds(r, c) <=> Holds(q, c)
    <2>1. ASSUME NEW i \in 1..Len(q), CoroOf(q[i]) = c PROVE Holds(r, c)
      <3>1. i # 1 BY <1>2, <1>8, <2>1
      <3>2. i - 1 \in 1..Len(r) /\ r[i - 1] = q[i] BY <1>4, <3>1
      <3> QED BY <2>1, <3>2 DEF Holds
    <2>2. \A i \in 1..Len(r) : r[i] = q[i + 1] /\ i + 1 \in 1..Len(q)
      BY <1>4
    <2> QED BY <2>1, <2>2 DEF Holds
  <1>9. state[CoroOf(n)] = "waiting" /\ n[2] \in used[CoroOf(n)]
    <2>1. 1 \in 1..Len(q) BY <1>4
    <2> QED BY <1>1, <1>2, <2>1 DEF Waits, WaitsAs
  <1> QED BY <1>2, <1>3, <1>5, <1>6, <1>7, <1>8, <1>9 DEF Chained, q

\* The first task of the context is taken.
LEMMA RunTaskPlaces ==
    ASSUME TypeOK, m_task_queue # << >>, m_task_queue' = Tail(m_task_queue),
           m_next' = m_next, NEW c
    PROVE  /\ ~TaskHolds(m_next, m_task_queue[1], c) => Kept(InTask(c), InTask(c)')
           /\ TaskHolds(m_next, m_task_queue[1], c) =>
                 InTask(c) # {} /\ (One(InTask(c)) => InTask(c) = {1} /\ InTask(c)' = {})
  <1>1. /\ Len(m_task_queue) \in Nat /\ Len(m_task_queue) # 0
        /\ Len(m_task_queue') = Len(m_task_queue) - 1
        /\ \A i \in 1..Len(m_task_queue') : m_task_queue'[i] = m_task_queue[i + 1]
    BY DEF TypeOK
  <1>2. InTask(c)' = {i \in 1..(Len(m_task_queue) - 1) : i + 1 \in InTask(c)}
    BY <1>1 DEF InTask
  <1>3. /\ InTask(c) \in SUBSET (1..Len(m_task_queue))
        /\ 1 \in InTask(c) <=> TaskHolds(m_next, m_task_queue[1], c)
    BY <1>1 DEF InTask
  <1>4. One(InTask(c)) /\ 1 \in InTask(c) => InTask(c) = {1}
    BY DEF One
  <1> QED BY <1>1, <1>2, <1>3, <1>4, Shift

\* on_callback: the coroutine the mutex was handed to goes on, as its owner.
LEMMA CallbackReach ==
    ASSUME TypeOK, Reach, NEW t \in Threads, NEW c \in Coros,
           pc[t] = "idle", m_task_queue # << >>, m_task_queue' = Tail(m_task_queue),
           m_task_queue[1] = LockTask(c), state' = [state EXCEPT ![c] = "owner"],
           pc' = [pc EXCEPT ![t] = "coro"], coro' = [coro EXCEPT ![t] = c],
           UNCHANGED <<node, m_next, m_awaiter_que, used, queue>>
    PROVE  Reach'
  <1>1. \A u \in Threads : Start(u)' = Start(u)
    BY StartKept
  <1>2. \A d \in Coros : TaskHolds(m_next, m_task_queue[1], d) <=> d = c
    BY DEF TaskHolds, LockTask
  <1>3. /\ Somewhere(c) /\ InTask(c) = {1} /\ InTask(c)' = {}
        /\ InList(c) = {} /\ InWalk(c) = {} /\ InJoin(c) = {} /\ InMutex(c) = {}
    <2>1. InTask(c) # {} /\ (One(InTask(c)) => InTask(c) = {1} /\ InTask(c)' = {})
      BY <1>2, RunTaskPlaces
    <2>2. Somewhere(c) BY <2>1 DEF Reach, Placed, Nowhere, Zero
    <2> QED BY <2>1, <2>2 DEF Somewhere, Sole5
  <1>4. /\ \A i \in 1..Len(m_task_queue') : /\ i + 1 \in 1..Len(m_task_queue)
                                            /\ m_task_queue'[i] = m_task_queue[i + 1]
                                            /\ i + 1 # 1
    BY DEF TypeOK
  <1>5. Linked'
    <2> DEFINE gone == {c}
    <2>1. \A d \in Coros : state[d] = "waiting" => d \in gone \/ state'[d] = "waiting"
      BY DEF TypeOK
    <2>2. ~Holds(Listed, c) BY <1>3 DEF InList, Holds
    <2>3. ASSUME NEW i \in 1..Len(m_task_queue'), m_task_queue'[i].call = "on_notify"
          PROVE  /\ \E j \in 1..Len(m_task_queue) : m_task_queue'[i] = m_task_queue[j]
                 /\ ~Holds(Chain(m_next, m_task_queue'[i].arg), c)
      <3>1. i + 1 \notin InTask(c) BY <1>3, <1>4
      <3> QED BY <1>4, <2>3, <3>1 DEF InTask, TaskHolds
    <2>4. \A u \in Threads : Chained(Start(u)') /\ ~Holds(Chain(m_next, Start(u)'), c)
      BY <1>1, <1>3 DEF Reach, Linked, InWalk
    <2>5. /\ \A d \in gone : ~Holds(Listed, d)
          /\ \A i \in 1..Len(m_task_queue') : m_task_queue'[i].call = "on_notify" =>
                 /\ \E j \in 1..Len(m_task_queue) : m_task_queue'[i] = m_task_queue[j]
                 /\ \A d \in gone : ~Holds(Chain(m_next, m_task_queue'[i].arg), d)
          /\ \A u \in Threads : /\ Chained(Start(u)')
                                /\ \A d \in gone : ~Holds(Chain(m_next, Start(u)'), d)
      BY <2>2, <2>3, <2>4
    <2> HIDE DEF gone
    <2> QED BY <2>1, <2>5, LinkedAfter DEF Reach
  <1>6. Passed'
    BY PassedKept DEF Reach
  <1>7. ASSUME NEW d \in Coros PROVE IF WaitsSomewhere(d)' THEN Somewhere(d)' ELSE Nowhere(d)'
    <2>1. InList(d)' = InList(d) /\ InWalk(d)' = InWalk(d) BY <1>1, ListsSame
    <2>2. InJoin(d)' = InJoin(d) BY JoinSame
    <2>3. InMutex(d)' = InMutex(d) BY DEF InMutex
    <2>4. CASE d # c
      <3>1. Kept(InTask(d), InTask(d)') BY <1>2, <2>4, RunTaskPlaces
      <3>2. WaitsSomewhere(d)' <=> WaitsSomewhere(d) BY <2>4 DEF TypeOK, WaitsSomewhere
      <3>3. /\ Kept(InList(d), InList(d)') /\ Kept(InWalk(d), InWalk(d)')
            /\ Kept(InJoin(d), InJoin(d)') /\ Kept(InMutex(d), InMutex(d)')
        BY <2>1, <2>2, <2>3 DEF Kept
      <3> QED BY <3>1, <3>2, <3>3, PlacedKept DEF Reach
    <2>5. CASE d = c
      <3>1. ~WaitsSomewhere(d)' BY <2>5 DEF TypeOK, WaitsSomewhere
      <3>2. Nowhere(d)' BY <1>3, <2>1, <2>2, <2>3, <2>5 DEF Nowhere, Zero
      <3> QED BY <3>1, <3>2
    <2> QED BY <2>4, <2>5
  <1> QED BY <1>5, <1>6, <1>7 DEF Reach, Placed

\* on_notify: the walk begins with the node the task carries.
LEMMA NotifiedReach ==
    ASSUME TypeOK, Reach, NEW t \in Threads, NEW n \in Nodes,
           pc[t] = "idle", m_task_queue # << >>, m_task_queue' = Tail(m_task_queue),
           m_task_queue[1] = NotifyTask(n), state' = state,
           pc' = [pc EXCEPT ![t] = "visit"], node' = [node EXCEPT ![t] = n],
           UNCHANGED <<coro, m_next, m_awaiter_que, used, queue>>
    PROVE  Reach'
  <1>1. /\ \A i \in 1..Len(m_task_queue') : /\ i + 1 \in 1..Len(m_task_queue)
                                            /\ m_task_queue'[i] = m_task_queue[i + 1]
        /\ 1 \in 1..Len(m_task_queue)
    BY DEF TypeOK
  <1>2. Chained(n)
    BY <1>1 DEF Reach, Linked, NotifyTask
  <1>3. /\ Start(t) = NULL /\ Start(t)' = n
        /\ \A u \in Threads : u # t => Start(u)' = Start(u)
    BY NodesAssumption DEF TypeOK, Reach, Passed, Start
  <1>4. \A d \in Coros : TaskHolds(m_next, m_task_queue[1], d) <=> Holds(Chain(m_next, n), d)
    BY DEF TaskHolds, LockTask, NotifyTask
  <1>5. Linked'
    <2>1. \A u \in Threads : Chained(Start(u)')
      BY <1>2, <1>3 DEF Reach, Linked
    <2> DEFINE none == {}
    <2>2. /\ \A c \in Coros : state[c] = "waiting" => c \in none \/ state'[c] = "waiting"
          /\ \A c \in none : ~Holds(Listed, c)
          /\ \A i \in 1..Len(m_task_queue') : m_task_queue'[i].call = "on_notify" =>
                 /\ \E j \in 1..Len(m_task_queue) : m_task_queue'[i] = m_task_queue[j]
                 /\ \A c \in none : ~Holds(Chain(m_next, m_task_queue'[i].arg), c)
          /\ \A u \in Threads : /\ Chained(Start(u)')
                                /\ \A c \in none : ~Holds(Chain(m_next, Start(u)'), c)
      BY <1>1, <2>1
    <2> HIDE DEF none
    <2> QED BY <2>2, LinkedAfter DEF Reach
  <1>6. Passed'
    <2>1. n[2] \in used[CoroOf(n)] BY <1>2, TailHolds
    <2>2. Listed' = Listed BY DEF Listed
    <2> QED BY <2>1, <2>2, NodesAssumption DEF TypeOK, Reach, Passed
  <1>7. ASSUME NEW d \in Coros PROVE IF WaitsSomewhere(d)' THEN Somewhere(d)' ELSE Nowhere(d)'
    <2>1. InList(d)' = InList(d) BY DEF InList, Listed
    <2>2. InJoin(d)' = InJoin(d) BY DEF TypeOK, InJoin
    <2>3. InMutex(d)' = InMutex(d) BY DEF InMutex
    <2>4. WaitsSomewhere(d)' <=> WaitsSomewhere(d) BY DEF WaitsSomewhere
    <2>5. t \notin InWalk(d) BY <1>3, NullChain DEF InWalk, Holds
    <2>6. CASE ~Holds(Chain(m_next, n), d)
      <3>1. Kept(InTask(d), InTask(d)') BY <1>4, <2>6, RunTaskPlaces
      <3>2. InWalk(d)' = InWalk(d) BY <1>3, <2>5, <2>6 DEF InWalk
      <3>3. /\ Kept(InList(d), InList(d)') /\ Kept(InWalk(d), InWalk(d)')
            /\ Kept(InJoin(d), InJoin(d)') /\ Kept(InMutex(d), InMutex(d)')
        BY <2>1, <2>2, <2>3, <3>2 DEF Kept
      <3> QED BY <2>4, <3>1, <3>3, PlacedKept DEF Reach
    <2>7. CASE Holds(Chain(m_next, n), d)
      <3>1. InTask(d) # {} /\ (One(InTask(d)) => InTask(d)' = {})
        BY <1>4, <2>7, RunTaskPlaces
      <3>2. WaitsSomewhere(d) /\ Somewhere(d)
        BY <3>1 DEF Reach, Placed, Nowhere, Zero
      <3>3. /\ InTask(d)' = {} /\ InList(d) = {} /\ InWalk(d) = {} /\ InJoin(d) = {}
            /\ InMutex(d) = {}
        BY <3>1, <3>2 DEF Somewhere, Sole5
      <3>4. InWalk(d)' = {t} BY <1>3, <2>7, <3>3 DEF InWalk
      <3>5. One(InWalk(d)') BY <3>4 DEF One
      <3>6. Somewhere(d)' BY <2>1, <2>2, <2>3, <3>3, <3>5 DEF Somewhere, Sole5
      <3> QED BY <2>4, <3>2, <3>6
    <2> QED BY <2>6, <2>7
  <1> QED BY <1>5, <1>6, <1>7 DEF Reach, Placed

LEMMA RunTaskReach ==
    ASSUME TypeOK, Reach, NEW t \in Threads, RunTask(t)
    PROVE  Reach'
  <1>1. /\ pc[t] = "idle" /\ m_task_queue # << >> /\ m_task_queue' = Tail(m_task_queue)
        /\ Head(m_task_queue) = m_task_queue[1] /\ m_task_queue[1] \in Tasks
        /\ UNCHANGED <<m_next, m_awaiter_que, used, queue>>
    BY DEF TypeOK, RunTask, mutexVars, listVars
  <1>2. CASE m_task_queue[1].call = "on_notify"
    <2>1. PICK n \in Nodes : m_task_queue[1] = NotifyTask(n)
      BY <1>1, <1>2 DEF Tasks, LockTask
    <2>2. /\ node' = [node EXCEPT ![t] = n] /\ pc' = [pc EXCEPT ![t] = "visit"]
          /\ UNCHANGED <<coro, state>>
      BY <1>1, <1>2, <2>1 DEF RunTask, NotifyTask
    <2> QED BY <1>1, <2>1, <2>2, NotifiedReach
  <1>3. CASE m_task_queue[1].call = "on_callback"
    <2>1. PICK c \in Coros : m_task_queue[1] = LockTask(c)
      BY <1>1, <1>3 DEF Tasks, NotifyTask
    <2>2. /\ state' = [state EXCEPT ![c] = "owner"] /\ pc' = [pc EXCEPT ![t] = "coro"]
          /\ coro' = [coro EXCEPT ![t] = c] /\ UNCHANGED node
      BY <1>1, <1>3, <2>1 DEF RunTask, LockTask, Becomes, With
    <2> QED BY <1>1, <2>1, <2>2, CallbackReach
  <1> QED BY <1>1, <1>2, <1>3, TaskKinds

\* on_notify takes a waiter to the mutex: it goes on, or is about to join the queue.
LEMMA VisitReach ==
    ASSUME TypeOK, Locals, Reach, NEW t \in Threads, Visit(t)
    PROVE  Reach'
  <1>1. PICK n \in Nodes : n = node[t]
    BY DEF Visit, Locals
  <1>2. PICK c \in Coros : c = CoroOf(n)
    BY SlotsAssumption DEF CoroOf
  <1>3. /\ pc[t] = "visit" /\ Start(t) = n /\ Chained(n) /\ n # NULL
    BY <1>1, NodesAssumption DEF Visit, Start, Reach, Linked
  <1>4. /\ Chained(m_next[n]) /\ Holds(Chain(m_next, n), c)
        /\ ~Holds(Chain(m_next, m_next[n]), c)
        /\ \A d : d # c => (Holds(Chain(m_next, m_next[n]), d) <=> Holds(Chain(m_next, n), d))
        /\ state[c] = "waiting"
    BY <1>2, <1>3, TailHolds
  <1>5. /\ Somewhere(c) /\ InWalk(c) = {t} /\ InList(c) = {} /\ InTask(c) = {}
        /\ InJoin(c) = {} /\ InMutex(c) = {}
    <2>1. t \in InWalk(c) BY <1>3, <1>4 DEF InWalk
    <2>2. Somewhere(c) BY <1>4 DEF Reach, Placed, WaitsSomewhere
    <2>3. /\ One(InWalk(c)) /\ InList(c) = {} /\ InTask(c) = {}
          /\ InJoin(c) = {} /\ InMutex(c) = {}
      BY <2>1, <2>2 DEF Somewhere, Sole5
    <2> QED BY <2>1, <2>2, <2>3 DEF One
  <1>6. ASSUME NEW there, NEW doing,
               \/ there = "coro" /\ doing = "owner"
               \/ there = "join" /\ doing = "waiting",
               pc' = [pc EXCEPT ![t] = there], coro' = [coro EXCEPT ![t] = c],
               state' = [state EXCEPT ![c] = doing],
               UNCHANGED <<node, m_next, m_awaiter_que, m_task_queue, used, queue>>
        PROVE  Reach'
    <2>1. /\ Start(t)' = m_next[n]
          /\ \A u \in Threads : u # t => Start(u)' = Start(u)
      BY <1>1, <1>3, <1>6 DEF TypeOK, Start
    <2>2. InWalk(c)' = {} /\ \A d : d # c => InWalk(d)' = InWalk(d)
      <3>1. \A u \in Threads : \A d :
                Holds(Chain(m_next, Start(u)), d)' <=> Holds(Chain(m_next, Start(u)'), d)
        BY <1>6 DEF Holds
      <3>2. ASSUME NEW u \in Threads
            PROVE  /\ ~Holds(Chain(m_next, Start(u)'), c)
                   /\ \A d : d # c => (Holds(Chain(m_next, Start(u)'), d)
                                          <=> Holds(Chain(m_next, Start(u)), d))
        <4>1. CASE u = t BY <1>3, <1>4, <2>1, <4>1
        <4>2. CASE u # t BY <1>5, <2>1, <4>2 DEF InWalk
        <4> QED BY <4>1, <4>2
      <3> QED BY <3>1, <3>2 DEF InWalk
    <2>3. Linked'
      <3> DEFINE gone == {c}
      <3>1. \A d \in Coros : state[d] = "waiting" => d \in gone \/ state'[d] = "waiting"
        BY <1>6 DEF TypeOK
      <3>2. ~Holds(Listed, c) BY <1>5 DEF InList, Holds
      <3>3. ASSUME NEW i \in 1..Len(m_task_queue'), m_task_queue'[i].call = "on_notify"
            PROVE  /\ \E j \in 1..Len(m_task_queue) : m_task_queue'[i] = m_task_queue[j]
                   /\ ~Holds(Chain(m_next, m_task_queue'[i].arg), c)
        <4>1. i \in 1..Len(m_task_queue) /\ m_task_queue'[i] = m_task_queue[i]
          BY <1>6
        <4>2. i \notin InTask(c) BY <1>5
        <4> QED BY <3>3, <4>1, <4>2 DEF InTask, TaskHolds
      <3>4. ASSUME NEW u \in Threads
            PROVE  Chained(Start(u)') /\ ~Holds(Chain(m_next, Start(u)'), c)
        <4>1. CASE u = t BY <1>4, <2>1, <4>1
        <4>2. CASE u # t BY <1>5, <2>1, <4>2 DEF InWalk, Reach, Linked
        <4> QED BY <4>1, <4>2
      <3>5. /\ \A d \in gone : ~Holds(Listed, d)
            /\ \A i \in 1..Len(m_task_queue') : m_task_queue'[i].call = "on_notify" =>
                   /\ \E j \in 1..Len(m_task_queue) : m_task_queue'[i] = m_task_queue[j]
                   /\ \A d \in gone : ~Holds(Chain(m_next, m_task_queue'[i].arg), d)
            /\ \A u \in Threads : /\ Chained(Start(u)')
                                  /\ \A d \in gone : ~Holds(Chain(m_next, Start(u)'), d)
        BY <3>2, <3>3, <3>4
      <3> HIDE DEF gone
      <3> QED BY <1>6, <3>1, <3>5, LinkedAfter DEF Reach
    <2>4. Passed'
      <3>1. Listed' = Listed BY <1>6 DEF Listed
      <3>2. \A i \in 1..Len(Listed) : Listed[i] # n BY <1>2, <1>5 DEF InList
      <3> QED BY <1>1, <1>6, <3>1, <3>2 DEF TypeOK, Reach, Passed
    <2>5. ASSUME NEW d \in Coros PROVE IF WaitsSomewhere(d)' THEN Somewhere(d)' ELSE Nowhere(d)'
      <3>1. InList(d)' = InList(d) BY <1>6 DEF InList, Listed
      <3>2. InTask(d)' = InTask(d) /\ InMutex(d)' = InMutex(d) BY <1>6 DEF InTask, InMutex
      <3>3. CASE d # c
        <4>1. InJoin(d)' = InJoin(d) BY <1>3, <1>6, <3>3 DEF TypeOK, InJoin
        <4>2. WaitsSomewhere(d)' <=> WaitsSomewhere(d)
          BY <1>6, <3>3 DEF TypeOK, WaitsSomewhere
        <4>3. InWalk(d)' = InWalk(d) BY <2>2, <3>3
        <4> QED BY <3>1, <3>2, <4>1, <4>2, <4>3, SamePlaces DEF Reach
      <3>4. CASE d = c /\ there = "coro"
        <4>1. InJoin(d)' = {} BY <1>3, <1>5, <1>6, <3>4 DEF TypeOK, InJoin
        <4>2. ~WaitsSomewhere(d)' BY <1>6, <3>4 DEF TypeOK, WaitsSomewhere
        <4>3. Nowhere(d)' BY <1>5, <2>2, <3>1, <3>2, <3>4, <4>1 DEF Nowhere, Zero
        <4> QED BY <4>2, <4>3
      <3>5. CASE d = c /\ there = "join"
        <4>1. InJoin(d)' = {t} BY <1>5, <1>6, <3>5 DEF TypeOK, InJoin
        <4>2. WaitsSomewhere(d)' BY <1>6, <3>5 DEF TypeOK, WaitsSomewhere
        <4>3. One(InJoin(d)') BY <4>1 DEF One
        <4>4. Somewhere(d)' BY <1>5, <2>2, <3>1, <3>2, <3>5, <4>3 DEF Somewhere, Sole5
        <4> QED BY <4>2, <4>4
      <3> QED BY <1>6, <3>3, <3>4, <3>5
    <2> QED BY <2>3, <2>4, <2>5 DEF Reach, Placed
  <1>7. CASE M!Lock /\ Becomes(c, "owner") /\ With(t, "coro", c)
    <2>1. /\ pc' = [pc EXCEPT ![t] = "coro"] /\ coro' = [coro EXCEPT ![t] = c]
          /\ state' = [state EXCEPT ![c] = "owner"]
          /\ UNCHANGED <<node, m_next, m_awaiter_que, m_task_queue, used, queue>>
      BY <1>7 DEF Visit, M!Lock, Becomes, With, listVars
    <2> QED BY <1>6, <2>1
  <1>8. CASE /\ M!Arrive(c) /\ With(t, "join", c)
             /\ state' = [state EXCEPT ![c] = IF @ = "user" THEN "locking" ELSE @]
    <2>1. /\ pc' = [pc EXCEPT ![t] = "join"] /\ coro' = [coro EXCEPT ![t] = c]
          /\ state' = [state EXCEPT ![c] = "waiting"]
          /\ UNCHANGED <<node, m_next, m_awaiter_que, m_task_queue, used, queue>>
      BY <1>4, <1>8 DEF TypeOK, Visit, M!Arrive, With, listVars
    <2> QED BY <1>6, <2>1
  <1> QED BY <1>1, <1>2, <1>7, <1>8 DEF Visit, TryLock

\* on_notify goes on to the node that follows, where the walk already led.
LEMMA AdvanceReach ==
    ASSUME TypeOK, Locals, Reach, NEW t \in Threads, Advance(t)
    PROVE  Reach'
  <1>1. PICK n \in Nodes : n = node[t]
    BY DEF Advance, Locals
  <1>2. PICK m \in Pointers : m = m_next[n]
    BY DEF TypeOK, Links
  <1>3. /\ pc[t] = "next" /\ node' = [node EXCEPT ![t] = m] /\ n # NULL
        /\ pc' = [pc EXCEPT ![t] = IF m = NULL THEN "idle" ELSE "visit"]
        /\ UNCHANGED <<coro, m_next, m_awaiter_que, m_task_queue, state, used, queue>>
    BY <1>1, <1>2, NodesAssumption DEF Advance, mutexVars, listVars
  <1>4. \A u \in Threads : Start(u)' = Start(u)
    BY <1>1, <1>2, <1>3 DEF TypeOK, Start
  <1>5. Linked'
    <2>1. \A i \in 1..Len(m_task_queue') : m_task_queue'[i] = m_task_queue[i]
                                           /\ i \in 1..Len(m_task_queue)
      BY <1>3
    <2> QED BY <1>3, <1>4, <2>1, LinkedKept DEF Reach
  <1>6. Passed'
    <2>1. Listed' = Listed BY <1>3 DEF Listed
    <2>2. m # NULL => m[2] \in used[CoroOf(m)]
      <3>1. Chained(m) BY <1>1, <1>2, <1>3 DEF Start, Reach, Linked
      <3> QED BY <3>1, TailHolds DEF Pointers
    <2> QED BY <1>1, <1>3, <2>1, <2>2 DEF TypeOK, Reach, Passed
  <1>7. ASSUME NEW d \in Coros PROVE IF WaitsSomewhere(d)' THEN Somewhere(d)' ELSE Nowhere(d)'
    <2>1. InList(d)' = InList(d) /\ InWalk(d)' = InWalk(d) BY <1>3, <1>4, ListsSame
    <2>2. InTask(d)' = InTask(d) /\ InMutex(d)' = InMutex(d) BY <1>3 DEF InTask, InMutex
    <2>3. InJoin(d)' = InJoin(d) BY <1>3 DEF TypeOK, InJoin
    <2>4. WaitsSomewhere(d)' <=> WaitsSomewhere(d) BY <1>3 DEF WaitsSomewhere
    <2> QED BY <2>1, <2>2, <2>3, <2>4, SamePlaces DEF Reach
  <1> QED BY <1>5, <1>6, <1>7 DEF Reach, Placed

-----------------------------------------------------------------------------
(* Steps that change the Condv's list *)

\* A coroutine in the Condv's list waits, and is in no other place.
LEMMA ListedPlace ==
    ASSUME Reach, NEW i \in 1..Len(Listed)
    PROVE  LET c == CoroOf(Listed[i])
           IN  /\ Listed[i] \in Nodes /\ c \in Coros /\ WaitsSomewhere(c) /\ Somewhere(c)
               /\ One(InList(c)) /\ InList(c) # {} /\ InTask(c) = {} /\ InWalk(c) = {}
               /\ InJoin(c) = {} /\ InMutex(c) = {}
  <1> DEFINE c == CoroOf(Listed[i])
  <1>1. Listed[i] \in Nodes /\ c \in Coros
    BY SlotsAssumption DEF Reach, Linked, Represents, Path, CoroOf
  <1>2. i \in InList(c)
    BY DEF InList
  <1>3. WaitsSomewhere(c) /\ Somewhere(c)
    BY <1>1, <1>2 DEF Reach, Placed, Nowhere, Zero
  <1> HIDE DEF c
  <1>4. /\ One(InList(c)) /\ InTask(c) = {} /\ InWalk(c) = {}
        /\ InJoin(c) = {} /\ InMutex(c) = {}
    BY <1>2, <1>3 DEF Somewhere, Sole5
  <1> QED BY <1>1, <1>2, <1>3, <1>4 DEF c

\* The links of listed nodes, and of those of coroutines that do not wait, may change:
\* no other list goes through them.
LEMMA ApartKept ==
    ASSUME TypeOK, Reach, NEW Changed,
           \A n \in Nodes \ Changed : m_next'[n] = m_next[n],
           \A x \in Changed : \/ \E i \in 1..Len(Listed) : Listed[i] = x
                              \/ CoroOf(x) \in Coros /\ state[CoroOf(x)] # "waiting"
    PROVE  /\ \A i \in 1..Len(m_task_queue) : m_task_queue[i].call = "on_notify" =>
                 LET q == Chain(m_next, m_task_queue[i].arg)
                 IN  /\ Chain(m_next', m_task_queue[i].arg) = q
                     /\ Path(m_next', m_task_queue[i].arg, q)
           /\ \A t \in Threads : /\ Chain(m_next', Start(t)) = Chain(m_next, Start(t))
                                 /\ Path(m_next', Start(t), Chain(m_next, Start(t)))
  <1>1. ASSUME NEW p, Chained(p), \A x \in Changed : ~Holds(Chain(m_next, p), CoroOf(x))
        PROVE  Chain(m_next', p) = Chain(m_next, p) /\ Path(m_next', p, Chain(m_next, p))
    <2> DEFINE q == Chain(m_next, p)
    <2>1. Path(m_next, p, q) BY <1>1 DEF Chained
    <2> HIDE DEF q
    <2>2. ASSUME NEW i \in 1..Len(q) PROVE m_next'[q[i]] = m_next[q[i]]
      <3>1. q[i] \in Nodes BY <2>1 DEF Path
      <3>2. q[i] \notin Changed BY <1>1 DEF Holds, q
      <3> QED BY <3>1, <3>2
    <2>3. Path(m_next', p, q) BY <2>1, <2>2, PathKept
    <2> QED BY <2>3, PathChain DEF q
  <1>2. ASSUME NEW x \in Changed, NEW p, Chained(p),
               InTask(CoroOf(x)) = {} /\ InWalk(CoroOf(x)) = {} => ~Holds(Chain(m_next, p), CoroOf(x))
        PROVE  ~Holds(Chain(m_next, p), CoroOf(x))
    <2>1. CASE \E i \in 1..Len(Listed) : Listed[i] = x
      BY <1>2, <2>1, ListedPlace
    <2>2. CASE state[CoroOf(x)] # "waiting"
      BY <1>2, <2>2, NotHeld DEF Chained
    <2> QED BY <2>1, <2>2
  <1>3. ASSUME NEW i \in 1..Len(m_task_queue), m_task_queue[i].call = "on_notify"
        PROVE  LET q == Chain(m_next, m_task_queue[i].arg)
               IN  /\ Chain(m_next', m_task_queue[i].arg) = q
                   /\ Path(m_next', m_task_queue[i].arg, q)
    <2>1. Chained(m_task_queue[i].arg) BY <1>3 DEF Reach, Linked
    <2>2. \A x : InTask(CoroOf(x)) = {} => ~Holds(Chain(m_next, m_task_queue[i].arg), CoroOf(x))
      BY <1>3 DEF InTask, TaskHolds
    <2> QED BY <1>1, <1>2, <2>1, <2>2
  <1>4. ASSUME NEW t \in Threads
        PROVE  /\ Chain(m_next', Start(t)) = Chain(m_next, Start(t))
               /\ Path(m_next', Start(t), Chain(m_next, Start(t)))
    <2>1. Chained(Start(t)) BY DEF Reach, Linked
    <2>2. \A x : InWalk(CoroOf(x)) = {} => ~Holds(Chain(m_next, Start(t)), CoroOf(x))
      BY DEF InWalk
    <2> QED BY <1>1, <1>2, <2>1, <2>2
  <1> QED BY <1>3, <1>4

\* notify_all: the whole list becomes the task's.
LEMMA NotifyAllReach ==
    ASSUME TypeOK, Reach, NEW t \in Threads, notify_all(t)
    PROVE  Reach'
  <1>1. PICK h \in Nodes : h = m_awaiter_que.head
    BY DEF notify_all, TypeOK, Lists, Pointers
  <1>2. /\ m_awaiter_que'.head = NULL /\ m_awaiter_que'.tail = NULL
        /\ m_task_queue' = Append(m_task_queue, NotifyTask(h))
        /\ UNCHANGED <<m_next, state, used, pc, coro, node, queue>>
    BY <1>1 DEF notify_all, TypeOK, Lists, mutexVars, threadVars
  <1>3. Listed' = << >>
    BY <1>2, NullChain DEF Listed
  <1>4. \A u \in Threads : Start(u)' = Start(u)
    BY <1>2 DEF Start
  <1>5. /\ Len(m_task_queue) \in Nat /\ Len(m_task_queue') = Len(m_task_queue) + 1
        /\ m_task_queue'[Len(m_task_queue) + 1] = NotifyTask(h)
        /\ \A i \in 1..Len(m_task_queue) : m_task_queue'[i] = m_task_queue[i]
    <2>1. NotifyTask(h) \in Tasks BY PostedKinds
    <2> QED BY <1>2, <2>1 DEF TypeOK
  <1>6. \A i \in 1..Len(m_task_queue') : i \in 1..Len(m_task_queue) \/ i = Len(m_task_queue) + 1
    BY <1>5
  <1>7. Linked'
    <2>1. ASSUME NEW p, Chained(p) PROVE Chained(p)'
      BY <1>2, <2>1 DEF Chained, Waits, WaitsAs
    <2>2. Chained(h) BY <1>1 DEF Reach, Linked, Represents, Chained, Listed
    <2>3. Represents(m_awaiter_que, m_next, Listed)' /\ Waits(Listed)'
      BY <1>2, <1>3 DEF Represents, Path, Waits, WaitsAs
    <2>4. ASSUME NEW i \in 1..Len(m_task_queue'), m_task_queue'[i].call = "on_notify"
          PROVE  Chained(m_task_queue[i].arg)'
      <3>1. Chained(m_task_queue'[i].arg)
        BY <1>5, <1>6, <2>2, <2>4 DEF Reach, Linked, NotifyTask
      <3> QED BY <1>2, <3>1 DEF Chained, Waits, WaitsAs
    <2>5. ASSUME NEW u \in Threads PROVE Chained(Start(u))'
      <3>1. Chained(Start(u)') BY <1>4 DEF Reach, Linked
      <3> QED BY <1>2, <3>1 DEF Chained, Waits, WaitsAs
    <2> QED BY <2>3, <2>4, <2>5 DEF Linked
  <1>8. Passed'
    BY <1>2, <1>3 DEF Reach, Passed
  <1>9. ASSUME NEW d \in Coros PROVE IF WaitsSomewhere(d)' THEN Somewhere(d)' ELSE Nowhere(d)'
    <2>1. /\ InWalk(d)' = InWalk(d) /\ InJoin(d)' = InJoin(d) /\ InMutex(d)' = InMutex(d)
          /\ WaitsSomewhere(d)' <=> WaitsSomewhere(d)
      BY <1>2, <1>4 DEF InWalk, InJoin, InMutex, WaitsSomewhere
    <2>2. InList(d)' = {} BY <1>3 DEF InList
    <2>3. TaskHolds(m_next', NotifyTask(h), d) <=> InList(d) # {}
      BY <1>1, <1>2 DEF TaskHolds, NotifyTask, LockTask, Listed, Holds, InList
    <2>4. /\ ~TaskHolds(m_next', NotifyTask(h), d) => InTask(d)' = InTask(d)
          /\ TaskHolds(m_next', NotifyTask(h), d) /\ InTask(d) = {} => One(InTask(d)')
      <3>1. NotifyTask(h) \in Tasks BY PostedKinds
      <3> QED BY <1>2, <3>1, PostTask
    <2>5. CASE InList(d) = {}
      BY <2>1, <2>2, <2>3, <2>4, <2>5, SamePlaces DEF Reach
    <2>6. CASE InList(d) # {}
      <3>1. WaitsSomewhere(d) /\ Somewhere(d)
        BY <2>6 DEF Reach, Placed, Nowhere, Zero
      <3>2. InTask(d) = {} /\ InWalk(d) = {} /\ InJoin(d) = {} /\ InMutex(d) = {}
        BY <2>6, <3>1 DEF Somewhere, Sole5
      <3>3. Somewhere(d)' BY <2>1, <2>2, <2>3, <2>4, <2>6, <3>2 DEF Somewhere, Sole5
      <3> QED BY <2>1, <3>1, <3>3
    <2> QED BY <2>5, <2>6
  <1> QED BY <1>7, <1>8, <1>9 DEF Reach, Placed

\* What notify_one does to the list: the first node leaves, linked to nothing.
LEMMA NotifyOneLists ==
    ASSUME TypeOK, Reach, NEW t \in Threads, notify_one(t)
    PROVE  /\ Len(Listed) \in Nat /\ Len(Listed) # 0 /\ Listed[1] \in Nodes
           /\ m_next' = [m_next EXCEPT ![Listed[1]] = NULL]
           /\ m_task_queue' = Append(m_task_queue, NotifyTask(Listed[1]))
           /\ Listed' = Tail(Listed) /\ Len(Listed') = Len(Listed) - 1
           /\ \A i \in 1..Len(Listed') : Listed'[i] = Listed[i + 1]
           /\ Represents(m_awaiter_que, m_next, Listed)'
           /\ UNCHANGED <<state, used, pc, coro, node, queue>>
  <1>1. PICK h \in Nodes : h = m_awaiter_que.head
    BY DEF notify_one, TypeOK, Lists, Pointers
  <1>2. /\ m_awaiter_que' = PopList(m_awaiter_que, m_next) /\ h # NULL
        /\ m_next' = [m_next EXCEPT ![h] = NULL]
        /\ m_task_queue' = Append(m_task_queue, NotifyTask(h))
        /\ UNCHANGED <<state, used, pc, coro, node, queue>>
    BY <1>1, NodesAssumption DEF notify_one, mutexVars, threadVars
  <1> DEFINE q == Listed
             r == Tail(q)
  <1>3. Represents(m_awaiter_que, m_next, q) /\ Path(m_next, h, q)
    BY <1>1 DEF Reach, Linked, Represents
  <1>4. q # << >> /\ h = q[1] /\ \A i \in 1..Len(r) : r[i] # h
    BY <1>2, <1>3, PathTail
  <1>5. q \in Seq(Nodes) /\ Len(q) # 0
    BY <1>3, <1>4 DEF Path
  <1>6. Represents(m_awaiter_que', m_next, r)
    <2> HIDE DEF q
    <2> QED BY <1>2, <1>3, <1>5, PopRepresents DEF TypeOK
  <1>7. Path(m_next', m_awaiter_que'.head, r)
    <2>1. Path(m_next, m_awaiter_que'.head, r) BY <1>6 DEF Represents
    <2>2. \A i \in 1..Len(r) : m_next'[r[i]] = m_next[r[i]]
      BY <1>2, <1>4, <2>1 DEF TypeOK, Links, Path
    <2> HIDE DEF r
    <2> QED BY <2>1, <2>2, PathKept
  <1>8. Listed' = r
    BY <1>7, PathChain DEF Listed
  <1>9. Represents(m_awaiter_que, m_next, Listed)'
    BY <1>6, <1>7, <1>8 DEF Represents
  <1> QED BY <1>2, <1>4, <1>5, <1>8, <1>9

\* notify_one: the first node of the list becomes the task's.
LEMMA NotifyOneReach ==
    ASSUME TypeOK, Reach, NEW t \in Threads, notify_one(t)
    PROVE  Reach'
  <1>1. PICK h \in Nodes : h = Listed[1]
    BY NotifyOneLists
  <1>2. /\ m_task_queue' = Append(m_task_queue, NotifyTask(h))
        /\ m_next' = [m_next EXCEPT ![h] = NULL]
        /\ UNCHANGED <<state, used, pc, coro, node, queue>>
    BY <1>1, NotifyOneLists
  <1>3. /\ Len(Listed) \in Nat /\ Len(Listed) # 0 /\ 1 \in 1..Len(Listed)
        /\ \A i \in 1..Len(Listed') : /\ Listed'[i] = Listed[i + 1]
                                      /\ i + 1 \in 1..Len(Listed) /\ i + 1 # 1
        /\ Represents(m_awaiter_que, m_next, Listed)'
        /\ Len(Listed') = Len(Listed) - 1
    BY NotifyOneLists
  <1>4. /\ \A i \in 1..Len(m_task_queue) : m_task_queue[i].call = "on_notify" =>
              LET q == Chain(m_next, m_task_queue[i].arg)
              IN  /\ Chain(m_next', m_task_queue[i].arg) = q
                  /\ Path(m_next', m_task_queue[i].arg, q)
        /\ \A u \in Threads : /\ Chain(m_next', Start(u)) = Chain(m_next, Start(u))
                              /\ Path(m_next', Start(u), Chain(m_next, Start(u)))
    <2> DEFINE changed == {h}
    <2>1. /\ \A n \in Nodes \ changed : m_next'[n] = m_next[n]
          /\ \A x \in changed : \/ \E i \in 1..Len(Listed) : Listed[i] = x
                                \/ CoroOf(x) \in Coros /\ state[CoroOf(x)] # "waiting"
      BY <1>1, <1>2, <1>3 DEF TypeOK, Links
    <2> HIDE DEF changed
    <2> QED BY <2>1, ApartKept
  <1>5. \A u \in Threads : Start(u)' = Start(u)
    <2> SUFFICES ASSUME NEW u \in Threads PROVE Start(u)' = Start(u)
      OBVIOUS
    <2>1. node[u] # NULL /\ pc[u] # "visit" => node[u] # h
      BY <1>1, <1>3 DEF Reach, Passed
    <2>2. node[u] \in Pointers BY DEF TypeOK
    <2> QED BY <1>2, <2>1, <2>2 DEF TypeOK, Links, Pointers, Start
  <1>6. /\ Len(m_task_queue) \in Nat /\ Len(m_task_queue') = Len(m_task_queue) + 1
        /\ m_task_queue'[Len(m_task_queue) + 1] = NotifyTask(h)
        /\ \A i \in 1..Len(m_task_queue) : m_task_queue'[i] = m_task_queue[i]
    <2>1. NotifyTask(h) \in Tasks BY PostedKinds
    <2> QED BY <1>2, <2>1 DEF TypeOK
  <1>7. \A i \in 1..Len(m_task_queue') : i \in 1..Len(m_task_queue) \/ i = Len(m_task_queue) + 1
    BY <1>6
  <1>8. /\ Path(m_next', h, <<h>>) /\ Chain(m_next', h) = <<h>>
    <2>1. Path(m_next', h, <<h>>) BY <1>2 DEF Path, TypeOK, Links
    <2> QED BY <2>1, PathChain
  <1>9. Linked'
    <2>0. \A q : Waits(q) => WaitsAs(state', used', q)
      BY <1>2 DEF Waits
    <2>1. Waits(Listed)'
      <3>1. Waits(Listed) BY DEF Reach, Linked
      <3>2. ASSUME NEW i \in 1..Len(Listed'), NEW j \in 1..Len(Listed'),
                   CoroOf(Listed'[i]) = CoroOf(Listed'[j])
            PROVE  i = j
        <4>1. i + 1 = j + 1 BY <1>3, <3>1, <3>2 DEF Waits, WaitsAs
        <4> QED BY <4>1
      <3>3. WaitsAs(state', used', Listed')
        <4>1. WaitsAs(state', used', Listed) BY <2>0, <3>1
        <4>2. ASSUME NEW i \in 1..Len(Listed')
              PROVE  /\ state'[CoroOf(Listed'[i])] = "waiting"
                     /\ Listed'[i][2] \in used'[CoroOf(Listed'[i])]
          <5>1. Listed'[i] = Listed[i + 1] /\ i + 1 \in 1..Len(Listed) BY <1>3
          <5>2. /\ state'[CoroOf(Listed[i + 1])] = "waiting"
                /\ Listed[i + 1][2] \in used'[CoroOf(Listed[i + 1])]
            BY <4>1, <5>1 DEF WaitsAs
          <5> QED BY <5>1, <5>2
        <4> QED BY <3>2, <4>2, Zenon DEF WaitsAs
      <3> QED BY <3>3 DEF Waits
    <2>2. ASSUME NEW i \in 1..Len(m_task_queue'), m_task_queue'[i].call = "on_notify"
          PROVE  Chained(m_task_queue[i].arg)'
      <3>1. CASE i \in 1..Len(m_task_queue)
        <4>1. Waits(Chain(m_next, m_task_queue[i].arg))
          BY <1>6, <2>2, <3>1 DEF Reach, Linked, Chained
        <4>2. m_task_queue'[i] = m_task_queue[i] /\ m_task_queue[i].call = "on_notify"
          BY <1>6, <2>2, <3>1
        <4> QED BY <1>4, <2>0, <3>1, <4>1, <4>2 DEF Chained, Waits
      <3>2. CASE i = Len(m_task_queue) + 1
        <4>1. Waits(<<h>>)
          BY <1>1, <1>3 DEF Reach, Linked, Waits, WaitsAs
        <4>2. m_task_queue'[i].arg = h BY <1>6, <3>2 DEF NotifyTask
        <4> QED BY <1>8, <2>0, <4>1, <4>2 DEF Chained, Waits
      <3> QED BY <1>7, <3>1, <3>2
    <2>3. ASSUME NEW u \in Threads PROVE Chained(Start(u))'
      <3>1. Waits(Chain(m_next, Start(u))) BY DEF Reach, Linked, Chained
      <3> QED BY <1>4, <1>5, <2>0, <3>1 DEF Chained, Waits
    <2> QED BY <1>3, <2>1, <2>2, <2>3 DEF Linked
  <1>10. Passed'
    BY <1>2, <1>3 DEF Reach, Passed
  <1>11. ASSUME NEW d \in Coros PROVE IF WaitsSomewhere(d)' THEN Somewhere(d)' ELSE Nowhere(d)'
    <2>1. /\ InJoin(d)' = InJoin(d) /\ InMutex(d)' = InMutex(d)
          /\ WaitsSomewhere(d)' <=> WaitsSomewhere(d)
      BY <1>2 DEF InJoin, InMutex, WaitsSomewhere
    <2>2. InWalk(d)' = InWalk(d)
      BY <1>4, <1>5 DEF InWalk
    <2>3. /\ InList(d)' = {i \in 1..(Len(Listed) - 1) : i + 1 \in InList(d)}
          /\ InList(d) \in SUBSET (1..Len(Listed))
          /\ 1 \in InList(d) <=> CoroOf(h) = d
      BY <1>1, <1>3 DEF InList
    <2>4. TaskHolds(m_next', NotifyTask(h), d) <=> CoroOf(h) = d
      <3>1. Holds(<<h>>, d) <=> CoroOf(h) = d
        <4>1. Len(<<h>>) = 1 /\ <<h>>[1] = h /\ 1 \in 1..1 /\ \A i \in 1..1 : i = 1 OBVIOUS
        <4> QED BY <4>1 DEF Holds
      <3>2. TaskHolds(m_next', NotifyTask(h), d) <=> Holds(Chain(m_next', h), d)
        BY DEF TaskHolds, NotifyTask, LockTask
      <3> QED BY <1>8, <3>1, <3>2
    <2>5. /\ ~TaskHolds(m_next', NotifyTask(h), d) => InTask(d)' = InTask(d)
          /\ TaskHolds(m_next', NotifyTask(h), d) /\ InTask(d) = {} => One(InTask(d)')
      <3>1. NotifyTask(h) \in Tasks BY PostedKinds
      <3>2. \A i \in 1..Len(m_task_queue) :
               TaskHolds(m_next', m_task_queue[i], d) <=> TaskHolds(m_next, m_task_queue[i], d)
        BY <1>4 DEF TaskHolds
      <3> QED BY <1>2, <3>1, <3>2, PostTask
    <2>6. CASE CoroOf(h) # d
      <3>1. Kept(InList(d), InList(d)')
        BY <1>3, <2>3, <2>6, Shift
      <3>2. /\ Kept(InTask(d), InTask(d)') /\ Kept(InWalk(d), InWalk(d)')
            /\ Kept(InJoin(d), InJoin(d)') /\ Kept(InMutex(d), InMutex(d)')
        BY <2>1, <2>2, <2>4, <2>5, <2>6 DEF Kept
      <3> QED BY <2>1, <3>1, <3>2, PlacedKept DEF Reach
    <2>7. CASE CoroOf(h) = d
      <3>1. /\ WaitsSomewhere(d) /\ One(InList(d)) /\ InTask(d) = {} /\ InWalk(d) = {}
            /\ InJoin(d) = {} /\ InMutex(d) = {}
        BY <1>1, <1>3, <2>7, ListedPlace
      <3>2. InList(d)' = {} BY <1>3, <2>3, <2>7, <3>1, Shift
      <3>3. Somewhere(d)' BY <2>1, <2>2, <2>4, <2>5, <2>7, <3>1, <3>2 DEF Somewhere, Sole5
      <3> QED BY <2>1, <3>1, <3>3
    <2> QED BY <2>6, <2>7
  <1> QED BY <1>9, <1>10, <1>11 DEF Reach, Placed

\* What await_suspend does to the list: the awaiter's node ends it.
LEMMA WaitLists ==
    ASSUME TypeOK, Reach, NEW t \in Threads, NEW s \in Slots, Wait(t, s), NEW n \in Nodes,
           n = <<coro[t], s>>, \A i \in 1..Len(Listed) : Listed[i] # n
    PROVE  /\ Listed' = Append(Listed, n) /\ Listed \in Seq(Nodes)
           /\ Represents(m_awaiter_que, m_next, Listed)'
           /\ \A x \in Nodes \ {n, m_awaiter_que.tail} : m_next'[x] = m_next[x]
           /\ m_awaiter_que.tail # NULL =>
                 Len(Listed) \in 1..Len(Listed) /\ m_awaiter_que.tail = Listed[Len(Listed)]
  <1>1. m_awaiter_que' = PushList(m_awaiter_que, n) /\ m_next' = PushLinks(m_awaiter_que, m_next, n)
    BY DEF Wait
  <1>2. m_awaiter_que \in Lists /\ m_next \in Links
    BY DEF TypeOK
  <1>3. Represents(m_awaiter_que, m_next, Listed) /\ Listed \in Seq(Nodes)
    BY DEF Reach, Linked, Represents, Path
  <1> DEFINE q == Listed
  <1>4. Represents(m_awaiter_que', m_next', Append(q, n))
    <2> HIDE DEF q
    <2>1. \A i \in 1..Len(q) : q[i] # n BY DEF q
    <2>2. Represents(m_awaiter_que, m_next, q) BY <1>3 DEF q
    <2> QED BY <1>1, <1>2, <2>1, <2>2, PushRepresents
  <1>5. Listed' = Append(q, n)
    <2>1. Path(m_next', m_awaiter_que'.head, Append(q, n)) BY <1>4 DEF Represents
    <2> QED BY <2>1, PathChain DEF Listed
  <1>6. Represents(m_awaiter_que, m_next, Listed)'
    BY <1>4, <1>5
  <1>7. ASSUME NEW x \in Nodes \ {n, m_awaiter_que.tail} PROVE m_next'[x] = m_next[x]
    BY <1>1, <1>2, <1>7 DEF PushLinks, Links
  <1>8. m_awaiter_que.tail # NULL =>
            Len(Listed) \in 1..Len(Listed) /\ m_awaiter_que.tail = Listed[Len(Listed)]
    <2> HIDE DEF q
    <2>1. m_awaiter_que.tail = (IF Len(q) = 0 THEN NULL ELSE q[Len(q)]) /\ q \in Seq(Nodes)
      BY <1>3 DEF Represents, q
    <2>2. Len(q) \in Nat BY <2>1
    <2>3. m_awaiter_que.tail # NULL => Len(q) \in 1..Len(q) /\ m_awaiter_que.tail = q[Len(q)]
      BY <2>1, <2>2
    <2> QED BY <2>3 DEF q
  <1> QED BY <1>3, <1>5, <1>6, <1>7, <1>8

\* await_suspend, with an awaiter where none was before.
LEMMA WaitReach ==
    ASSUME TypeOK, Locals, Reach, ~SlotsReused, NEW t \in Threads, NEW s \in Slots, Wait(t, s)
    PROVE  Reach'
  <1>1. PICK c \in Coros : c = coro[t]
    BY DEF Wait, Runs, Locals
  <1>2. PICK n \in Nodes : n = <<c, s>>
    BY <1>1 DEF Wait
  <1>3. /\ pc[t] = "coro" /\ state[c] = "owner" /\ s \notin used[c]
        /\ CoroOf(n) = c /\ n[2] = s /\ n = <<coro[t], s>>
    BY <1>1, <1>2 DEF Wait, Runs, CoroOf
  <1>4. /\ used' = [used EXCEPT ![c] = @ \cup {s}] /\ state' = [state EXCEPT ![c] = "waiting"]
        /\ pc' = [pc EXCEPT ![t] = "unlock"] /\ coro' = [coro EXCEPT ![t] = c]
        /\ UNCHANGED <<node, m_task_queue, queue>>
    BY <1>1 DEF Wait, Becomes, With, mutexVars
  <1>5. Nowhere(c)
    BY <1>3 DEF Reach, Placed, WaitsSomewhere
  <1>6. \A i \in 1..Len(Listed) : CoroOf(Listed[i]) # c /\ Listed[i] # n
    BY <1>3, <1>5 DEF Nowhere, Zero, InList
  <1>7. /\ Listed' = Append(Listed, n) /\ Listed \in Seq(Nodes)
        /\ Represents(m_awaiter_que, m_next, Listed)'
        /\ \A x \in Nodes \ {n, m_awaiter_que.tail} : m_next'[x] = m_next[x]
        /\ m_awaiter_que.tail # NULL =>
              Len(Listed) \in 1..Len(Listed) /\ m_awaiter_que.tail = Listed[Len(Listed)]
    BY <1>3, <1>6, WaitLists
  <1>8. /\ Len(Listed) \in Nat /\ Len(Listed') = Len(Listed) + 1
        /\ Listed'[Len(Listed) + 1] = n
        /\ \A i \in 1..Len(Listed) : Listed'[i] = Listed[i]
        /\ \A i \in 1..Len(Listed') : i \in 1..Len(Listed) \/ i = Len(Listed) + 1
    <2> DEFINE q == Listed
    <2>1. q \in Seq(Nodes) /\ Listed' = Append(q, n) BY <1>7
    <2> HIDE DEF q
    <2>2. /\ Len(q) \in Nat /\ Len(Listed') = Len(q) + 1 /\ Listed'[Len(q) + 1] = n
          /\ \A i \in 1..Len(q) : Listed'[i] = q[i]
      BY <2>1
    <2>3. \A i \in 1..Len(Listed') : i \in 1..Len(q) \/ i = Len(q) + 1
      BY <2>2
    <2> QED BY <2>2, <2>3 DEF q
  <1>9. /\ \A i \in 1..Len(m_task_queue) : m_task_queue[i].call = "on_notify" =>
              LET q == Chain(m_next, m_task_queue[i].arg)
              IN  /\ Chain(m_next', m_task_queue[i].arg) = q
                  /\ Path(m_next', m_task_queue[i].arg, q)
        /\ \A u \in Threads : /\ Chain(m_next', Start(u)) = Chain(m_next, Start(u))
                              /\ Path(m_next', Start(u), Chain(m_next, Start(u)))
    <2> DEFINE changed == {x \in Nodes : x = n \/ x = m_awaiter_que.tail}
    <2>1. \A x \in Nodes \ changed : m_next'[x] = m_next[x]
      BY <1>7
    <2>2. ASSUME NEW x \in changed
          PROVE  \/ \E i \in 1..Len(Listed) : Listed[i] = x
                 \/ CoroOf(x) \in Coros /\ state[CoroOf(x)] # "waiting"
      <3>1. CASE x = n BY <1>3, <3>1
      <3>2. CASE x = m_awaiter_que.tail
        <4>1. x # NULL BY NodesAssumption
        <4> QED BY <1>7, <3>2, <4>1
      <3> QED BY <3>1, <3>2
    <2> HIDE DEF changed
    <2> QED BY <2>1, <2>2, ApartKept
  <1>10. \A u \in Threads : Start(u)' = Start(u)
    <2> SUFFICES ASSUME NEW u \in Threads PROVE Start(u)' = Start(u)
      OBVIOUS
    <2>1. CASE node[u] = NULL \/ pc[u] = "visit"
      BY <1>3, <1>4, <2>1 DEF TypeOK, Start
    <2>2. CASE node[u] # NULL /\ pc[u] # "visit"
      <3>1. PICK x \in Nodes : x = node[u] BY <2>2 DEF TypeOK, Pointers
      <3>2. x # n BY <1>3, <2>2, <3>1 DEF Reach, Passed
      <3>3. x # m_awaiter_que.tail
        <4>1. \A i \in 1..Len(Listed) : Listed[i] # x BY <2>2, <3>1 DEF Reach, Passed
        <4>2. x # NULL BY NodesAssumption
        <4> QED BY <1>7, <4>1, <4>2
      <3>4. m_next'[x] = m_next[x] BY <1>7, <3>2, <3>3
      <3>5. pc'[u] # "visit" BY <1>4, <2>2 DEF TypeOK
      <3> QED BY <1>4, <2>2, <3>1, <3>4, <3>5 DEF Start
    <2> QED BY <2>1, <2>2
  <1>11. \A q : Waits(q) => WaitsAs(state', used', q)
    <2>1. \A d : state[d] = "waiting" => state'[d] = "waiting" BY <1>3, <1>4 DEF TypeOK
    <2>2. \A d : used[d] \subseteq used'[d] BY <1>4 DEF TypeOK
    <2> QED BY <2>1, <2>2 DEF Waits, WaitsAs
  <1>12. Linked'
    <2>1. Waits(Listed)'
      <3>1. WaitsAs(state', used', Listed) BY <1>11 DEF Reach, Linked
      <3>2. state'[c] = "waiting" /\ s \in used'[c] BY <1>4 DEF TypeOK
      <3>3. ASSUME NEW i \in 1..Len(Listed')
            PROVE  /\ state'[CoroOf(Listed'[i])] = "waiting"
                   /\ Listed'[i][2] \in used'[CoroOf(Listed'[i])]
        <4>1. CASE i \in 1..Len(Listed) BY <1>8, <3>1, <4>1 DEF WaitsAs
        <4>2. CASE i = Len(Listed) + 1 BY <1>3, <1>8, <3>2, <4>2
        <4> QED BY <1>8, <4>1, <4>2
      <3>4. ASSUME NEW i \in 1..Len(Listed'), NEW j \in 1..Len(Listed'),
                   CoroOf(Listed'[i]) = CoroOf(Listed'[j])
            PROVE  i = j
        <4>1. CASE i \in 1..Len(Listed) /\ j \in 1..Len(Listed)
          BY <1>8, <3>1, <3>4, <4>1 DEF WaitsAs
        <4>2. CASE i \in 1..Len(Listed) /\ j = Len(Listed) + 1
          BY <1>3, <1>6, <1>8, <3>4, <4>2
        <4>3. CASE i = Len(Listed) + 1 /\ j \in 1..Len(Listed)
          BY <1>3, <1>6, <1>8, <3>4, <4>3
        <4> QED BY <1>8, <4>1, <4>2, <4>3
      <3> QED BY <3>3, <3>4, Zenon DEF Waits, WaitsAs
    <2>2. ASSUME NEW i \in 1..Len(m_task_queue'), m_task_queue'[i].call = "on_notify"
          PROVE  Chained(m_task_queue[i].arg)'
      <3>1. /\ i \in 1..Len(m_task_queue) /\ m_task_queue'[i] = m_task_queue[i]
            /\ m_task_queue[i].call = "on_notify"
        BY <1>4, <2>2
      <3>2. Waits(Chain(m_next, m_task_queue[i].arg)) BY <3>1 DEF Reach, Linked, Chained
      <3> QED BY <1>9, <1>11, <3>1, <3>2 DEF Chained, Waits
    <2>3. ASSUME NEW u \in Threads PROVE Chained(Start(u))'
      <3>1. Waits(Chain(m_next, Start(u))) BY DEF Reach, Linked, Chained
      <3> QED BY <1>9, <1>10, <1>11, <3>1 DEF Chained, Waits
    <2> QED BY <1>7, <2>1, <2>2, <2>3 DEF Linked
  <1>13. Passed'
    <2> SUFFICES ASSUME NEW u \in Threads
                 PROVE  /\ pc'[u] = "idle" => node'[u] = NULL
                        /\ node'[u] # NULL => node'[u][2] \in used'[CoroOf(node'[u])]
                        /\ node'[u] # NULL /\ pc'[u] # "visit" =>
                              \A i \in 1..Len(Listed') : Listed'[i] # node'[u]
      BY DEF Passed
    <2>1. pc'[u] = "idle" => node'[u] = NULL
      BY <1>4 DEF TypeOK, Reach, Passed
    <2>2. node'[u] # NULL => node'[u][2] \in used'[CoroOf(node'[u])]
      BY <1>4 DEF TypeOK, Reach, Passed
    <2>3. ASSUME node[u] # NULL, pc[u] # "visit", NEW i \in 1..Len(Listed')
          PROVE  Listed'[i] # node[u]
      <3>1. node[u] # n BY <1>3, <2>3 DEF Reach, Passed
      <3>2. \A j \in 1..Len(Listed) : Listed[j] # node[u] BY <2>3 DEF Reach, Passed
      <3> QED BY <1>8, <3>1, <3>2
    <2>4. pc'[u] # "visit" => pc[u] # "visit"
      BY <1>3, <1>4 DEF TypeOK
    <2> QED BY <1>4, <2>1, <2>2, <2>3, <2>4
  <1>14. ASSUME NEW d \in Coros PROVE IF WaitsSomewhere(d)' THEN Somewhere(d)' ELSE Nowhere(d)'
    <2>1. InJoin(d)' = InJoin(d) BY <1>3, <1>4, JoinSame
    <2>2. InMutex(d)' = InMutex(d) BY <1>4 DEF InMutex
    <2>3. InWalk(d)' = InWalk(d) BY <1>9, <1>10 DEF InWalk
    <2>4. InTask(d)' = InTask(d) BY <1>4, <1>9 DEF InTask, TaskHolds
    <2>5. CASE d # c
      <3>1. InList(d)' = InList(d)
        <4>1. \A i \in 1..Len(Listed) : i \in 1..Len(Listed') BY <1>8
        <4>2. CoroOf(Listed'[Len(Listed) + 1]) # d BY <1>3, <1>8, <2>5
        <4> QED BY <1>8, <4>1, <4>2 DEF InList
      <3>2. WaitsSomewhere(d)' <=> WaitsSomewhere(d) BY <1>4, <2>5 DEF TypeOK, WaitsSomewhere
      <3> QED BY <2>1, <2>2, <2>3, <2>4, <3>1, <3>2, SamePlaces DEF Reach
    <2>6. CASE d = c
      <3>1. WaitsSomewhere(d)' BY <1>4, <2>6 DEF TypeOK, WaitsSomewhere
      <3>2. InList(d)' = {Len(Listed) + 1}
        <4>1. Len(Listed) + 1 \in 1..Len(Listed') BY <1>8
        <4>2. \A i \in 1..Len(Listed') : CoroOf(Listed'[i]) = d <=> i = Len(Listed) + 1
          BY <1>3, <1>6, <1>8, <2>6
        <4> QED BY <4>1, <4>2 DEF InList
      <3>3. One(InList(d)') BY <3>2 DEF One
      <3>4. Somewhere(d)'
        BY <1>5, <2>1, <2>2, <2>3, <2>4, <2>6, <3>3 DEF Nowhere, Zero, Somewhere, Sole5
      <3> QED BY <3>1, <3>4
    <2> QED BY <2>5, <2>6
  <1> QED BY <1>12, <1>13, <1>14 DEF Reach, Placed

-----------------------------------------------------------------------------
LEMMA InitReach == Init => Reach
  <1> SUFFICES ASSUME Init PROVE Reach
    OBVIOUS
  <1>1. /\ queue = << >> /\ m_awaiter_que.head = NULL /\ m_awaiter_que.tail = NULL
        /\ m_task_queue = << >> /\ state = [c \in Coros |-> "away"]
        /\ pc = [t \in Threads |-> "idle"] /\ node = [t \in Threads |-> NULL]
    BY DEF Init, M!Init, EmptyList
  <1>2. Listed = << >> /\ Path(m_next, NULL, << >>) /\ Chain(m_next, NULL) = << >>
    BY <1>1, NullChain DEF Listed
  <1>3. Waits(<< >>)
    BY DEF Waits, WaitsAs
  <1>4. \A t \in Threads : Start(t) = NULL
    BY <1>1 DEF Start
  <1>5. Linked
    BY <1>1, <1>2, <1>3, <1>4 DEF Linked, Represents, Chained
  <1>6. Passed
    BY <1>1 DEF Passed
  <1>7. ASSUME NEW c \in Coros PROVE Nowhere(c) /\ ~WaitsSomewhere(c)
    <2>1. InList(c) = {} /\ InTask(c) = {} /\ InMutex(c) = {}
      BY <1>1, <1>2 DEF InList, InTask, InMutex
    <2>2. InWalk(c) = {} /\ InJoin(c) = {}
      BY <1>1, <1>2, <1>4 DEF InWalk, InJoin, Holds
    <2> QED BY <1>1, <2>1, <2>2 DEF Nowhere, Zero, WaitsSomewhere
  <1> QED BY <1>5, <1>6, <1>7 DEF Reach, Placed

LEMMA NextReach ==
    ASSUME TypeOK, Locals, Reach, ~SlotsReused, [Next]_vars
    PROVE  Reach'
  <1>1. ASSUME NEW t \in Threads,
               \/ \E c \in Coros : Resume(t, c)
               \/ Suspend(t) \/ UnlockMutex(t) \/ WaitUnlock(t)
        PROVE  Reach'
    BY <1>1, QuietReach
  <1>2. ASSUME NEW t \in Threads,
               LockMutex(t) \/ JoinMutex(t) \/ RunTask(t) \/ Visit(t) \/ Advance(t)
        PROVE  Reach'
    BY <1>2, LockReach, JoinReach, RunTaskReach, VisitReach, AdvanceReach
  <1>3. ASSUME NEW t \in Threads,
               notify_one(t) \/ notify_all(t) \/ \E s \in Slots : Wait(t, s)
        PROVE  Reach'
    BY <1>3, NotifyOneReach, NotifyAllReach, WaitReach
  <1>4. CASE UNCHANGED vars
    <2>1. UNCHANGED <<queue, m_awaiter_que, m_next, m_task_queue, state, used, pc, coro, node>>
      BY <1>4 DEF vars
    <2>2. Listed' = Listed /\ \A t \in Threads : Start(t)' = Start(t)
      BY <2>1 DEF Listed, Start
    <2>3. Linked'
      <3>1. \A i \in 1..Len(m_task_queue') : m_task_queue'[i] = m_task_queue[i]
                                             /\ i \in 1..Len(m_task_queue)
        BY <2>1
      <3> QED BY <2>1, <2>2, <3>1, LinkedKept DEF Reach
    <2>4. Passed' BY <2>1, <2>2 DEF Reach, Passed
    <2>5. ASSUME NEW d \in Coros PROVE IF WaitsSomewhere(d)' THEN Somewhere(d)' ELSE Nowhere(d)'
      <3>1. InList(d)' = InList(d) /\ InWalk(d)' = InWalk(d) BY <2>1, <2>2, ListsSame
      <3>2. /\ InTask(d)' = InTask(d) /\ InMutex(d)' = InMutex(d) /\ InJoin(d)' = InJoin(d)
            /\ WaitsSomewhere(d)' <=> WaitsSomewhere(d)
        BY <2>1 DEF InTask, InMutex, InJoin, WaitsSomewhere
      <3> QED BY <3>1, <3>2, SamePlaces DEF Reach
    <2> QED BY <2>3, <2>4, <2>5 DEF Reach, Placed
  <1> QED BY <1>1, <1>2, <1>3, <1>4 DEF Next, Leave, Proceed

\* While no awaiter is built where another was, the lists stay as Reach has them.
THEOREM Reachable == ~SlotsReused => (Spec => [](IInv /\ Reach))
  <1> SUFFICES ASSUME ~SlotsReused PROVE Spec => [](IInv /\ Reach)
    OBVIOUS
  <1>1. Init => IInv /\ Reach
    BY InitIInv, InitReach
  <1>2. IInv /\ Reach /\ [Next]_vars => (IInv /\ Reach)'
    BY NextTypes, NextSole, NextReach DEF IInv
  <1> QED BY <1>1, <1>2, PTL DEF Spec

Tagged(kind, S) == {<<kind, x>> : x \in S}

LEMMA TaggedPlaces ==
    ASSUME NEW S, NEW kind
    PROVE  (S = {} => Tagged(kind, S) = {}) /\ (One(S) => \E y : Tagged(kind, S) = {y})
  <1>1. ASSUME One(S) PROVE \E y : Tagged(kind, S) = {y}
    <2>1. PICK z : S = {z} BY <1>1 DEF One
    <2>2. Tagged(kind, S) = {<<kind, z>>} BY <2>1 DEF Tagged
    <2> QED BY <2>2
  <1>2. S = {} => Tagged(kind, S) = {} BY DEF Tagged
  <1> QED BY <1>1, <1>2

\* Every coroutine that waits for the Condv or the Mutex is in exactly one of the lists,
\* tasks and walks that lead to it, and any other one in none: no waiter is lost and
\* none is resumed twice, if no coroutine builds an awaiter where an earlier one was.
THEOREM WaitersInOnePlace == ~SlotsReused => (Spec => []WaitersReachable)
  <1>1. ASSUME IInv, Reach PROVE WaitersReachable
    <2> SUFFICES ASSUME NEW c \in Coros
                 PROVE  Cardinality(Places(c)) = IF WaitsSomewhere(c) THEN 1 ELSE 0
      BY DEF WaitersReachable, WaitsSomewhere
    <2>1. ASSUME NEW p, Chained(p)
          PROVE  (\E n \in Range(Chain(m_next, p)) : CoroOf(n) = c) <=> Holds(Chain(m_next, p), c)
      <3> DEFINE q == Chain(m_next, p)
      <3>1. DOMAIN q = 1..Len(q) BY <2>1 DEF Chained, Path
      <3> HIDE DEF q
      <3>2. (\E n \in Range(q) : CoroOf(n) = c) <=> Holds(q, c) BY <3>1 DEF Range, Holds
      <3> QED BY <3>2 DEF q
    <2>2. {j \in DOMAIN Listed : CoroOf(Listed[j]) = c} = InList(c)
      BY <1>1 DEF Reach, Linked, Represents, Path, InList
    <2>3. {j \in DOMAIN m_task_queue :
             \/ m_task_queue[j] = LockTask(c)
             \/ /\ m_task_queue[j].call = "on_notify"
                /\ \E n \in Range(Chain(m_next, m_task_queue[j].arg)) : CoroOf(n) = c}
          = InTask(c)
      <3>1. DOMAIN m_task_queue = 1..Len(m_task_queue) BY <1>1 DEF IInv, TypeOK
      <3>2. ASSUME NEW j \in 1..Len(m_task_queue), m_task_queue[j].call = "on_notify"
            PROVE  (\E n \in Range(Chain(m_next, m_task_queue[j].arg)) : CoroOf(n) = c)
                      <=> Holds(Chain(m_next, m_task_queue[j].arg), c)
        BY <1>1, <2>1, <3>2 DEF Reach, Linked
      <3> QED BY <3>1, <3>2 DEF InTask, TaskHolds
    <2>4. {u \in Threads : \E n \in Range(Ahead(u)) : CoroOf(n) = c} = InWalk(c)
      <3> SUFFICES ASSUME NEW u \in Threads
                   PROVE  (\E n \in Range(Ahead(u)) : CoroOf(n) = c)
                             <=> Holds(Chain(m_next, Start(u)), c)
        BY DEF InWalk
      <3>1. Ahead(u) = Chain(m_next, Start(u))
        BY NullChain DEF Ahead, Start
      <3> QED BY <1>1, <2>1, <3>1 DEF Reach, Linked
    <2> DEFINE listed == Tagged("condv", InList(c))
               posted == Tagged("task", InTask(c))
               walked == Tagged("on_notify", InWalk(c))
               joining == Tagged("join", InJoin(c))
               queued == Tagged("mutex", InMutex(c))
    <2>5. Places(c) = listed \cup posted \cup walked \cup joining \cup queued
      <3>1. DOMAIN queue = 1..Len(queue) BY <1>1 DEF IInv, TypeOK
      <3>2. queued = {<<"mutex", i>> : i \in {j \in DOMAIN queue : queue[j] = c}}
        BY <3>1 DEF InMutex, Tagged
      <3>3. joining = {<<"join", t>> : t \in {u \in Threads : pc[u] = "join" /\ coro[u] = c}}
        BY DEF InJoin, Tagged
      <3> QED BY <2>2, <2>3, <2>4, <3>2, <3>3 DEF Places, Tagged
    <2>6. /\ (InList(c) = {} => listed = {}) /\ (One(InList(c)) => \E x : listed = {x})
          /\ (InTask(c) = {} => posted = {}) /\ (One(InTask(c)) => \E x : posted = {x})
          /\ (InWalk(c) = {} => walked = {}) /\ (One(InWalk(c)) => \E x : walked = {x})
          /\ (InJoin(c) = {} => joining = {}) /\ (One(InJoin(c)) => \E x : joining = {x})
          /\ (InMutex(c) = {} => queued = {}) /\ (One(InMutex(c)) => \E x : queued = {x})
      BY TaggedPlaces, Zenon
    <2> HIDE DEF listed, posted, walked, joining, queued
    <2>7. CASE Nowhere(c) /\ ~WaitsSomewhere(c)
      <3>1. Places(c) = {} BY <2>5, <2>6, <2>7 DEF Nowhere, Zero
      <3> QED BY <2>7, <3>1, FS_EmptySet
    <2>8. CASE Somewhere(c) /\ WaitsSomewhere(c)
      <3>1. \E x : Places(c) = {x} BY <2>5, <2>6, <2>8 DEF Somewhere, Sole5
      <3> QED BY <2>8, <3>1, FS_Singleton
    <2> QED BY <1>1, <2>7, <2>8 DEF Reach, Placed
  <1> QED BY <1>1, Reachable, PTL

\* on_notify never comes to a node that is in the Condv's list again, if no coroutine
\* builds an awaiter where an earlier one was: only the reuse of a slot can break it.
THEOREM VisitedIsDangling == ~SlotsReused => (Spec => []VisitedNodeDangling)
  <1>1. ASSUME IInv, Reach PROVE VisitedNodeDangling
    <2> SUFFICES ASSUME NEW t \in Threads, pc[t] = "visit", node[t] \in Range(Listed)
                 PROVE  FALSE
      BY DEF VisitedNodeDangling
    <2>1. node[t] \in Nodes /\ node[t] # NULL
      BY <1>1, NodesAssumption DEF IInv, Locals
    <2>2. Chained(node[t]) /\ Start(t) = node[t]
      BY <1>1, <2>1 DEF Reach, Linked, Start
    <2>3. t \in InWalk(CoroOf(node[t]))
      BY <2>1, <2>2, TailHolds DEF InWalk
    <2>4. PICK i \in 1..Len(Listed) : Listed[i] = node[t]
      BY <1>1 DEF Range, Reach, Linked, Represents, Path
    <2> QED BY <1>1, <2>3, <2>4, ListedPlace
  <1> QED BY <1>1, Reachable, PTL

-----------------------------------------------------------------------------
(* Mutex and Condv implement the monitor *)

\* The monitor's owner, as Owner names it.
OwnerKnown ==
    /\ Owners = {} => Owner = NULL
    /\ \A c \in Owners : Owner = c /\ c # NULL

LEMMA OwnerIs == IInv => OwnerKnown
  <1> SUFFICES ASSUME IInv PROVE OwnerKnown
    OBVIOUS
  <1>1. Owners = {} \/ \E c \in Coros : Owners = {c}
    <2>1. Owners = Owning \cup {c \in Coros : \E t \in Unlocking : coro[t] = c}
      BY DEF Owners, Owning, Unlocking
    <2>2. Owning \subseteq Coros /\ Unlocking \subseteq Threads
      BY DEF Owning, Unlocking
    <2>3. CASE Unlocking = {}
      BY <2>1, <2>2, <2>3 DEF IInv, Sole
    <2>4. CASE Owning = {} /\ \E t : Unlocking = {t}
      <3>1. PICK t : Unlocking = {t} BY <2>4
      <3> QED BY <2>1, <2>4, <3>1
    <2> QED BY <2>3, <2>4 DEF IInv, Sole
  <1> QED BY <1>1, SlotsAssumption DEF OwnerKnown, Owner

\* The coroutines of the list, in order.
LEMMA WaitingIs ==
    ASSUME Reach
    PROVE  /\ WaitingCoros \in Seq(Coros) /\ Len(WaitingCoros) = Len(Listed)
           /\ Len(Listed) \in Nat /\ DOMAIN Listed = 1..Len(Listed)
           /\ \A i \in 1..Len(Listed) : WaitingCoros[i] = CoroOf(Listed[i])
           /\ \A c : c \in Range(WaitingCoros) <=> InList(c) # {}
           /\ \A c \in Range(WaitingCoros) : c \in Coros /\ state[c] = "waiting"
  <1>1. DOMAIN Listed = 1..Len(Listed) /\ Len(Listed) \in Nat
    BY DEF Reach, Linked, Represents, Path
  <1>2. \A i \in 1..Len(Listed) : CoroOf(Listed[i]) \in Coros /\ state[CoroOf(Listed[i])] = "waiting"
    BY SlotsAssumption DEF Reach, Linked, Represents, Path, Waits, WaitsAs, CoroOf
  <1> DEFINE q == Listed
             w == WaitingCoros
  <1>3. w = [i \in 1..Len(q) |-> CoroOf(q[i])]
    BY <1>1 DEF WaitingCoros
  <1> HIDE DEF q, w
  <1>4. w \in Seq(Coros) /\ Len(w) = Len(q) /\ DOMAIN w = 1..Len(q)
    BY <1>1, <1>2, <1>3 DEF q
  <1>5. \A i \in 1..Len(q) : w[i] = CoroOf(q[i])
    BY <1>3
  <1>6. \A c : c \in Range(w) <=> InList(c) # {}
    BY <1>4, <1>5 DEF Range, InList, q
  <1>7. \A c \in Range(w) : c \in Coros /\ state[c] = "waiting"
    BY <1>2, <1>4, <1>5 DEF Range, q
  <1> QED BY <1>1, <1>4, <1>5, <1>6, <1>7 DEF q, w

\* Steps that the monitor does not see.
LEMMA Unseen ==
    ASSUME Owners' = Owners, Listed' = Listed,
           \A c \in Coros : state[c] = "waiting" <=> state'[c] = "waiting"
    PROVE  UNCHANGED Abstract!vars
  BY DEF Abstract!vars, Owner, WaitingCoros, Unnotified

LEMMA InitImplements == Init /\ IInv => Abstract!Init
  <1> SUFFICES ASSUME Init, IInv PROVE Abstract!Init
    OBVIOUS
  <1>1. /\ m_awaiter_que.head = NULL /\ state = [c \in Coros |-> "away"]
        /\ pc = [t \in Threads |-> "idle"]
    BY DEF Init, EmptyList
  <1>2. Owners = {} BY <1>1 DEF Owners
  <1>3. Owner = NULL BY <1>2, OwnerIs DEF OwnerKnown
  <1>4. Listed = << >> BY <1>1, NullChain DEF Listed
  <1>5. WaitingCoros = << >> BY <1>4 DEF WaitingCoros
  <1>6. Unnotified = {} BY <1>1 DEF Unnotified
  <1> QED BY <1>3, <1>5, <1>6 DEF Abstract!Init

\* A coroutine takes the mutex, for the first time or after it was notified.
LEMMA Enters ==
    ASSUME TypeOK, Reach, OwnerKnown, OwnerKnown', Owners = {}, NEW c \in Coros, c \in Owners',
           Listed' = Listed, state' = [state EXCEPT ![c] = "owner"], InList(c) = {}
    PROVE  /\ state[c] # "waiting" => Abstract!Enter(c)
           /\ state[c] = "waiting" => Abstract!Reenter(c)
  <1>1. Owner = NULL /\ Owner' = c
    BY DEF OwnerKnown
  <1>2. c \notin Range(WaitingCoros)
    BY WaitingIs
  <1>3. WaitingCoros' = WaitingCoros
    BY DEF WaitingCoros
  <1>4. Unnotified' = Unnotified \ {c}
    BY <1>3 DEF TypeOK, Unnotified
  <1>5. c \in Unnotified <=> state[c] = "waiting"
    BY <1>2 DEF Unnotified
  <1>6. Abstract!Range(WaitingCoros) = Range(WaitingCoros)
    BY DEF Abstract!Range, Range
  <1> QED BY <1>1, <1>2, <1>3, <1>4, <1>5, <1>6 DEF Abstract!Enter, Abstract!Reenter

LEMMA Exits ==
    ASSUME OwnerKnown, OwnerKnown', NEW c \in Owners, Owners' = {}, Listed' = Listed,
           \A d \in Coros : state[d] = "waiting" <=> state'[d] = "waiting"
    PROVE  Abstract!Exit
  BY DEF OwnerKnown, Abstract!Exit, WaitingCoros, Unnotified

LEMMA WaitImplements ==
    ASSUME IInv, Reach, Reach', OwnerKnown, OwnerKnown', ~SlotsReused,
           NEW t \in Threads, NEW s \in Slots, Wait(t, s)
    PROVE  \E c \in Coros : Abstract!Enlist(c)
  <1>1. PICK c \in Coros : c = coro[t]
    BY DEF IInv, Wait, Runs, Locals
  <1>2. PICK n \in Nodes : n = <<c, s>>
    BY <1>1 DEF Wait
  <1>3. /\ pc[t] = "coro" /\ state[c] = "owner" /\ CoroOf(n) = c /\ n = <<coro[t], s>>
        /\ state' = [state EXCEPT ![c] = "waiting"]
        /\ pc' = [pc EXCEPT ![t] = "unlock"] /\ coro' = [coro EXCEPT ![t] = c]
    BY <1>1, <1>2 DEF Wait, Runs, CoroOf, Becomes, With
  <1>4. InList(c) = {}
    BY <1>3 DEF Reach, Placed, WaitsSomewhere, Nowhere, Zero
  <1>5. Listed' = Append(Listed, n) /\ Listed \in Seq(Nodes)
    <2>1. \A i \in 1..Len(Listed) : Listed[i] # n BY <1>3, <1>4 DEF InList
    <2> QED BY <1>3, <2>1, WaitLists DEF IInv
  <1>6. WaitingCoros' = Append(WaitingCoros, c)
    <2> DEFINE q == Listed
               w == WaitingCoros
    <2>1. w \in Seq(Coros) /\ Len(w) = Len(q) /\ \A i \in 1..Len(q) : w[i] = CoroOf(q[i])
      BY WaitingIs
    <2>2. q \in Seq(Nodes) /\ Listed' = Append(q, n) BY <1>5
    <2>3. WaitingCoros' = [i \in DOMAIN Listed' |-> CoroOf(Listed'[i])] BY DEF WaitingCoros
    <2> HIDE DEF q, w
    <2>4. /\ DOMAIN Listed' = 1..(Len(q) + 1) /\ Listed'[Len(q) + 1] = n /\ Len(q) \in Nat
          /\ \A i \in 1..Len(q) : Listed'[i] = q[i]
      BY <2>2
    <2> DEFINE a == Append(w, c)
    <2>5. /\ a = [i \in 1..(Len(q) + 1) |-> a[i]] /\ a[Len(q) + 1] = c
          /\ \A i \in 1..Len(q) : a[i] = w[i]
      <3>1. a \in Seq(Coros) /\ Len(a) = Len(q) + 1 BY <2>1, <2>4
      <3>2. a[Len(q) + 1] = c /\ \A i \in 1..Len(q) : a[i] = w[i] BY <2>1, <2>4
      <3> HIDE DEF a
      <3> QED BY <3>1, <3>2
    <2> HIDE DEF a
    <2>6. ASSUME NEW i \in 1..(Len(q) + 1)
          PROVE  CoroOf(Listed'[i]) = a[i]
      <3>1. CASE i = Len(q) + 1 BY <1>3, <2>4, <2>5, <3>1
      <3>2. CASE i # Len(q) + 1
        <4>1. i \in 1..Len(q) BY <2>4, <3>2
        <4> QED BY <2>1, <2>4, <2>5, <4>1
      <3> QED BY <3>1, <3>2
    <2>7. WaitingCoros' = a BY <2>3, <2>4, <2>5, <2>6
    <2> QED BY <2>7 DEF a, w
  <1>7. Range(WaitingCoros') = Range(WaitingCoros) \cup {c}
    <2> DEFINE w == WaitingCoros
    <2>1. w \in Seq(Coros) BY WaitingIs
    <2>2. WaitingCoros' = Append(w, c) BY <1>6
    <2> HIDE DEF w
    <2>3. /\ DOMAIN Append(w, c) = 1..(Len(w) + 1) /\ DOMAIN w = 1..Len(w) /\ Len(w) \in Nat
          /\ Append(w, c)[Len(w) + 1] = c /\ \A i \in 1..Len(w) : Append(w, c)[i] = w[i]
      BY <2>1
    <2>4. /\ \A i \in 1..(Len(w) + 1) : i \in 1..Len(w) \/ i = Len(w) + 1
          /\ \A i \in 1..Len(w) : i \in 1..(Len(w) + 1)
          /\ Len(w) + 1 \in 1..(Len(w) + 1)
      BY <2>3
    <2>5. Range(Append(w, c)) = Range(w) \cup {c}
      BY <2>3, <2>4 DEF Range
    <2> QED BY <2>2, <2>5 DEF w
  <1>8. Unnotified' = Unnotified
    BY <1>3, <1>7 DEF IInv, TypeOK, Unnotified
  <1>9. Owner = c /\ Owner' = c
    <2>1. c \in Owners BY <1>3 DEF Owners
    <2>2. pc'[t] = "unlock" /\ coro'[t] = c BY <1>3 DEF IInv, TypeOK
    <2>3. c \in Owners' BY <2>2 DEF Owners
    <2> QED BY <2>1, <2>3 DEF OwnerKnown
  <1>10. c \notin Range(WaitingCoros) \cup Unnotified
    BY <1>3, <1>4, WaitingIs DEF Unnotified
  <1>11. Abstract!Enlist(c)
    <2>1. Abstract!Range(WaitingCoros) = Range(WaitingCoros)
      BY DEF Abstract!Range, Range
    <2> QED BY <1>6, <1>8, <1>9, <1>10, <2>1 DEF Abstract!Enlist
  <1> QED BY <1>11

LEMMA NotifyOneImplements ==
    ASSUME IInv, Reach, NEW t \in Threads, notify_one(t)
    PROVE  Abstract!NotifyOne
  <1> DEFINE q == Listed
             w == WaitingCoros
             h == CoroOf(q[1])
  <1>1. /\ Len(q) \in Nat /\ Len(q) # 0 /\ Len(Listed') = Len(q) - 1 /\ Listed' = Tail(q)
        /\ \A i \in 1..Len(Listed') : Listed'[i] = q[i + 1]
        /\ UNCHANGED <<state, pc, coro>>
    BY NotifyOneLists DEF IInv
  <1>2. /\ w \in Seq(Coros) /\ Len(w) = Len(q) /\ DOMAIN q = 1..Len(q)
        /\ \A i \in 1..Len(q) : w[i] = CoroOf(q[i])
    BY WaitingIs
  <1>3. q \in Seq(Nodes) /\ \A i, j \in 1..Len(q) : CoroOf(q[i]) = CoroOf(q[j]) => i = j
    BY DEF Reach, Linked, Represents, Path, Waits, WaitsAs
  <1>4. WaitingCoros' = [i \in DOMAIN Listed' |-> CoroOf(Listed'[i])]
    BY DEF WaitingCoros
  <1>5. Owner' = Owner
    BY <1>1 DEF Owner, Owners
  <1>6. Unnotified = {c \in Coros : state[c] = "waiting"} \ Range(w)
    BY DEF Unnotified
  <1>7. Unnotified' = {c \in Coros : state[c] = "waiting"} \ Range(WaitingCoros')
    BY <1>1 DEF Unnotified
  <1>8. \A c \in Range(w) : c \in Coros /\ state[c] = "waiting"
    BY WaitingIs
  <1> HIDE DEF q, w, h
  <1>9. DOMAIN Listed' = 1..(Len(q) - 1)
    BY <1>1, <1>3
  <1>10. WaitingCoros' = Tail(w)
    <2> DEFINE a == Tail(w)
    <2>1. /\ a = [i \in 1..(Len(q) - 1) |-> a[i]]
          /\ \A i \in 1..(Len(q) - 1) : a[i] = w[i + 1]
      <3>1. a \in Seq(Coros) /\ Len(a) = Len(q) - 1 BY <1>1, <1>2
      <3>2. \A i \in 1..(Len(q) - 1) : a[i] = w[i + 1] BY <1>1, <1>2
      <3> HIDE DEF a
      <3> QED BY <3>1, <3>2
    <2> HIDE DEF a
    <2>2. ASSUME NEW i \in 1..(Len(q) - 1) PROVE CoroOf(Listed'[i]) = a[i]
      <3>1. i + 1 \in 1..Len(q) BY <1>1
      <3> QED BY <1>1, <1>2, <2>1, <3>1
    <2>3. WaitingCoros' = a BY <1>4, <1>9, <2>1, <2>2
    <2> QED BY <2>3 DEF a
  <1>11. w # << >> /\ Head(w) = h /\ 1 \in 1..Len(w) /\ w[1] = h
    BY <1>1, <1>2 DEF h
  <1>12. Range(Tail(w)) = Range(w) \ {h}
    <2>1. /\ DOMAIN Tail(w) = 1..(Len(w) - 1) /\ DOMAIN w = 1..Len(w)
          /\ \A i \in 1..(Len(w) - 1) : Tail(w)[i] = w[i + 1] /\ i + 1 \in 1..Len(w) /\ i + 1 # 1
      BY <1>2, <1>11
    <2>2. \A i \in 1..Len(w) : i # 1 => i - 1 \in 1..(Len(w) - 1) /\ (i - 1) + 1 = i
      BY <1>1, <1>2
    <2>3. \A i \in 1..Len(w) : w[i] = h => i = 1
      BY <1>2, <1>3, <1>11
    <2>4. ASSUME NEW x \in Range(Tail(w)) PROVE x \in Range(w) \ {h}
      <3>1. PICK i \in 1..(Len(w) - 1) : Tail(w)[i] = x BY <2>1 DEF Range
      <3> QED BY <2>1, <2>3, <3>1 DEF Range
    <2>5. ASSUME NEW x \in Range(w) \ {h} PROVE x \in Range(Tail(w))
      <3>1. PICK i \in 1..Len(w) : w[i] = x BY <2>1 DEF Range
      <3>2. i # 1 BY <1>11, <2>5, <3>1
      <3>3. i - 1 \in 1..(Len(w) - 1) /\ Tail(w)[i - 1] = x BY <2>1, <2>2, <3>1, <3>2
      <3> QED BY <2>1, <3>3 DEF Range
    <2> QED BY <2>4, <2>5
  <1>13. h \in Range(w)
    BY <1>2, <1>11 DEF Range
  <1>14. Unnotified' = Unnotified \cup {Head(w)}
    BY <1>6, <1>7, <1>8, <1>10, <1>11, <1>12, <1>13
  <1> QED BY <1>5, <1>10, <1>11, <1>14 DEF Abstract!NotifyOne, w

LEMMA NotifyAllImplements ==
    ASSUME IInv, Reach, NEW t \in Threads, notify_all(t)
    PROVE  Abstract!NotifyAll
  <1>1. /\ m_awaiter_que'.head = NULL /\ m_awaiter_que.head # NULL
        /\ UNCHANGED <<m_next, state, pc, coro>>
    BY DEF notify_all, IInv, TypeOK, Lists, threadVars
  <1>2. Listed' = << >>
    BY <1>1, NullChain DEF Listed
  <1>3. WaitingCoros' = << >> /\ Owner' = Owner
    BY <1>1, <1>2 DEF WaitingCoros, Owner, Owners
  <1>4. WaitingCoros # << >>
    <2>1. Len(Listed) # 0
      BY <1>1 DEF Reach, Linked, Represents, Path
    <2>2. WaitingCoros \in Seq(Coros) /\ Len(WaitingCoros) # 0 BY <2>1, WaitingIs
    <2> QED BY <2>2
  <1>5. Range(WaitingCoros') = {}
    BY <1>3 DEF Range
  <1>6. Unnotified' = {c \in Coros : state[c] = "waiting"}
    BY <1>1, <1>5 DEF Unnotified
  <1>7. \A c \in Range(WaitingCoros) : c \in Coros /\ state[c] = "waiting"
    BY WaitingIs
  <1>8. Unnotified' = Unnotified \cup Range(WaitingCoros)
    BY <1>6, <1>7 DEF Unnotified
  <1>9. Abstract!Range(WaitingCoros) = Range(WaitingCoros)
    BY DEF Abstract!Range, Range
  <1> QED BY <1>3, <1>4, <1>8, <1>9 DEF Abstract!NotifyAll

\* Every step of Condv is one of the monitor, or one it does not see.
LEMMA StepImplements ==
    ASSUME IInv, Reach, IInv', Reach', OwnerKnown, OwnerKnown', ~SlotsReused, [Next]_vars
    PROVE  [Abstract!Next]_(Abstract!vars)
  <1> USE DEF IInv
  <1> DEFINE Goal == [Abstract!Next]_(Abstract!vars)
  <1>1. ASSUME NEW c \in Coros, Abstract!Enter(c) \/ Abstract!Reenter(c) \/ Abstract!Enlist(c)
        PROVE  Goal
    BY <1>1 DEF Abstract!Next
  <1>2. ASSUME Abstract!Exit \/ Abstract!NotifyOne \/ Abstract!NotifyAll PROVE Goal
    BY <1>2 DEF Abstract!Next
  <1>3. ASSUME UNCHANGED Abstract!vars PROVE Goal
    BY <1>3
  <1> HIDE DEF Goal
  <1>4. ASSUME UNCHANGED <<m_awaiter_que, m_next>> PROVE Listed' = Listed
    BY <1>4 DEF Listed
  <1>5. ASSUME NEW t \in Threads, Suspend(t) \/ \E c \in Coros : Resume(t, c) PROVE Goal
    <2>1. PICK c, doing, there, who :
             /\ c \in Coros /\ doing \in {"user", "away"} /\ there \in {"idle", "next", "coro"}
             /\ state[c] \in {"user", "away"} /\ state' = [state EXCEPT ![c] = doing]
             /\ pc[t] # "unlock" /\ pc' = [pc EXCEPT ![t] = there]
             /\ coro' = [coro EXCEPT ![t] = who]
      <3>1. CASE Suspend(t)
        <4>1. coro[t] \in Coros BY <3>1 DEF Suspend, Runs, Locals
        <4> QED BY <3>1, <4>1 DEF Suspend, Runs, Becomes, Return, With
      <3>2. ASSUME NEW c \in Coros, Resume(t, c)
            PROVE  /\ state[c] = "away" /\ state' = [state EXCEPT ![c] = "user"]
                   /\ pc[t] # "unlock" /\ pc' = [pc EXCEPT ![t] = "coro"]
                   /\ coro' = [coro EXCEPT ![t] = c]
        BY <3>2 DEF Resume, Becomes, With
      <3> QED BY <1>5, <3>1, <3>2
    <2>2. Listed' = Listed BY <1>4, <1>5 DEF Suspend, Resume, listVars
    <2>3. Owners' = Owners /\ \A d \in Coros : state[d] = "waiting" <=> state'[d] = "waiting"
      BY <2>1 DEF TypeOK, Owners
    <2> QED BY <1>3, <2>2, <2>3, Unseen
  <1>6. ASSUME NEW t \in Threads, NEW c \in Coros, TryLock(t, c), UNCHANGED <<m_awaiter_que, m_next>>,
               pc[t] \notin {"unlock", "join"}, InList(c) = {}, state[c] \in {"user", "waiting"}
        PROVE  Goal
    <2>1. Listed' = Listed BY <1>4, <1>6
    <2>2. CASE M!Lock /\ Becomes(c, "owner") /\ With(t, "coro", c)
      <3>1. Owners = {}
        <4>1. Owning = {} /\ Unlocking = {} BY <2>2 DEF Sole, M!Lock
        <4> QED BY <4>1 DEF Owners, Owning, Unlocking
      <3>2. state' = [state EXCEPT ![c] = "owner"] BY <2>2 DEF Becomes
      <3>3. c \in Owners' BY <3>2 DEF TypeOK, Owners
      <3> QED BY <1>1, <1>6, <2>1, <3>1, <3>2, <3>3, Enters
    <2>3. CASE /\ M!Arrive(c) /\ With(t, "join", c)
               /\ state' = [state EXCEPT ![c] = IF @ = "user" THEN "locking" ELSE @]
      <3>1. Owners' = Owners
        BY <1>6, <2>3 DEF TypeOK, Owners, With
      <3>2. \A d \in Coros : state[d] = "waiting" <=> state'[d] = "waiting"
        BY <1>6, <2>3 DEF TypeOK
      <3> QED BY <1>3, <2>1, <3>1, <3>2, Unseen
    <2> QED BY <1>6, <2>2, <2>3 DEF TryLock
  <1>7. ASSUME NEW t \in Threads, LockMutex(t) PROVE Goal
    <2>1. coro[t] \in Coros /\ state[coro[t]] = "user" /\ pc[t] = "coro"
      BY <1>7 DEF LockMutex, Runs, Locals
    <2>2. InList(coro[t]) = {}
      BY <2>1 DEF Reach, Placed, WaitsSomewhere, Nowhere, Zero
    <2> QED BY <1>6, <1>7, <2>1, <2>2 DEF LockMutex, listVars
  <1>8. ASSUME NEW t \in Threads, Visit(t) PROVE Goal
    <2>1. PICK n \in Nodes : n = node[t] /\ pc[t] = "visit" /\ n # NULL
      BY <1>8, NodesAssumption DEF Visit, Locals
    <2>2. CoroOf(n) \in Coros BY SlotsAssumption DEF CoroOf
    <2>3. Chained(n) /\ Start(t) = n BY <2>1 DEF Reach, Linked, Start
    <2>4. state[CoroOf(n)] = "waiting" /\ t \in InWalk(CoroOf(n))
      BY <2>3, TailHolds DEF InWalk
    <2>5. InList(CoroOf(n)) = {}
      BY <2>2, <2>4 DEF Reach, Placed, Nowhere, Zero, Somewhere, Sole5
    <2> QED BY <1>6, <1>8, <2>1, <2>2, <2>4, <2>5 DEF Visit, listVars
  <1>9. ASSUME NEW t \in Threads, JoinMutex(t) \/ Advance(t) PROVE Goal
    <2>1. PICK there, who :
             /\ there \in {"idle", "next", "visit"} /\ pc[t] # "unlock" /\ pc' = [pc EXCEPT ![t] = there]
             /\ coro' = [coro EXCEPT ![t] = who] /\ UNCHANGED state
      <3>1. CASE JoinMutex(t) BY <3>1 DEF JoinMutex, Return, With
      <3>2. CASE Advance(t)
        <4>1. coro' = [coro EXCEPT ![t] = coro[t]] BY <3>2 DEF Advance, TypeOK
        <4> QED BY <3>2, <4>1 DEF Advance
      <3> QED BY <1>9, <3>1, <3>2
    <2>2. Listed' = Listed BY <1>4, <1>9 DEF JoinMutex, Advance, listVars
    <2>3. Owners' = Owners BY <2>1 DEF TypeOK, Owners
    <2> QED BY <1>3, <2>1, <2>2, <2>3, Unseen
  <1>10. ASSUME NEW t \in Threads, UnlockMutex(t) PROVE Goal
    <2>1. PICK c \in Coros : c = coro[t] BY <1>10 DEF UnlockMutex, Runs, Locals
    <2>2. state[c] = "owner" /\ state' = [state EXCEPT ![c] = "user"] /\ UNCHANGED <<pc, coro>>
      BY <1>10, <2>1 DEF UnlockMutex, Runs, Becomes, threadVars
    <2>3. c \in Owning BY <2>2 DEF Owning
    <2>4. Owning = {c} /\ Unlocking = {} BY <2>3 DEF Sole
    <2>5. c \in Owners /\ Owners' = {}
      BY <2>2, <2>4 DEF TypeOK, Owners, Owning, Unlocking
    <2>6. Listed' = Listed BY <1>4, <1>10 DEF UnlockMutex, listVars
    <2>7. \A d \in Coros : state[d] = "waiting" <=> state'[d] = "waiting"
      BY <2>2 DEF TypeOK
    <2> QED BY <1>2, <2>5, <2>6, <2>7, Exits
  <1>11. ASSUME NEW t \in Threads, WaitUnlock(t) PROVE Goal
    <2>1. PICK c \in Coros : c = coro[t] BY <1>11 DEF WaitUnlock, Locals
    <2>2. pc[t] = "unlock" /\ UNCHANGED state BY <1>11 DEF WaitUnlock
    <2>3. pc' = [pc EXCEPT ![t] = IF node[t] = NULL THEN "idle" ELSE "next"]
      BY <1>11 DEF WaitUnlock, Return, With
    <2>4. Owning = {} /\ Unlocking = {t}
      <3>1. t \in Unlocking BY <2>2 DEF Unlocking
      <3> QED BY <3>1 DEF Sole
    <2>5. c \in Owners BY <2>1, <2>2 DEF Owners
    <2>6. Owners' = {}
      <3>1. \A u \in Threads : pc'[u] # "unlock" BY <2>3, <2>4 DEF TypeOK, Unlocking
      <3>2. \A d \in Coros : state'[d] # "owner" BY <2>2, <2>4 DEF Owning
      <3> QED BY <3>1, <3>2 DEF Owners
    <2>7. Listed' = Listed BY <1>4, <1>11 DEF WaitUnlock, listVars
    <2> QED BY <1>2, <2>2, <2>5, <2>6, <2>7, Exits
  <1>12. ASSUME NEW t \in Threads, RunTask(t) PROVE Goal
    <2>1. /\ pc[t] = "idle" /\ m_task_queue # << >> /\ Len(m_task_queue) \in Nat \ {0}
          /\ Head(m_task_queue) = m_task_queue[1] /\ m_task_queue[1] \in Tasks
          /\ Listed' = Listed
      BY <1>4, <1>12 DEF TypeOK, RunTask, listVars
    <2>2. CASE m_task_queue[1].call = "on_notify"
      <3>1. pc' = [pc EXCEPT ![t] = "visit"] /\ UNCHANGED <<coro, state>>
        BY <1>12, <2>1, <2>2 DEF RunTask
      <3>2. Owners' = Owners BY <2>1, <3>1 DEF TypeOK, Owners
      <3> QED BY <1>3, <2>1, <3>1, <3>2, Unseen
    <2>3. CASE m_task_queue[1].call = "on_callback"
      <3>1. PICK c \in Coros : m_task_queue[1] = LockTask(c)
        BY <2>1, <2>3 DEF Tasks, NotifyTask
      <3>2. state' = [state EXCEPT ![c] = "owner"]
        BY <1>12, <2>1, <2>3, <3>1 DEF RunTask, LockTask, Becomes
      <3>3. Owners = {}
        <4>1. 1 \in HandedOver BY <2>1, <2>3 DEF HandedOver
        <4>2. Owning = {} /\ Unlocking = {} BY <4>1 DEF Sole
        <4> QED BY <4>2 DEF Owners, Owning, Unlocking
      <3>4. c \in Owners' BY <3>2 DEF TypeOK, Owners
      <3>5. InList(c) = {}
        <4>1. 1 \in InTask(c) BY <2>1, <3>1 DEF InTask, TaskHolds
        <4> QED BY <4>1 DEF Reach, Placed, Nowhere, Zero, Somewhere, Sole5
      <3> QED BY <1>1, <2>1, <3>2, <3>3, <3>4, <3>5, Enters
    <2> QED BY <2>1, <2>2, <2>3, TaskKinds
  <1>13. ASSUME NEW t \in Threads,
                notify_one(t) \/ notify_all(t) \/ \E s \in Slots : Wait(t, s)
         PROVE  Goal
    BY <1>1, <1>2, <1>13, NotifyOneImplements, NotifyAllImplements, WaitImplements
  <1>14. ASSUME UNCHANGED vars PROVE Goal
    <2>1. UNCHANGED <<m_awaiter_que, m_next, state, pc, coro>> BY <1>14 DEF vars
    <2>2. Owners' = Owners BY <2>1 DEF Owners
    <2> QED BY <1>3, <1>4, <2>1, <2>2, Unseen
  <1>15. ASSUME Next PROVE Goal
    <2>1. PICK t \in Threads :
              \/ \E c \in Coros : Resume(t, c)
              \/ Suspend(t) \/ LockMutex(t) \/ notify_one(t) \/ notify_all(t)
              \/ Leave(t) \/ Proceed(t)
      BY <1>15 DEF Next
    <2> QED
      BY <1>5, <1>7, <1>8, <1>9, <1>10, <1>11, <1>12, <1>13, <2>1 DEF Leave, Proceed
  <1>16. Goal
    BY <1>14, <1>15
  <1> QED BY <1>16 DEF Goal

\* A coroutine that waits is enlisted before anyone else can own the mutex, goes on only
\* after it was notified and with the mutex to itself, and waiters are notified in the
\* order they enlisted: Mutex, Condv and the run queue together are a monitor, for any
\* threads and coroutines, if no coroutine builds an awaiter where an earlier one was.
THEOREM CondvIsMonitor == ~SlotsReused => (Spec => ImplementsMonitor)
  <1> SUFFICES ASSUME ~SlotsReused PROVE Spec => ImplementsMonitor
    OBVIOUS
  <1>1. Spec => [](IInv /\ Reach)
    BY Reachable
  <1>2. Init /\ IInv => Abstract!Init
    BY InitImplements
  <1>3. IInv => OwnerKnown
    BY OwnerIs
  <1>4. /\ IInv /\ Reach /\ OwnerKnown /\ (IInv /\ Reach)' /\ OwnerKnown' /\ [Next]_vars
        => [Abstract!Next]_(Abstract!vars)
    BY StepImplements
  <1> QED BY <1>1, <1>2, <1>3, <1>4, PTL DEF Spec, ImplementsMonitor, Abstract!Spec
=============================================================================
